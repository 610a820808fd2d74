--------------------------- MODULE MCPicoclawSidebar ---------------------------
(* Model-checking instances of PicoclawSidebar: the tasks of the panel, and the
   pairs of buttons a user presses in one behaviour. *)
EXTENDS PicoclawSidebar

MCTasks == {"open", "toggle", "send", "reconnect", "new", "select", "mutation"}
MCScenes == {{"open", "send"}, {"stop", "new"}, {"toggle", "release"}, {"toggle", "agent"},
             {"agent", "select"}, {"grant", "settings"}, {"grant", "reconnect"}, {"install", "uninstall"}}
=============================================================================
