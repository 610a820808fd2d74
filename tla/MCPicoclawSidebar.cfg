CONSTANTS
  Tasks <- MCTasks
  Scenes <- MCScenes
  Attempts = 2
  MaxClicks = 2
  MaxEvents = 1
SPECIFICATION Spec
INVARIANTS TypeOK ConnectedIsOpen
PROPERTIES PollsNeverGoBack MutationEnds Converges
CHECK_DEADLOCK FALSE
