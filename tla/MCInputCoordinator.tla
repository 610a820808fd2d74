-------------------------- MODULE MCInputCoordinator --------------------------
(* Model-checking instance of InputCoordinator. *)
EXTENDS InputCoordinator, TLC

CONSTANTS c1, c2, s1, s2

\* Two clients with a session each.
MCOwnSession == [c \in {c1, c2} |-> IF c = c1 THEN s1 ELSE s2]

\* Two goroutines that share a session.
MCOneSession == [c \in {c1, c2} |-> s1]

\* A key goes down, a key goes up, the mouse moves.
MCReports == {[kind |-> "keyboard", held |-> TRUE, cool |-> TRUE],
              [kind |-> "keyboard", held |-> FALSE, cool |-> TRUE],
              [kind |-> "relative", held |-> FALSE, cool |-> FALSE]}

\* The identities of leases and of reservations are interchangeable.
MCSymmetry == Permutations(Leases) \union Permutations(Slots)
=============================================================================
