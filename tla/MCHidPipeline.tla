---------------------------- MODULE MCHidPipeline ----------------------------
(* Model-checking instance of HidPipeline. *)
EXTENDS HidPipeline

Make(device, down, at) == [device |-> device, down |-> down, at |-> at]

\* Buttons of both mice go down and up.
MCMice ==
  [c \in Clients |-> {Make("absolute", TRUE, 1), Make("absolute", FALSE, 1),
                      Make("relative", TRUE, 0), Make("relative", FALSE, 0)}]

\* The relative mouse moves, a button down or not: with MaxMotion = 4 the reports
\* that a full queue evicts violate NewestDescribesTruth.
MCMoves == [c \in Clients |-> {Make("relative", FALSE, 1), Make("relative", TRUE, 1)}]
=============================================================================
