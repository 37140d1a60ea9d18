------------------------------ MODULE Blocking ------------------------------
(***************************************************************************)
(* What blocking a boundary promises, whatever order it goes in: openings  *)
(* are closed and never opened, and it is finished when none is open.      *)
(***************************************************************************)
CONSTANT Wires

VARIABLES open, finished

Init == open \in SUBSET Wires /\ finished = FALSE

Close == /\ ~finished
         /\ open' \in SUBSET open
         /\ UNCHANGED finished

Finish == /\ open = {}
          /\ finished' = TRUE
          /\ UNCHANGED open

Spec == Init /\ [][Close \/ Finish]_<<open, finished>>
=============================================================================
