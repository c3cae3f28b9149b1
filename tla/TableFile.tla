------------------------------ MODULE TableFile ------------------------------
(***************************************************************************)
(* What HashFile goes through, seen from outside: it is written by at most *)
(* one run at a time, and only where there is none that opens.  If files   *)
(* that are there always open, it is written once, for good or ill: what   *)
(* is left of that write, but a file that does not even open, is there to  *)
(* stay.                                                                   *)
(***************************************************************************)
CONSTANT OpenFaults  \* may a file that is there fail to open?

VARIABLES
  file,    \* "absent" (or not to be opened), "torn" or "table"
  writing  \* whether a run is writing it

Init == file = "absent" /\ writing = FALSE

Start ==
  /\ file = "absent" \/ OpenFaults
  /\ ~writing
  /\ file' = "torn"
  /\ writing' = TRUE

Finish ==
  /\ writing
  /\ file' = "table"
  /\ writing' = FALSE

(* The run is killed, or meets an error.                                   *)
Abandon ==
  /\ writing
  /\ file' \in {"absent", "torn"}
  /\ writing' = FALSE

Next == Start \/ Finish \/ Abandon

Spec == Init /\ [][Next]_<<file, writing>>
=============================================================================
