---------------------------------- MODULE Job ----------------------------------
(***************************************************************************)
(* What VMWrapper promises to the BOINC client: the tasks of the job are   *)
(* done in their order, each is recorded after it is done, and a run says  *)
(* that the job is computed only when all tasks are recorded.  The record  *)
(* may be lost as a whole, never in part.                                  *)
(***************************************************************************)
EXTENDS Naturals

CONSTANT NTasks

VARIABLES
  recorded,   \* number of tasks that the record counts as completed
  done,       \* tasks that have ended well
  outcome     \* of the run: "none" while it goes on

vars == <<recorded, done, outcome>>

Init == recorded = 0 /\ done = {} /\ outcome = "none"

\* The first task that is not recorded ends well, perhaps once more.
Do ==
  /\ outcome = "none"
  /\ recorded < NTasks
  /\ done' = done \cup {recorded}
  /\ UNCHANGED <<recorded, outcome>>

Record ==
  /\ outcome = "none"
  /\ recorded \in done
  /\ recorded' = recorded + 1
  /\ UNCHANGED <<done, outcome>>

Lose ==
  /\ outcome = "none"
  /\ recorded' = 0
  /\ UNCHANGED <<done, outcome>>

\* The run ends.
Complete ==
  /\ outcome = "none"
  /\ recorded = NTasks
  /\ outcome' = "computed"
  /\ UNCHANGED <<recorded, done>>

Break ==
  /\ outcome = "none"
  /\ outcome' = "broken"
  /\ UNCHANGED <<recorded, done>>

Next == Do \/ Record \/ Lose \/ Complete \/ Break

Spec == Init /\ [][Next]_vars
=============================================================================
