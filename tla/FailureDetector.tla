---------------------------- MODULE FailureDetector ----------------------------
(***************************************************************************)
(* What the host agent promises about guests: a failure detector.  It      *)
(* keeps the members it has heard of, each with the time since then.  It   *)
(* is complete: no member is kept that was silent for longer than 2.5      *)
(* grace periods.  It is accurate: a guest that has been in contact for    *)
(* Cap units is a member, is heard of regularly and is not expelled.       *)
(***************************************************************************)
EXTENDS Integers

CONSTANTS
  Guests,
  Grace,    \* grace period
  Cap       \* contact counts up to this value

VARIABLES
  age,      \* time since each member was heard of
  contact   \* for how long each guest has been in contact

vars == <<age, contact>>

Init ==
  /\ age = [v \in {} |-> 0]
  /\ contact = [v \in Guests |-> 0]

\* Guests in contact are members, and were heard of lately.
Accurate ==
  \A v \in Guests : contact[v] = Cap => v \in DOMAIN age /\ age[v] < Cap

\* Contact may be interrupted at any time.
Interrupted ==
  /\ contact' \in [Guests -> 0..Cap]
  /\ \A v \in Guests : contact'[v] \in {0, contact[v]}

\* Time passes; it would not if a member got too old.
Pass ==
  /\ \A v \in DOMAIN age : 2 * (age[v] + 1) <= 5 * Grace
  /\ age' = [v \in DOMAIN age |-> age[v] + 1]
  /\ contact' \in [Guests -> 0..Cap]
  /\ \A v \in Guests :
       contact'[v] \in {0, IF contact[v] < Cap THEN contact[v] + 1 ELSE Cap}

Hear(v) ==
  /\ age' = [w \in DOMAIN age \cup {v} |-> IF w = v THEN 0 ELSE age[w]]
  /\ Interrupted

\* Silent members are expelled, none of those in contact.
Expel(S) ==
  /\ \A v \in S : 2 * age[v] > 3 * Grace /\ contact[v] < Cap
  /\ age' = [w \in DOMAIN age \ S |-> age[w]]
  /\ Interrupted

\* The detector starts anew.
Forget ==
  /\ age' = [v \in {} |-> 0]
  /\ contact' = [v \in Guests |-> 0]

Lose == UNCHANGED age /\ Interrupted

Next ==
  /\ \/ Pass \/ Forget \/ Lose
     \/ \E v \in Guests : Hear(v)
     \/ \E S \in SUBSET DOMAIN age : Expel(S)
  /\ Accurate'

Spec == Init /\ [][Next]_vars
=============================================================================
