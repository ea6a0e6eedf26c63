----------------------------- MODULE RequestTable -----------------------------
(***************************************************************************)
(* What the host agent promises to its clients about commands: a table of  *)
(* requests.  A request is open until its results come in, and its results *)
(* are handed out once.  A restart of the agent forgets what it has not    *)
(* handed out, and nothing that comes in later brings it back.             *)
(***************************************************************************)
CONSTANT CmdIds

VARIABLE request    \* state of each request

States == {"new", "open", "answered", "collected", "forgotten"}

Init == request = [c \in CmdIds |-> "new"]

Move(c, from, to) ==
  /\ request[c] = from
  /\ request' = [request EXCEPT ![c] = to]

Send(c) == Move(c, "new", "open")
Answer(c) == Move(c, "open", "answered")
Collect(c) == Move(c, "answered", "collected")

Restart ==
  request' = [c \in CmdIds |-> IF request[c] \in {"open", "answered"}
                               THEN "forgotten" ELSE request[c]]

Next == Restart \/ \E c \in CmdIds : Send(c) \/ Answer(c) \/ Collect(c)

Spec == Init /\ [][Next]_request
=============================================================================
