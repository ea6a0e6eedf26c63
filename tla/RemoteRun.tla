------------------------------- MODULE RemoteRun -------------------------------
(***************************************************************************)
(* How a task of VMWrapper gets its command run in a virtual machine:      *)
(* runVM calls runCmd of the XML-RPC service until the call returns, the   *)
(* service asks the host's engine to send CMD_RUN, and the guest executes  *)
(* what it receives.                                                       *)
(*                                                                         *)
(* xmlrpc_runCmd returns what requestCmdExecution returns, None, which the *)
(* XML-RPC server cannot encode: the caller gets a Fault after the command *)
(* has been sent.  If the machine is not registered, it gets a Fault and   *)
(* nothing is sent.  Every call makes an id of its own; ids are the        *)
(* numbers of the calls.                                                   *)
(***************************************************************************)
EXTENDS Executer

CONSTANTS
  MaxTries,  \* number of calls in MAX_WAIT_TIME: one every 10 seconds
  MaxMoves   \* bound: times the registration of the machine changes

ASSUME TriesAssumption ==
  MaxTries \in Nat \ {0} /\ MaxMoves \in Nat /\ Cmds = 1..MaxTries

VARIABLES
  pc,          \* of runVM: "call", "wait", "raised" (Exception(5)), "run"
  tries,       \* calls made
  vms,         \* is the machine in _vms, and its agent connected?
  moves,
  wire,        \* CMD_RUN frames on their way to the guest
  cmdReqsSent  \* _cmdReqsSent of the engine

callVars == <<pc, tries>>
linkVars == <<vms, moves, wire, cmdReqsSent>>
vars == <<callVars, linkVars, execVars>>

TypeOK ==
  /\ ExecTypeOK
  /\ pc \in {"call", "wait", "raised", "run"}
  /\ tries \in 0..MaxTries
  /\ vms \in BOOLEAN /\ moves \in 0..MaxMoves
  /\ wire \subseteq Cmds /\ cmdReqsSent \subseteq Cmds

Init ==
  /\ ExecInit
  /\ pc = "call" /\ tries = 0
  /\ vms = TRUE /\ moves = 0
  /\ wire = {} /\ cmdReqsSent = {}

\* Mutant: the frame is sent before the check that the machine is registered.
requestCmdExecution_early ==
  /\ wire' = wire \cup {tries'}
  /\ \/ vms /\ cmdReqsSent' = cmdReqsSent \cup {tries'}
     \/ ~vms /\ UNCHANGED cmdReqsSent

\* HostStompEngine.requestCmdExecution for the call that is made: it sends the
\* command, or raises ValueError.
requestCmdExecution ==
  \/ vms /\ wire' = wire \cup {tries'} /\ cmdReqsSent' = cmdReqsSent \cup {tries'}
  \/ ~vms /\ UNCHANGED <<wire, cmdReqsSent>>

\* Mutant: the second return statement of xmlrpc_runCmd takes effect.
xmlrpc_runCmd_id ==
  /\ pc = "call"
  /\ tries < MaxTries
  /\ tries' = tries + 1
  /\ requestCmdExecution
  /\ pc' = IF vms THEN "run" ELSE "wait"
  /\ UNCHANGED <<vms, moves, execVars>>

\* The call of runVM, from the client's call to its Fault
xmlrpc_runCmd ==
  /\ pc = "call"
  /\ tries < MaxTries
  /\ tries' = tries + 1
  /\ requestCmdExecution
  /\ pc' = "wait"
  /\ UNCHANGED <<vms, moves, execVars>>

\* runVM handles the exception: it sleeps and calls again, or raises.
tryAgain ==
  /\ pc = "wait"
  /\ pc' = IF tries = MaxTries THEN "raised" ELSE "call"
  /\ UNCHANGED <<tries, linkVars, execVars>>

\* The guest receives CMD_RUN and acts on it.
listenAndAct ==
  /\ \E c \in wire :
       /\ wire' = wire \ {c}
       /\ executeCommand(c) \/ executeWithoutStdin(c)
  /\ UNCHANGED <<callVars, vms, moves, cmdReqsSent>>

\* The guest leaves the registry or comes back.  Frames sent meanwhile or
\* before are lost with its connection.
move ==
  /\ moves < MaxMoves /\ moves' = moves + 1
  /\ vms' = ~vms
  /\ wire' \in {wire, {}}
  /\ UNCHANGED <<callVars, cmdReqsSent, execVars>>

Guest == \E c \in Cmds : exit(c) \/ reap(c) \/ getExecutionResults(c)

Next ==
  \/ xmlrpc_runCmd \/ tryAgain
  \/ listenAndAct
  \/ Guest /\ UNCHANGED <<callVars, linkVars>>
  \/ move

Spec == Init /\ [][Next]_vars

\* The wrapper runs and the service answers.
FairSpec == Spec /\ WF_vars(xmlrpc_runCmd) /\ WF_vars(tryAgain)

-----------------------------------------------------------------------------
(* Properties *)

\* What the retries cost: every call made while the machine is registered sends
\* the command once more, and a command runs in the guest only if its call did.
RetryCost ==
  /\ {c \in Cmds : cmd[c] # "unknown"} \cup wire \subseteq cmdReqsSent
  /\ moves = 0 => cmdReqsSent = 1..tries

\* The tries come to an end, and always by Exception(5): no call returns an id,
\* though the command may have run several times by then.
TriesFail == <>(pc = "raised")
=============================================================================
