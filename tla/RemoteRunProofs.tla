--------------------------- MODULE RemoteRunProofs ---------------------------
(***************************************************************************)
(* Proofs about RemoteRun: its types, the charging of resource usage to    *)
(* commands that overlap, and the cost of the retries, for any number of   *)
(* tries, of changes of the registration and any use of CPU time.          *)
(***************************************************************************)
EXTENDS RemoteRun, TLAPS

\* The counter of the agent against what a command saw of it at its start.
ChargeInv ==
  \A c \in Cmds :
    /\ cmd[c] \in {"unknown", "running"} => used[c] = 0 /\ charged[c] = 0
    /\ cmd[c] \in {"running", "exited"} =>
         /\ children >= execResUsage[c]
         /\ alone[c] => children = execResUsage[c]
    /\ cmd[c] = "reaped" =>
         /\ children >= execResUsage[c] + used[c]
         /\ alone[c] => children = execResUsage[c] + used[c]

IInv == TypeOK /\ ChargeInv /\ UsageCharged

\* In the initial states no command is known.
LEMMA ChargeInit == Init => IInv
BY TriesAssumption
   DEF Init, ExecInit, IInv, TypeOK, ExecTypeOK, CmdStates, ChargeInv, UsageCharged

\* A step of an executer keeps the types and the charges.
LEMMA ExecuteStep ==
  ASSUME ExecTypeOK, ChargeInv, UsageCharged, NEW c \in Cmds,
         executeCommand(c) \/ executeWithoutStdin(c)
  PROVE  (ExecTypeOK /\ ChargeInv /\ UsageCharged)'
<1>1. ExecTypeOK'
  BY DEF ExecTypeOK, CmdStates, executeCommand, executeWithoutStdin
<1>2. ChargeInv' /\ UsageCharged'
  <2> SUFFICES ASSUME NEW d \in Cmds
               PROVE  /\ ChargeInv!(d)'
                      /\ cmd'[d] = "reported" =>
                           /\ charged'[d] >= used'[d]
                           /\ alone'[d] => charged'[d] = used'[d]
    BY DEF ChargeInv, UsageCharged
  <2>1. CASE executeCommand(c)
    BY <2>1 DEF executeCommand, ExecTypeOK, ChargeInv, UsageCharged, CmdStates
  <2>2. CASE executeWithoutStdin(c)
    BY <2>2 DEF executeWithoutStdin, ExecTypeOK, ChargeInv, UsageCharged, CmdStates
  <2> QED
    BY <2>1, <2>2
<1> QED
  BY <1>1, <1>2

\* So does a step of a process, or its report.
LEMMA GuestStep ==
  ASSUME ExecTypeOK, ChargeInv, UsageCharged, NEW c \in Cmds,
         exit(c) \/ reap(c) \/ getExecutionResults(c)
  PROVE  (ExecTypeOK /\ ChargeInv /\ UsageCharged)'
<1>0. MaxUse \in Nat
  BY UseAssumption
<1>1. CASE exit(c)
  <2>1. ExecTypeOK'
    BY <1>0, <1>1 DEF ExecTypeOK, CmdStates, exit
  <2>2. ChargeInv' /\ UsageCharged'
    BY <1>0, <1>1 DEF exit, ExecTypeOK, ChargeInv, UsageCharged, CmdStates
  <2> QED
    BY <2>1, <2>2
<1>2. CASE reap(c)
  <2>1. ExecTypeOK'
    BY <1>2 DEF ExecTypeOK, CmdStates, reap, Open
  <2>2. ChargeInv' /\ UsageCharged'
    <3>1. \A d \in Cmds : alone'[d] => alone[d] /\ (Open(d) => d = c)
      BY <1>2, Zenon DEF reap
    <3>2. \A d \in Cmds : d # c /\ cmd[d] \in {"running", "exited", "reaped"}
                          => ~alone'[d]
      BY <3>1 DEF Open
    <3>3. /\ cmd[c] = "exited" /\ cmd' = [cmd EXCEPT ![c] = "reaped"]
          /\ children' = children + used[c]
          /\ UNCHANGED <<execResUsage, used, charged>>
      BY <1>2 DEF reap
    <3>4. \A d \in Cmds : alone'[d] => alone[d]
      BY <3>1
    <3> QED
      BY <3>2, <3>3, <3>4 DEF ExecTypeOK, ChargeInv, UsageCharged, CmdStates
  <2> QED
    BY <2>1, <2>2
<1>3. CASE getExecutionResults(c)
  <2>0. /\ cmd[c] = "reaped"
        /\ children >= execResUsage[c] + used[c]
        /\ children \in Nat /\ execResUsage[c] \in Nat /\ used[c] \in Nat
    BY <1>3 DEF getExecutionResults, ChargeInv, ExecTypeOK
  <2>1. ExecTypeOK'
    BY <1>3, <2>0 DEF ExecTypeOK, CmdStates, getExecutionResults
  <2>2. ChargeInv' /\ UsageCharged'
    BY <1>3, <2>0 DEF getExecutionResults, ExecTypeOK, ChargeInv, UsageCharged, CmdStates
  <2> QED
    BY <2>1, <2>2
<1> QED
  BY <1>1, <1>2, <1>3

\* A step that leaves the executers alone keeps what is said of them.
LEMMA ExecUnchanged ==
  ASSUME ExecTypeOK, ChargeInv, UsageCharged, UNCHANGED execVars
  PROVE  (ExecTypeOK /\ ChargeInv /\ UsageCharged)'
BY DEF execVars, ExecTypeOK, ChargeInv, UsageCharged

\* Every step of the composition keeps IInv.
LEMMA ChargeNext == IInv /\ [Next]_vars => IInv'
<1> SUFFICES ASSUME IInv, [Next]_vars
             PROVE  IInv'
  OBVIOUS
<1> USE TriesAssumption DEF IInv
<1>1. CASE xmlrpc_runCmd
  <2>1. (ExecTypeOK /\ ChargeInv /\ UsageCharged)'
    BY <1>1, ExecUnchanged DEF xmlrpc_runCmd, TypeOK
  <2>2. /\ tries' \in Cmds /\ tries' \in 0..MaxTries
        /\ pc' = "wait" /\ vms' \in BOOLEAN /\ moves' \in 0..MaxMoves
    BY <1>1 DEF xmlrpc_runCmd, TypeOK
  <2>3. wire' \subseteq Cmds /\ cmdReqsSent' \subseteq Cmds
    BY <1>1, <2>2, Zenon DEF xmlrpc_runCmd, requestCmdExecution, TypeOK
  <2> QED
    BY <2>1, <2>2, <2>3 DEF TypeOK
<1>2. CASE tryAgain
  BY <1>2, ExecUnchanged DEF tryAgain, linkVars, TypeOK
<1>3. CASE listenAndAct
  <2>1. (ExecTypeOK /\ ChargeInv /\ UsageCharged)'
    BY <1>3, ExecuteStep DEF listenAndAct, TypeOK
  <2> QED
    BY <1>3, <2>1 DEF listenAndAct, callVars, TypeOK
<1>4. CASE Guest /\ UNCHANGED <<callVars, linkVars>>
  <2>1. (ExecTypeOK /\ ChargeInv /\ UsageCharged)'
    BY <1>4, GuestStep DEF Guest, TypeOK
  <2> QED
    BY <1>4, <2>1 DEF callVars, linkVars, TypeOK
<1>5. CASE move
  BY <1>5, ExecUnchanged DEF move, callVars, TypeOK
<1>6. CASE UNCHANGED vars
  BY <1>6, ExecUnchanged DEF vars, callVars, linkVars, TypeOK
<1> QED
  BY <1>1, <1>2, <1>3, <1>4, <1>5, <1>6 DEF Next

\* The variables of the composition keep their types; in particular, what a
\* command is charged for is never negative.
THEOREM TypeCorrect == Spec => []TypeOK
<1>1. IInv => TypeOK
  BY DEF IInv
<1> QED
  BY <1>1, ChargeInit, ChargeNext, PTL DEF Spec

\* The difference of RUSAGE_CHILDREN charges a command for at least what it has
\* used, and for no more if no other was reaped between its start and report.
THEOREM Charged == Spec => []UsageCharged
<1>1. IInv => UsageCharged
  BY DEF IInv
<1> QED
  BY <1>1, ChargeInit, ChargeNext, PTL DEF Spec

-----------------------------------------------------------------------------

\* Before the registration changes, the machine is registered.
CostInv == RetryCost /\ (moves = 0 => vms)

\* A step of a command's process is one of a command that was known.
LEMMA KnownStep ==
  ASSUME TypeOK, NEW c \in Cmds, exit(c) \/ reap(c) \/ getExecutionResults(c)
  PROVE  {d \in Cmds : cmd'[d] # "unknown"} \subseteq {d \in Cmds : cmd[d] # "unknown"}
BY DEF TypeOK, ExecTypeOK, exit, reap, getExecutionResults

\* Every step keeps CostInv.
LEMMA CostNext == TypeOK /\ CostInv /\ [Next]_vars => CostInv'
<1> SUFFICES ASSUME TypeOK, CostInv, [Next]_vars
             PROVE  CostInv'
  OBVIOUS
<1> USE TriesAssumption DEF CostInv, RetryCost
<1>1. CASE xmlrpc_runCmd
  <2>1. /\ tries \in Nat /\ tries' = tries + 1
        /\ UNCHANGED <<vms, moves, cmd>>
    BY <1>1 DEF xmlrpc_runCmd, execVars, TypeOK
  <2>2. CASE vms /\ wire' = wire \cup {tries'} /\ cmdReqsSent' = cmdReqsSent \cup {tries'}
    <3>1. {c \in Cmds : cmd'[c] # "unknown"} \cup wire' \subseteq cmdReqsSent'
      BY <2>1, <2>2
    <3>2. moves' = 0 => cmdReqsSent' = 1..tries'
      BY <2>1, <2>2
    <3> QED
      BY <2>1, <2>2, <3>1, <3>2, Zenon
  <2>3. CASE ~vms /\ UNCHANGED <<wire, cmdReqsSent>>
    BY <2>1, <2>3
  <2> QED
    BY <1>1, <2>2, <2>3, Zenon DEF xmlrpc_runCmd, requestCmdExecution
<1>2. CASE tryAgain
  BY <1>2 DEF tryAgain, linkVars, execVars
<1>3. CASE listenAndAct
  BY <1>3 DEF listenAndAct, executeCommand, executeWithoutStdin, callVars,
              TypeOK, ExecTypeOK
<1>4. CASE Guest /\ UNCHANGED <<callVars, linkVars>>
  BY <1>4, KnownStep DEF Guest, callVars, linkVars
<1>5. CASE move
  <2>1. moves' # 0
    BY <1>5 DEF move, TypeOK
  <2>2. /\ wire' \subseteq wire
        /\ UNCHANGED <<cmdReqsSent, cmd>>
    BY <1>5 DEF move, execVars
  <2> QED
    BY <2>1, <2>2
<1>6. CASE UNCHANGED vars
  BY <1>6 DEF vars, callVars, linkVars, execVars
<1> QED
  BY <1>1, <1>2, <1>3, <1>4, <1>5, <1>6 DEF Next

\* A command runs in the guest only if a call has sent it, and until the
\* registration of the machine changes every call sends one.
THEOREM Cost == Spec => []RetryCost
<1>1. Init => CostInv
  BY TriesAssumption DEF Init, ExecInit, CostInv, RetryCost
<1>2. CostInv => RetryCost
  BY DEF CostInv
<1> QED
  BY <1>1, <1>2, TypeCorrect, CostNext, PTL DEF Spec
=============================================================================
