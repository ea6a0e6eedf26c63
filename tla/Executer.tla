------------------------------- MODULE Executer -------------------------------
(***************************************************************************)
(* CommandExecuter.py, the execution of commands in the guest agent.       *)
(*                                                                         *)
(* One executer object per command starts it as a process and reports what *)
(* it used: the difference of RUSAGE_CHILDREN at the report and at the     *)
(* start.  That counter belongs to the agent and grows when the agent      *)
(* reaps any of its children, so commands that overlap see each other.     *)
(***************************************************************************)
EXTENDS Naturals

CONSTANTS
  Cmds,    \* ids of commands
  MaxUse   \* bound: CPU time of a command

ASSUME UseAssumption == MaxUse \in Nat

VARIABLES
  cmd,           \* state of each command
  execResUsage,  \* _execResUsage: the counter when the command was started
  used,          \* what a command has used in fact
  charged,       \* execResUsageNet, as reported
  children,      \* the counter RUSAGE_CHILDREN
  alone          \* history: has no other child been reaped meanwhile?

execVars == <<cmd, execResUsage, used, charged, children, alone>>

CmdStates == {"unknown", "running", "exited", "reaped", "reported"}

\* A command that has been started and not yet reported
Open(c) == cmd[c] \in {"running", "exited", "reaped"}

ExecTypeOK ==
  /\ cmd \in [Cmds -> CmdStates]
  /\ execResUsage \in [Cmds -> Nat]
  /\ used \in [Cmds -> Nat]
  /\ charged \in [Cmds -> Nat]
  /\ children \in Nat
  /\ alone \in [Cmds -> BOOLEAN]

ExecInit ==
  /\ cmd = [c \in Cmds |-> "unknown"]
  /\ execResUsage = [c \in Cmds |-> 0]
  /\ used = [c \in Cmds |-> 0]
  /\ charged = [c \in Cmds |-> 0]
  /\ children = 0
  /\ alone = [c \in Cmds |-> TRUE]

\* executeCommand: the counter is read and the process is spawned.
executeCommand(c) ==
  /\ cmd[c] = "unknown"
  /\ cmd' = [cmd EXCEPT ![c] = "running"]
  /\ execResUsage' = [execResUsage EXCEPT ![c] = children]
  /\ UNCHANGED <<used, charged, children, alone>>

\* executeCommand, if the file for stdin cannot be opened: nothing is spawned,
\* and the error handler reads the counter right after.
executeWithoutStdin(c) ==
  /\ cmd[c] = "unknown"
  /\ cmd' = [cmd EXCEPT ![c] = "reported"]
  /\ execResUsage' = [execResUsage EXCEPT ![c] = children]
  /\ UNCHANGED <<used, charged, children, alone>>

\* The process ends, by itself or by a signal.
exit(c) ==
  /\ cmd[c] = "running"
  /\ cmd' = [cmd EXCEPT ![c] = "exited"]
  /\ \E u \in 0..MaxUse : used' = [used EXCEPT ![c] = u]
  /\ UNCHANGED <<execResUsage, charged, children, alone>>

\* The agent reaps it; the kernel adds what it has used to the counter.
reap(c) ==
  /\ cmd[c] = "exited"
  /\ cmd' = [cmd EXCEPT ![c] = "reaped"]
  /\ children' = children + used[c]
  /\ alone' = [d \in Cmds |-> alone[d] /\ (Open(d) => d = c)]
  /\ UNCHANGED <<execResUsage, used, charged>>

\* Mutant: the later counter is subtracted from the earlier one.
getExecutionResults_swapped(c) ==
  /\ cmd[c] = "reaped"
  /\ cmd' = [cmd EXCEPT ![c] = "reported"]
  /\ charged' = [charged EXCEPT ![c] = execResUsage[c] - children]
  /\ UNCHANGED <<execResUsage, used, children, alone>>

\* Mutant: the usage at the start is kept in the class, for all commands.
getExecutionResults_shared(c) ==
  /\ cmd[c] = "reaped"
  /\ cmd' = [cmd EXCEPT ![c] = "reported"]
  /\ \E d \in Cmds :
       /\ \A e \in Cmds : execResUsage[e] <= execResUsage[d]
       /\ charged' = [charged EXCEPT ![c] = children - execResUsage[d]]
  /\ UNCHANGED <<execResUsage, used, children, alone>>

\* getExecutionResults or errorHandler, when the output pipes are closed too
getExecutionResults(c) ==
  /\ cmd[c] = "reaped"
  /\ cmd' = [cmd EXCEPT ![c] = "reported"]
  /\ charged' = [charged EXCEPT ![c] = children - execResUsage[c]]
  /\ UNCHANGED <<execResUsage, used, children, alone>>

\* A command that is reported is charged for at least what it has used, and for
\* no more if no other command was reaped between its start and its report.
UsageCharged ==
  \A c \in Cmds : cmd[c] = "reported" =>
    /\ charged[c] >= used[c]
    /\ alone[c] => charged[c] = used[c]
=============================================================================
