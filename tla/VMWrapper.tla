------------------------------- MODULE VMWrapper -------------------------------
(***************************************************************************)
(* VMWrapper.py, the program the BOINC client runs in place of a workunit. *)
(*                                                                         *)
(* It executes the tasks of a job file in their order, each on the host or *)
(* by a command in a virtual machine, through the XML-RPC service of the   *)
(* host agent (VMmanage), which it starts and stops itself.  After each    *)
(* task it writes how many are done to a checkpoint file, from which a     *)
(* later run goes on.  Between two polls of the task it obeys the client's *)
(* requests to suspend, resume and quit.                                   *)
(*                                                                         *)
(* An exception ends the try block of the main program.  Its finally       *)
(* clause calls boinc_finish with the exit status: the first argument of   *)
(* the exception if that is an integer, else 0.  A Fault of the XML-RPC    *)
(* service has no arguments at all: reading the first one raises, and      *)
(* finally runs with status 0.  A socket.error, OSError or IOError has its *)
(* errno there.                                                            *)
(*                                                                         *)
(* A call of VMmanage may raise at any time, or never return: ServerProxy  *)
(* has no timeout.  The loops that wait up to MAX_WAIT_TIME give up at the *)
(* MaxTries-th failure.                                                    *)
(***************************************************************************)
EXTENDS Integers

CONSTANTS
  NTasks,      \* number of tasks in the job file
  NoVM,        \* the virtual machine of a task that runs on the host
  VMs,         \* virtual machines
  TaskVM,      \* virtual machine of each task
  NManage,     \* number of VMmanage tasks in the job file
  HasUnzip,    \* are there unzip tasks?
  CopyFrom,    \* are there files to copy from the virtual machines?
  MaxTries,    \* bound: tries within MAX_WAIT_TIME
  MaxCrashes   \* bound: times the wrapper, or its computer, goes down

Tasks == 0..(NTasks - 1)
Managers == 1..NManage

ASSUME JobAssumption ==
  /\ NTasks \in Nat /\ NManage \in Nat
  /\ NoVM \notin VMs
  /\ TaskVM \in [Tasks -> VMs \cup {NoVM}]
  /\ HasUnzip \in BOOLEAN /\ CopyFrom \in BOOLEAN

ASSUME BoundAssumption == MaxTries \in Nat /\ MaxCrashes \in Nat

VARIABLES
  \* the wrapper process
  pc,              \* what it does next
  i,               \* index of the task it is at
  isVM,            \* does a task from i on use a virtual machine?
  vmManageRunning, \* VMmanageRunning; "unset" before it is assigned
  started,         \* number of VMmanage tasks it has started
  tries,           \* failures in the waiting loop it is in
  suspended,       \* tasks[i].suspended
  cpu,             \* checkpoint_cpu_time
  ntasks,          \* first argument of the write_checkpoint it is in
  exitStatus,
  \* its surroundings
  file,            \* the checkpoint file
  children,        \* VMmanage tasks that it has started and that run
  vmState,         \* state of each virtual machine
  app,             \* the application of tasks[i], on the host or in the VM;
                   \* "unanswered": it has ended and will not be reported
  stopped,         \* application on the host: has it got SIGSTOP?
  reaped,          \* os.times()[2]: CPU time of finished applications
  \* the BOINC client
  suspendReq, quitReq,
  \* bounds and history
  crashes,
  done,            \* tasks that have ended well, with their outputs in place
  cause,           \* why the try block was left
  torn             \* has a crash, or a failure to write, left an empty
                   \* checkpoint file?

place == <<i, isVM, vmManageRunning, started>>
ckptVars == <<cpu, ntasks, file>>
worldVars == <<children, vmState>>
taskVars == <<suspended, app, stopped, reaped>>
clientVars == <<suspendReq, quitReq>>
past == <<crashes, done, torn>>
vars == <<pc, exitStatus, cause, tries, place, ckptVars, worldVars, taskVars,
          clientVars, past>>

WaitSteps == {"poll", "messages", "checkpoint", "status"}
Final == {"finished", "aborted"}
Steps == WaitSteps \cup Final \cup
  {"start", "unzip", "startManage", "waitManage", "task", "boot", "connect",
   "copy", "runCmd", "reconnect", "copyBack", "saveState", "record",
   "truncate", "write", "finally", "hung"}
VMStates == {"absent", "off", "saved", "running", "paused"}

\* Any number of an operating system error: all that counts is that it is not 0.
Errno == 111

NoFile == [kind |-> "absent", n |-> 0, cpu |-> 0]
EmptyFile == [kind |-> "empty", n |-> 0, cpu |-> 0]
Checkpoint(n, c) == [kind |-> "data", n |-> n, cpu |-> c]

TypeOK ==
  /\ pc \in Steps
  /\ i \in 0..NTasks
  /\ isVM \in BOOLEAN
  /\ vmManageRunning \in {"unset", "no", "yes"}
  /\ started \in 0..NManage
  /\ tries \in 0..MaxTries
  /\ suspended \in BOOLEAN
  /\ cpu \in Nat
  /\ ntasks \in 0..NTasks
  /\ exitStatus \in {0, 1, 3, 4, 5, 195, Errno}
  /\ file \in [kind : {"absent", "empty", "data"}, n : 0..NTasks, cpu : Nat]
  /\ children \subseteq Managers
  /\ vmState \in [VMs -> VMStates]
  /\ app \in {"none", "running", "ok", "bad", "unanswered"}
  /\ stopped \in BOOLEAN
  /\ reaped \in Nat
  /\ suspendReq \in BOOLEAN /\ quitReq \in BOOLEAN
  /\ done \subseteq Tasks
  /\ cause \in {"none", "quit", "error"}
  /\ torn \in BOOLEAN
  /\ crashes \in 0..MaxCrashes

Init ==
  /\ pc = "start" /\ i = 0 /\ isVM = FALSE /\ vmManageRunning = "unset"
  /\ started = 0 /\ tries = 0 /\ suspended = FALSE
  /\ cpu = 0 /\ ntasks = 0 /\ exitStatus = 0
  /\ file = NoFile /\ children = {}
  /\ vmState \in [VMs -> {"absent", "off", "saved"}]
  /\ app = "none" /\ stopped = FALSE /\ reaped = 0
  /\ suspendReq = FALSE /\ quitReq = FALSE
  /\ done = {} /\ cause = "none" /\ torn = FALSE
  /\ crashes = 0

\* Index i is that of a task in a virtual machine.
OnVM == TaskVM[i] # NoVM

\* The try block is left by an exception.
Raise(status) ==
  /\ pc' = "finally"
  /\ exitStatus' = status
  /\ cause' = "error"

\* An exception that was not raised to carry an exit status: a Fault, or one
\* with a text, gives 0; a socket.error (the service does not answer), OSError
\* or IOError gives its errno.
RaiseOther == \E s \in {0, Errno} : Raise(s)

Goto(step) == pc' = step /\ UNCHANGED <<exitStatus, cause>>

\* Mutant: one more try than there is time for.
Retry_late ==
  \/ /\ tries <= MaxTries
     /\ tries' = tries + 1
     /\ UNCHANGED <<pc, exitStatus, cause>>
  \/ /\ tries > MaxTries
     /\ tries' = 0
     /\ Raise(5)

\* A try in a waiting loop failed: go on waiting, or give up with code 5.
Retry ==
  \/ /\ tries < MaxTries
     /\ tries' = tries + 1
     /\ UNCHANGED <<pc, exitStatus, cause>>
  \/ /\ tries = MaxTries
     /\ tries' = 0
     /\ Raise(5)

-----------------------------------------------------------------------------
(* The checkpoint file *)

\* read_checkpoint: a missing or unreadable file counts as no task done.
read_checkpoint == IF file.kind = "data" THEN file ELSE NoFile

\* write_checkpoint opens the file, which empties it, ...
truncate ==
  /\ pc = "truncate"
  /\ \/ file' = EmptyFile /\ Goto("write")
     \/ UNCHANGED file /\ Raise(0)    \* IOError: then f is not bound
  /\ UNCHANGED <<tries, place, cpu, ntasks, worldVars, taskVars, clientVars,
                 past>>

\* Mutant: the task that is next counts as completed.
write_next ==
  /\ pc = "write"
  /\ file' = Checkpoint(ntasks + 1, cpu)
  /\ \/ ntasks = i /\ Goto("status") /\ UNCHANGED i
     \/ ntasks # i /\ Goto("task") /\ i' = i + 1
  /\ UNCHANGED <<tries, isVM, vmManageRunning, started, cpu, ntasks, worldVars,
                 taskVars, clientVars, past>>

\* Mutant: a failure to write is ignored, as one to open is meant to be.
write_ignored ==
  /\ pc = "write"
  /\ file' \in {Checkpoint(ntasks, cpu), EmptyFile}
  /\ \/ ntasks = i /\ Goto("status") /\ UNCHANGED i
     \/ ntasks # i /\ Goto("task") /\ i' = i + 1
  /\ UNCHANGED <<tries, isVM, vmManageRunning, started, cpu, ntasks, worldVars,
                 taskVars, clientVars, past>>

\* ... and writes it.  It was called with i in the waiting loop and with
\* i + 1 after the task.  f.write or f.close may raise, when the disk is full:
\* then the file stays empty.
write ==
  /\ pc = "write"
  /\ \/ /\ file' = Checkpoint(ntasks, cpu)
        /\ \/ ntasks = i /\ Goto("status") /\ UNCHANGED i
           \/ ntasks # i /\ Goto("task") /\ i' = i + 1
        /\ UNCHANGED torn
     \/ /\ Raise(Errno)
        /\ torn' = TRUE
        /\ UNCHANGED <<file, i>>
  /\ UNCHANGED <<tries, isVM, vmManageRunning, started, cpu, ntasks, worldVars,
                 taskVars, clientVars, crashes, done>>

-----------------------------------------------------------------------------
(* Before the first task *)

\* Mutant: a job counts as computed when its last task is still to do.
start_early ==
  /\ pc = "start"
  /\ i' = read_checkpoint.n
  /\ cpu' = read_checkpoint.cpu
  /\ isVM' = \E t \in Tasks : t >= read_checkpoint.n /\ TaskVM[t] # NoVM
  /\ pc' = IF read_checkpoint.n + 1 >= NTasks THEN "finished" ELSE "unzip"
  /\ UNCHANGED <<exitStatus, cause, tries, vmManageRunning, started, ntasks,
                 file, worldVars, taskVars, clientVars, past>>

\* The checkpoint is read; a job that is computed already ends at once.
start ==
  /\ pc = "start"
  /\ i' = read_checkpoint.n
  /\ cpu' = read_checkpoint.cpu
  /\ isVM' = \E t \in Tasks : t >= read_checkpoint.n /\ TaskVM[t] # NoVM
  /\ pc' = IF read_checkpoint.n >= NTasks THEN "finished" ELSE "unzip"
  /\ exitStatus' = IF read_checkpoint.n > NTasks THEN 1 ELSE 0
  /\ UNCHANGED <<cause, tries, vmManageRunning, started, ntasks, file,
                 worldVars, taskVars, clientVars, past>>

\* The unzip tasks.  One that cannot be started, or takes too long (kill lacks
\* its argument), ends the program by an exception outside the try block.
unzip ==
  /\ pc = "unzip"
  /\ \/ Goto("startManage")
     \/ HasUnzip /\ Goto("aborted")
  /\ UNCHANGED <<tries, place, ckptVars, worldVars, taskVars, clientVars, past>>

\* The VMmanage tasks are started one after the other.  One that cannot be
\* started raises, as run below does.
startManage ==
  /\ pc = "startManage"
  /\ \/ /\ isVM /\ started < NManage
        /\ \/ /\ started' = started + 1
              /\ children' = children \cup {started + 1}
              /\ Goto("startManage")
           \/ /\ RaiseOther
              /\ UNCHANGED <<started, children>>
        /\ UNCHANGED vmManageRunning
     \/ /\ isVM /\ started = NManage
        /\ vmManageRunning' = "no"
        /\ Goto("waitManage")
        /\ UNCHANGED <<started, children>>
     \/ /\ ~isVM
        /\ Goto("task")
        /\ UNCHANGED <<vmManageRunning, started, children>>
  /\ UNCHANGED <<tries, i, isVM, ckptVars, vmState, taskVars, clientVars, past>>

\* Wait until all VMmanage tasks run and the XML-RPC service answers.
waitManage ==
  /\ pc = "waitManage"
  /\ \/ /\ children # Managers
        /\ Raise(5)
        /\ UNCHANGED <<tries, vmManageRunning>>
     \/ /\ children = Managers
        /\ \/ Retry /\ UNCHANGED vmManageRunning
           \/ /\ vmManageRunning' = "yes"
              /\ tries' = 0
              /\ Goto("task")
  /\ UNCHANGED <<i, isVM, started, ckptVars, worldVars, taskVars, clientVars,
                 past>>

-----------------------------------------------------------------------------
(* A task is started *)

\* run: the application is started on the host.  A logical file name may not
\* resolve (status 0), a file or the application may not exist (errno).
run ==
  \/ app' = "running" /\ Goto("poll")
  \/ app' = "none" /\ RaiseOther

\* The loop over the tasks ends, or goes on with tasks[i].run on the host or
\* tasks[i].runVM.
nextTask ==
  /\ pc = "task"
  /\ \/ i = NTasks /\ Goto("finally") /\ UNCHANGED taskVars
     \/ /\ i < NTasks
        /\ suspended' = FALSE /\ stopped' = FALSE
        /\ \/ ~OnVM /\ run
           \/ OnVM /\ app' = "none" /\ Goto("boot")
        /\ UNCHANGED reaped
  /\ UNCHANGED <<tries, place, ckptVars, worldVars, clientVars, past>>

VMBecomes(state) == vmState' = [vmState EXCEPT ![TaskVM[i]] = state]

\* runVM: the machine is created if it does not exist.  If its state was not
\* saved, its latest snapshot is restored, which may fail.  It is started
\* unless it runs; a machine that is paused cannot be started.
boot ==
  /\ pc = "boot"
  /\ \/ /\ vmState[TaskVM[i]] = "absent"
        /\ \/ VMBecomes("off") /\ Goto("boot")
           \/ UNCHANGED vmState /\ Raise(3)
     \/ vmState[TaskVM[i]] = "running" /\ UNCHANGED vmState /\ Goto("connect")
     \/ /\ vmState[TaskVM[i]] \in {"off", "saved"}
        /\ \/ VMBecomes("running") /\ Goto("connect")
           \/ UNCHANGED vmState /\ \E s \in {3, 5} : Raise(s)
     \/ vmState[TaskVM[i]] = "paused" /\ UNCHANGED vmState /\ Raise(3)
     \/ UNCHANGED vmState /\ RaiseOther
  /\ UNCHANGED <<tries, place, ckptVars, children, taskVars, clientVars, past>>

\* Wait until the guest answers a ping; then step is next.
PingUntil(step) ==
  \/ vmState[TaskVM[i]] = "running" /\ tries' = 0 /\ Goto(step)
  \/ Retry

connect ==
  /\ pc = "connect"
  /\ PingUntil("copy")
  /\ UNCHANGED <<place, ckptVars, worldVars, taskVars, clientVars, past>>

\* Copying files ends with a status or raises.
CopyThen(step) == Goto(step) \/ Raise(4) \/ RaiseOther

copy ==
  /\ pc = "copy"
  /\ CopyThen("runCmd")
  /\ UNCHANGED <<tries, place, ckptVars, worldVars, taskVars, clientVars, past>>

\* Mutant: the command is tried for ever.
runCmd_forever ==
  /\ pc = "runCmd"
  /\ \/ app' = "running" /\ tries' = 0 /\ Goto("poll")
     \/ UNCHANGED app /\ tries' = 1 - tries /\ Goto("runCmd")
  /\ UNCHANGED <<place, ckptVars, worldVars, suspended, stopped, reaped,
                 clientVars, past>>

\* runCmd is called until it returns the command's id.
runCmd ==
  /\ pc = "runCmd"
  /\ \/ app' = "running" /\ tries' = 0 /\ Goto("poll")
     \/ UNCHANGED app /\ Retry
  /\ UNCHANGED <<place, ckptVars, worldVars, suspended, stopped, reaped,
                 clientVars, past>>

-----------------------------------------------------------------------------
(* Waiting for the task *)

\* tasks[i].poll and what follows from it.  Every application uses one unit of
\* CPU time.  Reading CmdResults of an application on the host raises a
\* TypeError.  An application in a machine is polled until it is reported.
poll ==
  /\ pc = "poll"
  /\ \/ app \in {"running", "unanswered"} /\ Goto("messages")
     \/ app = "ok" /\ OnVM /\ Goto(IF CopyFrom THEN "reconnect" ELSE "saveState")
     \/ app = "ok" /\ ~OnVM /\ Goto("record")
     \/ app = "bad" /\ OnVM /\ Raise(195)
     \/ app = "bad" /\ ~OnVM /\ Raise(0)
     \/ OnVM /\ RaiseOther    \* the call raises, or writing the outputs does
  /\ reaped' = IF ~OnVM /\ app # "running" THEN reaped + 1 ELSE reaped
  /\ UNCHANGED <<tries, place, ckptVars, worldVars, suspended, app, stopped,
                 clientVars, past>>

\* poll_boinc_messages, on a request to quit, a request to abort or a missing
\* heartbeat: kill, then Exception(0).  The machine's state is saved unless
\* that raises; stop or resume of a saved machine raises as well.  The status
\* is 0, or the errno of a service that does not answer.
quit ==
  /\ pc = "messages"
  /\ quitReq
  /\ \/ OnVM /\ (VMBecomes("saved") \/ UNCHANGED vmState) /\ UNCHANGED app
     \/ ~OnVM /\ app' = "none" /\ UNCHANGED vmState
  /\ pc' = "finally" /\ cause' = "quit"
  /\ exitStatus' = 0 \/ (OnVM /\ exitStatus' = Errno)
  /\ UNCHANGED <<tries, place, ckptVars, children, suspended, stopped, reaped,
                 clientVars, past>>

\* Mutant: the flag is set when the task is stopped, never reset.
suspendOrResume_keep ==
  /\ pc = "messages"
  /\ ~quitReq
  /\ \/ suspendReq = suspended
        /\ Goto("checkpoint") /\ UNCHANGED <<vmState, suspended, stopped>>
     \/ /\ suspendReq # suspended
        /\ suspended' = (suspended \/ suspendReq)
        /\ IF OnVM
           THEN VMBecomes(IF suspendReq THEN "paused" ELSE "running")
                  /\ UNCHANGED stopped
           ELSE stopped' = suspendReq /\ UNCHANGED vmState
        /\ Goto("checkpoint")
  /\ UNCHANGED <<tries, place, ckptVars, children, app, reaped, clientVars,
                 past>>

\* Mutant: a task is stopped, never resumed.
suspendOrResume_stopOnly ==
  /\ pc = "messages"
  /\ ~quitReq
  /\ suspended' = (suspended \/ suspendReq)
  /\ IF OnVM /\ suspendReq THEN VMBecomes("paused") ELSE UNCHANGED vmState
  /\ stopped' = (stopped \/ (~OnVM /\ suspendReq))
  /\ Goto("checkpoint")
  /\ UNCHANGED <<tries, place, ckptVars, children, app, reaped, clientVars,
                 past>>

\* poll_boinc_messages otherwise: stop or resume the task.  The flag is set
\* first; the call for a virtual machine may raise.
suspendOrResume ==
  /\ pc = "messages"
  /\ ~quitReq
  /\ suspended' = suspendReq
  /\ \/ /\ suspendReq = suspended
        /\ Goto("checkpoint")
        /\ UNCHANGED <<vmState, stopped>>
     \/ /\ suspendReq # suspended /\ OnVM
        /\ \/ /\ VMBecomes(IF suspendReq THEN "paused" ELSE "running")
              /\ Goto("checkpoint")
           \/ UNCHANGED vmState /\ RaiseOther
        /\ UNCHANGED stopped
     \/ /\ suspendReq # suspended /\ ~OnVM
        /\ stopped' = suspendReq
        /\ Goto("checkpoint")
        /\ UNCHANGED vmState
  /\ UNCHANGED <<tries, place, ckptVars, children, app, reaped, clientVars,
                 past>>

\* cpu_time of tasks[i] while it runs: of a machine, some time (none if it is
\* suspended); on the host, that of the applications that have ended.
cpu_time ==
  IF OnVM THEN IF suspended THEN {0} ELSE {0, 1} ELSE {reaped}

\* The waiting loop asks has_checkpointed of the variable task, which still
\* holds the last element of the latest loop over tasks: a VMmanage task, an
\* unzip task, or the last task of the job.
StaleTaskVM ==
  IF (isVM /\ NManage > 0) \/ HasUnzip THEN NoVM ELSE TaskVM[NTasks - 1]

\* has_checkpointed and, once CHECKPOINT_PERIOD is over, write_checkpoint.
\* saveSnapshot and cpu_time may raise.
checkpoint ==
  /\ pc = "checkpoint"
  /\ \/ Goto("status") /\ UNCHANGED <<cpu, ntasks>>
     \/ /\ StaleTaskVM # NoVM
        /\ vmState[StaleTaskVM] # "absent"
        /\ \/ cpu' \in cpu_time /\ ntasks' = i /\ Goto("truncate")
           \/ OnVM /\ UNCHANGED <<cpu, ntasks>> /\ RaiseOther
     \/ /\ StaleTaskVM # NoVM
        /\ UNCHANGED <<cpu, ntasks>>
        /\ RaiseOther
  /\ UNCHANGED <<tries, place, file, worldVars, taskVars, clientVars, crashes,
                 done, torn>>

\* send_status_message: cpu_time of a machine runs a command in the guest and
\* raises if there are no results after 10 seconds.
send_status_message ==
  /\ pc = "status"
  /\ \/ Goto("poll")
     \/ OnVM /\ ~suspended /\ RaiseOther
  /\ UNCHANGED <<tries, place, ckptVars, worldVars, taskVars, clientVars, past>>

-----------------------------------------------------------------------------
(* The task has ended well *)

reconnect ==
  /\ pc = "reconnect"
  /\ PingUntil("copyBack")
  /\ UNCHANGED <<place, ckptVars, worldVars, taskVars, clientVars, past>>

copyBack ==
  /\ pc = "copyBack"
  /\ CopyThen("saveState")
  /\ UNCHANGED <<tries, place, ckptVars, worldVars, taskVars, clientVars, past>>

saveState ==
  /\ pc = "saveState"
  /\ \/ VMBecomes("saved") /\ Goto("record")
     \/ UNCHANGED vmState /\ RaiseOther
  /\ UNCHANGED <<tries, place, ckptVars, children, taskVars, clientVars, past>>

\* write_checkpoint(i + 1, starting_cpu + final_cpu_time) is called.  Nothing
\* ever assigns starting_cpu, which is 0 (starting_time is assigned instead).
record ==
  /\ pc = "record"
  /\ done' = done \cup {i}
  /\ cpu' = IF OnVM THEN 1 ELSE reaped
  /\ ntasks' = i + 1
  /\ Goto("truncate")
  /\ UNCHANGED <<tries, place, file, worldVars, taskVars, clientVars, crashes,
                 torn>>

-----------------------------------------------------------------------------
(* The end *)

RunningVMs == {v \in VMs : vmState[v] = "running" /\ \E t \in Tasks : TaskVM[t] = v}

\* The finally clause: the state of running machines is saved, failures are
\* ignored, the VMmanage tasks are killed, and boinc_finish ends the process.
\* If VMmanageRunning is not yet assigned, reading it raises.
finally ==
  /\ pc = "finally"
  /\ \/ /\ isVM /\ vmManageRunning = "unset"
        /\ pc' = "aborted"
        /\ UNCHANGED worldVars
     \/ /\ ~(isVM /\ vmManageRunning = "unset")
        /\ \E saved \in SUBSET (IF vmManageRunning = "yes" THEN RunningVMs ELSE {}) :
             vmState' = [v \in VMs |-> IF v \in saved THEN "saved" ELSE vmState[v]]
        /\ children' = {}
        /\ pc' = "finished"
  /\ UNCHANGED <<exitStatus, cause, tries, place, ckptVars, taskVars,
                 clientVars, past>>

-----------------------------------------------------------------------------
(* Surroundings *)

\* The application ends, on the host or in the guest, unless it is stopped.
\* listFinishedCmds reports the end of a command in a guest when its results
\* arrive: never, if a signal ended it or its CMD_RESULT is lost (CmdProtocol).
appEnds ==
  /\ app = "running"
  /\ \/ ~OnVM /\ ~stopped /\ app' \in {"ok", "bad"}
     \/ /\ OnVM /\ vmState[TaskVM[i]] = "running"
        /\ app' \in {"ok", "bad", "unanswered"}
  /\ UNCHANGED <<pc, exitStatus, cause, tries, place, ckptVars, worldVars,
                 suspended, stopped, reaped, clientVars, past>>

\* The wrapper is at a step in which it calls the XML-RPC service.
Calling ==
  \/ pc \in {"boot", "connect", "copy", "runCmd", "reconnect", "copyBack",
             "saveState"}
  \/ pc = "waitManage" /\ children = Managers
  \/ pc = "poll" /\ OnVM
  \/ pc = "messages" /\ OnVM /\ (quitReq \/ suspendReq # suspended)
  \/ pc = "checkpoint" /\ StaleTaskVM # NoVM
  \/ pc = "status" /\ OnVM /\ ~suspended
  \/ pc = "finally" /\ isVM /\ vmManageRunning = "yes"

\* A call never returns: VMmanage does not answer, or VirtualBox does not.
\* The client's requests are not looked at any more.
hang ==
  /\ Calling
  /\ Goto("hung")
  /\ UNCHANGED <<tries, place, ckptVars, worldVars, taskVars, clientVars, past>>

\* A VMmanage task ends by itself.
manageEnds ==
  /\ \E m \in children : children' = children \ {m}
  /\ UNCHANGED <<pc, exitStatus, cause, tries, place, ckptVars, vmState,
                 taskVars, clientVars, past>>

\* The BOINC client changes what boinc_get_status returns.
client ==
  /\ pc \notin Final
  /\ \/ suspendReq' = ~suspendReq /\ UNCHANGED quitReq
     \/ quitReq' = TRUE /\ UNCHANGED suspendReq
  /\ UNCHANGED <<pc, exitStatus, cause, tries, place, ckptVars, worldVars,
                 taskVars, past>>

\* The wrapper is killed, or its computer goes down and takes the machines
\* with it.  The client starts the wrapper again.
crash ==
  /\ crashes < MaxCrashes
  /\ crashes' = crashes + 1
  /\ pc \notin Final
  /\ pc' = "start" /\ exitStatus' = 0 /\ cause' = "none" /\ tries' = 0
  /\ i' = 0 /\ isVM' = FALSE /\ vmManageRunning' = "unset" /\ started' = 0
  /\ cpu' = 0 /\ ntasks' = 0 /\ UNCHANGED file
  /\ \/ UNCHANGED vmState
     \/ vmState' = [v \in VMs |-> IF vmState[v] \in {"running", "paused"}
                                  THEN "off" ELSE vmState[v]]
  /\ children' = {}
  /\ suspended' = FALSE /\ app' = "none" /\ stopped' = FALSE /\ reaped' = 0
  /\ suspendReq' = FALSE /\ quitReq' = FALSE
  /\ torn' = (torn \/ file.kind = "empty")
  /\ UNCHANGED done

-----------------------------------------------------------------------------
Step ==
  \/ start \/ unzip \/ startManage \/ waitManage
  \/ nextTask \/ boot \/ connect \/ copy \/ runCmd
  \/ poll \/ quit \/ suspendOrResume \/ checkpoint \/ send_status_message
  \/ reconnect \/ copyBack \/ saveState \/ record
  \/ truncate \/ write
  \/ finally

\* The process is gone.
Terminated == pc \in Final /\ UNCHANGED vars

Next ==
  \/ Step \/ hang \/ appEnds \/ manageEnds \/ client \/ crash \/ Terminated

Spec == Init /\ [][Next]_vars

\* The wrapper runs, unless a call hangs, and applications that are not stopped
\* end.  Nothing is assumed of when, or whether, a call hangs.
FairSpec == Spec /\ WF_vars(Step) /\ WF_vars(appEnds)

-----------------------------------------------------------------------------
(* Properties *)

\* Whatever crashes, exceptions and requests came before, a task that the
\* checkpoint file counts as completed has ended well and its outputs are in
\* place: no run that starts from the file skips a task.
CheckpointSound == \A t \in Tasks : t < read_checkpoint.n => t \in done

\* The steps at which i is the index of a task
TaskSteps == WaitSteps \cup
  {"boot", "connect", "copy", "runCmd", "reconnect", "copyBack", "saveState",
   "record", "truncate", "write"}

\* The invariant behind CheckpointSound: while the wrapper runs, the tasks
\* before the current one are done, and so are those it is about to record.
ProgressInv ==
  /\ CheckpointSound
  /\ \A t \in Tasks : t < i => t \in done
  /\ pc \in TaskSteps => i < NTasks
  /\ pc \in {"truncate", "write"} => /\ ntasks \in {i, i + 1}
                                     /\ ntasks = i + 1 => i \in done

\* At most one completed task has to be done again after a crash or a failed
\* run, unless write_checkpoint was cut short after it had emptied the file, by
\* a crash or because f.write or f.close raised.
LostWorkBounded ==
  ~torn /\ pc # "write" => \A t \in done : t <= read_checkpoint.n

\* The invariant behind LostWorkBounded: until a checkpoint is torn, the file
\* and the loop over the tasks are at the same task, except within a write.
LostWorkInv ==
  ~torn =>
    /\ LostWorkBounded
    /\ file.kind = "empty" <=> pc = "write"
    /\ pc \in TaskSteps \cup {"unzip", "startManage", "waitManage", "task"} =>
         /\ \A t \in done : t <= i
         /\ pc # "write" => i = read_checkpoint.n

\* The number of tasks the checkpoint file counts; while it is rewritten, the
\* number that it counted before
Recorded == IF pc = "write" THEN i ELSE read_checkpoint.n

Outcome ==
  IF pc \notin Final THEN "none"
  ELSE IF pc = "finished" /\ cause = "none" THEN "computed" ELSE "broken"

JobOf == INSTANCE Job WITH recorded <- Recorded, outcome <- Outcome

\* The wrapper implements a job: over crashes, failures and requests of the
\* client, tasks are done in their order, each is recorded after it is done and
\* before the next is begun, and a run without an exception ends with all
\* tasks recorded.  What a crash or a failed write can cost is the record as a
\* whole.
ImplementsJob == JobOf!Spec

\* boinc_finish(0) without an exception says that the job is computed.
NormalFinish ==
  pc = "finished" /\ cause = "none" => exitStatus = 0 /\ done = Tasks

\* The invariant behind NormalFinish: without an exception the finally clause
\* is reached only behind the last task.
FinishInv ==
  cause = "none" =>
    /\ exitStatus = 0
    /\ pc = "finally" => i = NTasks
    /\ pc = "finished" => done = Tasks

\* While the wrapper polls, the flag suspended tells whether the application
\* is stopped: a resume is never left out and a task never stopped twice.
SuspendTracks ==
  pc \in WaitSteps =>
    suspended = IF OnVM THEN vmState[TaskVM[i]] = "paused" ELSE stopped

\* A request to quit ends the wrapper, whatever raises in the meantime and
\* though a command may never be answered, unless a call never returns.
QuitObeyed == quitReq ~> (pc \in Final \cup {"hung"} \/ ~quitReq)

\* A job that is not suspended for good comes to an end, unless a call never
\* returns or the end of a command in a machine is never reported.
JobEnds ==
  <>[]~suspendReq =>
    <>(pc \in Final \cup {"hung"} \/ app = "unanswered")

\* boinc_finish(0) says that the application has completed.
FinishMeansCompleted == pc = "finished" /\ exitStatus = 0 => done = Tasks
=============================================================================
