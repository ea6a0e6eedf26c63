----------------------------- MODULE VBoxController -----------------------------
(***************************************************************************)
(* controllers/VirtualBox.py, the operations of the host agent on virtual  *)
(* machines.  Each call runs in a worker thread of its own (deferToThread),*)
(* so the steps of calls interleave; nothing but VirtualBox itself keeps   *)
(* them apart.                                                             *)
(*                                                                         *)
(* VirtualBox lets one session at a time change a machine: that of a       *)
(* thread (openSession), or that of the process in which the machine runs. *)
(* Others can share it (openExistingSession).  A machine that runs, or is  *)
(* in a session, cannot be unregistered.                                   *)
(*                                                                         *)
(* Every call of VirtualBox may raise, but for close(), session.state in   *)
(* the rollback of createVM, and unregisterMachine of a machine that       *)
(* nobody uses.                                                            *)
(***************************************************************************)
EXTENDS Naturals

CONSTANTS
  Threads,  \* worker threads
  VMs       \* names of machines

ASSUME VMsAssumption == VMs # {}

VARIABLES
  \* VirtualBox
  reg,      \* of each name: "none", "file" (of settings), "registered"
  disk,     \* does the machine have its network cards and its disk?
  state,    \* of the machine
  media,    \* names whose disk image openHardDisk has registered
  abandoned,\* sessions, as <<machine, kind>>, left open by a call that is over
  \* worker threads
  pc, op, vm,
  session,  \* "none", "shared" or "direct"
  result,   \* of the latest call
  \* history, of the latest call if it is of createVM
  own,      \* what it has left of its new machine: as reg
  failed,   \* the step at which it ended, if that left the machine registered
  met       \* has another call had a session of the machine it registered?

hypervisor == <<reg, disk, state, media, abandoned>>
history == <<own, failed, met>>
threads == <<pc, op, vm, session, result, history>>
vars == <<hypervisor, threads>>

Ops == {"start", "powerOff", "pause", "unpause", "saveState", "saveSnapshot",
        "restoreSnapshot", "createVM"}
States == {"off", "saved", "starting", "running", "paused", "saving"}
Alive == {"starting", "running", "paused", "saving"}
CreateSteps == {"check", "createMachine", "saveSettings", "registerMachine",
                "getSessionObject", "openSession", "attach", "close",
                "closeInRollback", "unregisterMachine", "deleteSettings"}

TypeOK ==
  /\ reg \in [VMs -> {"none", "file", "registered"}]
  /\ disk \in [VMs -> BOOLEAN]
  /\ state \in [VMs -> States]
  /\ media \subseteq VMs
  /\ abandoned \subseteq VMs \X {"shared", "direct"}
  /\ pc \in [Threads -> {"idle", "find", "openRemote", "wait", "getSession",
                         "console", "act"} \cup CreateSteps]
  /\ op \in [Threads -> Ops]
  /\ vm \in [Threads -> VMs]
  /\ session \in [Threads -> {"none", "shared", "direct"}]
  /\ result \in [Threads -> {"none", "ok", "raised"}]
  /\ own \in [Threads -> {"none", "file", "registered"}]
  /\ failed \in [Threads -> CreateSteps \cup {"none"}]
  /\ met \in [Threads -> BOOLEAN]

Init ==
  /\ reg \in [VMs -> {"none", "registered"}]
  /\ disk = [v \in VMs |-> reg[v] = "registered"]
  /\ state = [v \in VMs |-> "off"]
  /\ media = {v \in VMs : reg[v] = "registered"}
  /\ abandoned = {}
  /\ pc = [t \in Threads |-> "idle"]
  /\ op = [t \in Threads |-> "start"]
  /\ vm = [t \in Threads |-> CHOOSE v \in VMs : TRUE]
  /\ session = [t \in Threads |-> "none"]
  /\ result = [t \in Threads |-> "none"]
  /\ own = [t \in Threads |-> "none"] /\ failed = [t \in Threads |-> "none"]
  /\ met = [t \in Threads |-> FALSE]

-----------------------------------------------------------------------------
(* VirtualBox *)

InSession(v) ==
  \/ \E t \in Threads : session[t] = "direct" /\ vm[t] = v
  \/ <<v, "direct">> \in abandoned
Locked(v) == state[v] \in Alive \/ InSession(v)

\* Other calls of createVM that have registered v meet the session of t.
Meet(t, v) ==
  met' = [u \in Threads |-> met[u] \/ (u # t /\ vm[u] = v /\ own[u] = "registered")]

Goto(t, step) == pc' = [pc EXCEPT ![t] = step] /\ UNCHANGED <<op, vm, result>>

\* The call ends, with its session closed.
End(t, r) ==
  /\ pc' = [pc EXCEPT ![t] = "idle"]
  /\ result' = [result EXCEPT ![t] = r]
  /\ session' = [session EXCEPT ![t] = "none"]
  /\ UNCHANGED <<op, vm>>

\* The call ends by an exception, and nothing closes its session.
Abandon(t) ==
  /\ abandoned' = abandoned \cup {<<vm[t], session[t]>>}
  /\ End(t, "raised")

\* Python frees the frame of such a call, and with it the session.  When, or
\* whether, that happens depends on who keeps the exception.
collect ==
  /\ \E s \in abandoned : abandoned' = abandoned \ {s}
  /\ UNCHANGED <<reg, disk, state, media, threads>>

\* A machine that is starting is up, or is not; one that is up goes down; one
\* that is being saved is saved in the end, or runs on.
machineStep ==
  /\ \E v \in VMs :
       \/ /\ state[v] = "starting"
          /\ \E s \in {"running", "off"} : state' = [state EXCEPT ![v] = s]
       \/ /\ state[v] = "saving"
          /\ \E s \in {"running", "saved"} : state' = [state EXCEPT ![v] = s]
       \/ /\ state[v] \in {"running", "paused"}
          /\ state' = [state EXCEPT ![v] = "off"]
  /\ UNCHANGED <<reg, disk, media, abandoned, threads>>

-----------------------------------------------------------------------------
(* Calls *)

call(t) ==
  /\ pc[t] = "idle"
  /\ \E o \in Ops, v \in VMs :
       /\ op' = [op EXCEPT ![t] = o]
       /\ vm' = [vm EXCEPT ![t] = v]
       /\ pc' = [pc EXCEPT ![t] = IF o = "createVM" THEN "check" ELSE "find"]
  /\ result' = [result EXCEPT ![t] = "none"]
  /\ own' = [own EXCEPT ![t] = "none"]
  /\ failed' = [failed EXCEPT ![t] = "none"]
  /\ met' = [met EXCEPT ![t] = FALSE]
  /\ UNCHANGED <<hypervisor, session>>

findMachineByNameOrId(t) ==
  /\ pc[t] = "find"
  /\ \/ /\ reg[vm[t]] = "registered"
        /\ Goto(t, IF op[t] = "start" THEN "openRemote" ELSE "getSession")
        /\ UNCHANGED session
     \/ End(t, "raised")
  /\ UNCHANGED <<hypervisor, history>>

\* start: the machine's process is started.
openRemoteSession(t) ==
  /\ pc[t] = "openRemote"
  /\ \/ /\ ~Locked(vm[t]) /\ reg[vm[t]] = "registered"
        /\ state' = [state EXCEPT ![vm[t]] = "starting"]
        /\ session' = [session EXCEPT ![t] = "shared"]
        /\ Goto(t, "wait")
        /\ Meet(t, vm[t])
     \/ End(t, "raised") /\ UNCHANGED <<state, met>>
  /\ UNCHANGED <<reg, disk, media, abandoned, own, failed>>

\* start: waitForCompletion returns when the machine is up, is not, or after
\* WAITING_GRACE_MS; the call returns True in each case.  If it raises,
\* session.close() is left out.
waitForCompletion(t) ==
  /\ pc[t] = "wait"
  /\ \/ End(t, "ok") /\ UNCHANGED abandoned
     \/ Abandon(t)
  /\ UNCHANGED <<reg, disk, state, media, history>>

\* getSessionForVM: share the session that is open, or open one.
getSessionForVM(t) ==
  /\ pc[t] = "getSession"
  /\ \/ /\ reg[vm[t]] = "registered" /\ state[vm[t]] # "starting"
        /\ session' = [session EXCEPT ![t] =
                         IF Locked(vm[t]) THEN "shared" ELSE "direct"]
        /\ Goto(t, "console")
        /\ Meet(t, vm[t])
     \/ End(t, "raised") /\ UNCHANGED met
  /\ UNCHANGED <<hypervisor, own, failed>>

\* session.console is read before the try block: if that raises, the session,
\* shared or direct, is not closed.
console(t) ==
  /\ pc[t] = "console"
  /\ \/ Goto(t, "act") /\ UNCHANGED <<session, abandoned>>
     \/ Abandon(t)
  /\ UNCHANGED <<reg, disk, state, media, history>>

\* Mutant: saveSnapshot does not wait for its progress.
Effect_noWait(o, s, kind) ==
  CASE o = "saveState" /\ s \in {"running", "paused"} -> {"saved", "saving"}
    [] o = "saveSnapshot" -> {"takingSnapshot"}
    [] OTHER -> {}

\* What the operation does to a machine that is in state s, if it succeeds.
\* saveState waits for WAITING_GRACE_MS only; the snapshots are waited for.
Effect(o, s, kind) ==
  CASE o = "pause" /\ s = "running" -> {"paused"}
    [] o = "unpause" /\ s = "paused" -> {"running"}
    [] o = "saveState" /\ s \in {"running", "paused"} -> {"saved", "saving"}
    [] o = "powerOff" /\ s = "running" -> {s}
    [] o = "saveSnapshot" /\ s # "saving" -> {s}
    [] o = "restoreSnapshot" /\ kind = "direct" -> {"off", "saved"}
    [] OTHER -> {}

\* Mutant: the session is not closed if the operation raises.
act_noFinally(t) ==
  /\ pc[t] = "act"
  /\ \/ /\ \E s \in Effect(op[t], state[vm[t]], session[t]) :
             state' = [state EXCEPT ![vm[t]] = s]
        /\ End(t, "ok")
     \/ /\ pc' = [pc EXCEPT ![t] = "idle"]
        /\ result' = [result EXCEPT ![t] = "raised"]
        /\ UNCHANGED <<state, op, vm, session>>
  /\ UNCHANGED <<reg, disk, media, abandoned, history>>

\* The operation, and session.close() in the finally clause
act(t) ==
  /\ pc[t] = "act"
  /\ \/ /\ \E s \in Effect(op[t], state[vm[t]], session[t]) :
             state' = [state EXCEPT ![vm[t]] = s]
        /\ End(t, "ok")
     \/ End(t, "raised") /\ UNCHANGED state
  /\ UNCHANGED <<reg, disk, media, abandoned, history>>

-----------------------------------------------------------------------------
(* createVM *)

\* The exception goes to the caller.
Fail(t) ==
  /\ End(t, "raised")
  /\ failed' = [failed EXCEPT ![t] = IF own[t] = "registered" THEN pc[t] ELSE @]

\* Mutant: the machine is changed outside the try block.
RollBack_none(t) == Fail(t)

\* The exception is caught, and session is bound: the creation is rolled back.
RollBack(t) == Goto(t, "closeInRollback") /\ UNCHANGED <<session, failed>>

\* The name is not that of a machine, when it is checked; and createMachine
\* finds no settings of that name, and the image is a file.
checkName(t) ==
  /\ pc[t] = "check"
  /\ \/ /\ reg[vm[t]] # "registered"
        /\ Goto(t, "createMachine") /\ UNCHANGED <<session, failed>>
     \/ Fail(t)
  /\ UNCHANGED <<hypervisor, own, met>>

createMachine(t) ==
  /\ pc[t] = "createMachine"
  /\ \/ /\ reg[vm[t]] = "none"
        /\ Goto(t, "saveSettings") /\ UNCHANGED <<session, failed>>
     \/ Fail(t)
  /\ UNCHANGED <<hypervisor, own, met>>

\* Until session is bound, a failure ends in the except clause with NameError.
saveSettings(t) ==
  /\ pc[t] = "saveSettings"
  /\ \/ /\ reg' = [reg EXCEPT ![vm[t]] = IF @ = "none" THEN "file" ELSE @]
        /\ own' = [own EXCEPT ![t] = "file"]
        /\ Goto(t, "registerMachine") /\ UNCHANGED <<session, failed>>
     \/ Fail(t) /\ UNCHANGED <<reg, own>>
  /\ UNCHANGED <<disk, state, media, abandoned, met>>

registerMachine(t) ==
  /\ pc[t] = "registerMachine"
  /\ \/ /\ reg[vm[t]] # "registered"
        /\ reg' = [reg EXCEPT ![vm[t]] = "registered"]
        /\ disk' = [disk EXCEPT ![vm[t]] = FALSE]
        /\ state' = [state EXCEPT ![vm[t]] = "off"]
        /\ own' = [own EXCEPT ![t] = "registered"]
        /\ Goto(t, "getSessionObject") /\ UNCHANGED <<session, failed>>
     \/ Fail(t) /\ UNCHANGED <<reg, disk, state, own>>
  /\ UNCHANGED <<media, abandoned, met>>

getSessionObject(t) ==
  /\ pc[t] = "getSessionObject"
  /\ \/ Goto(t, "openSession") /\ UNCHANGED <<session, failed>>
     \/ Fail(t)
  /\ UNCHANGED <<hypervisor, own, met>>

openSession(t) ==
  /\ pc[t] = "openSession"
  /\ \/ /\ ~Locked(vm[t])
        /\ session' = [session EXCEPT ![t] = "direct"]
        /\ Goto(t, "attach") /\ UNCHANGED failed
     \/ RollBack(t)
  /\ UNCHANGED <<hypervisor, own, met>>

\* _attachNICs, _addSCSIStorageController, _attachHDToMachine.  openHardDisk
\* registers the image; if what comes after it raises, nothing undoes that.
attach(t) ==
  /\ pc[t] = "attach"
  /\ \/ /\ disk' = [disk EXCEPT ![vm[t]] = TRUE]
        /\ media' = media \cup {vm[t]}
        /\ Goto(t, "close") /\ UNCHANGED <<session, failed>>
     \/ /\ media' \in {media, media \cup {vm[t]}}
        /\ RollBack(t) /\ UNCHANGED disk
  /\ UNCHANGED <<reg, state, abandoned, own, met>>

\* Mutant: the session is closed in the try block, where that may raise.
close_inTry(t) ==
  /\ pc[t] = "close"
  /\ \/ End(t, "ok") /\ UNCHANGED failed
     \/ RollBack(t)
  /\ UNCHANGED <<hypervisor, own, met>>

close(t) ==
  /\ pc[t] = "close"
  /\ End(t, "ok")
  /\ UNCHANGED <<hypervisor, history>>

closeInRollback(t) ==
  /\ pc[t] = "closeInRollback"
  /\ Goto(t, "unregisterMachine")
  /\ session' = [session EXCEPT ![t] = "none"]
  /\ UNCHANGED <<hypervisor, history>>

\* It raises if the machine runs or is in a session.
unregisterMachine(t) ==
  /\ pc[t] = "unregisterMachine"
  /\ \/ /\ ~Locked(vm[t])
        /\ reg' = [reg EXCEPT ![vm[t]] = "file"]
        /\ own' = [own EXCEPT ![t] = "file"]
        /\ Goto(t, "deleteSettings") /\ UNCHANGED <<session, failed>>
     \/ Locked(vm[t]) /\ Fail(t) /\ UNCHANGED <<reg, own>>
  /\ UNCHANGED <<disk, state, media, abandoned, met>>

\* Mutant: the exception is not raised again after the rollback.
deleteSettings_return(t) ==
  /\ pc[t] = "deleteSettings"
  /\ \/ /\ reg' = [reg EXCEPT ![vm[t]] = IF @ = "file" THEN "none" ELSE @]
        /\ own' = [own EXCEPT ![t] = "none"]
        /\ End(t, "ok") /\ UNCHANGED failed
     \/ Fail(t) /\ UNCHANGED <<reg, own>>
  /\ UNCHANGED <<disk, state, media, abandoned, met>>

\* Then the exception that was caught is raised again.
deleteSettings(t) ==
  /\ pc[t] = "deleteSettings"
  /\ \/ /\ reg' = [reg EXCEPT ![vm[t]] = IF @ = "file" THEN "none" ELSE @]
        /\ own' = [own EXCEPT ![t] = "none"]
        /\ End(t, "raised") /\ UNCHANGED failed
     \/ Fail(t) /\ UNCHANGED <<reg, own>>
  /\ UNCHANGED <<disk, state, media, abandoned, met>>

createVM(t) ==
  \/ checkName(t) \/ createMachine(t) \/ saveSettings(t) \/ registerMachine(t)
  \/ getSessionObject(t) \/ openSession(t) \/ attach(t) \/ close(t)
  \/ closeInRollback(t) \/ unregisterMachine(t) \/ deleteSettings(t)

-----------------------------------------------------------------------------
Next ==
  \/ machineStep \/ collect
  \/ \E t \in Threads :
       \/ call(t) \/ findMachineByNameOrId(t)
       \/ openRemoteSession(t) \/ waitForCompletion(t)
       \/ getSessionForVM(t) \/ console(t) \/ act(t)
       \/ createVM(t)

Spec == Init /\ [][Next]_vars

-----------------------------------------------------------------------------
(* Properties *)

\* Whatever raises, and whatever other calls do, at most one session changes a
\* machine, and not while it runs.  A session that locks the machine outlives
\* its call only if reading its console, outside the try block, raised: then no
\* other session changes the machine, and it does not run, until Python frees
\* the session.
SessionsReleased ==
  /\ \A t \in Threads : session[t] = "direct" =>
       /\ pc[t] \in {"console", "act", "attach", "close", "closeInRollback"}
       /\ state[vm[t]] \notin Alive
       /\ <<vm[t], "direct">> \notin abandoned
       /\ \A u \in Threads : session[u] = "direct" /\ vm[u] = vm[t] => u = t
  /\ \A v \in VMs : <<v, "direct">> \in abandoned => state[v] \notin Alive

\* createVM returns only when its machine is registered and has its disk, whose
\* image VirtualBox knows, also if the name was given to two calls at once; and
\* of these one registers it.
Created ==
  \A t \in Threads :
    /\ result[t] = "ok" /\ op[t] = "createVM" =>
         reg[vm[t]] = "registered" /\ disk[vm[t]] /\ vm[t] \in media
    /\ \A u \in Threads :
         own[t] = "registered" /\ own[u] = "registered" /\ vm[t] = vm[u] => t = u

\* When a call of createVM that failed leaves its machine registered, without a
\* disk, then it failed before it had a session, or another call has got hold of
\* the new machine in the meantime.
LeftoverExplained ==
  \A t \in Threads :
    pc[t] = "idle" /\ result[t] = "raised" /\ own[t] = "registered" =>
      failed[t] = "getSessionObject" \/ (failed[t] = "unregisterMachine" /\ met[t])

\* The rollback of createVM never takes away a complete machine: one that has
\* its disk, whoever made it and whenever, stays registered with it.
CompleteKept ==
  [][\A v \in VMs : reg[v] = "registered" /\ disk[v] =>
       reg'[v] = "registered" /\ disk'[v]]_vars
=============================================================================
