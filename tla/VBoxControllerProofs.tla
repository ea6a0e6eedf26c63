-------------------------- MODULE VBoxControllerProofs --------------------------
(***************************************************************************)
(* Proofs about the operations of the host agent on virtual machines, for  *)
(* any number of worker threads and machines.                              *)
(***************************************************************************)
EXTENDS VBoxController, TLAPS

\* The steps of the operations other than createVM
CallSteps == {"find", "openRemote", "wait", "getSession", "console", "act"}

\* The steps of createVM before there is anything to undo, and those at which
\* the new machine is registered
EarlySteps == {"check", "createMachine", "saveSettings"}
MachineSteps == {"getSessionObject", "openSession", "attach", "close",
                 "closeInRollback", "unregisterMachine"}

\* The step at which a call is determines what createVM has left so far; a
\* call that is not over has no result.
PhaseInv ==
  \A t \in Threads :
    /\ pc[t] \in CallSteps => op[t] # "createVM" /\ own[t] = "none"
    /\ pc[t] \in EarlySteps => own[t] = "none"
    /\ pc[t] \in {"registerMachine", "deleteSettings"} => own[t] = "file"
    /\ pc[t] \in MachineSteps => own[t] = "registered"
    /\ pc[t] # "idle" => result[t] = "none"

\* A machine stays registered while a call of createVM accounts for it, or a
\* session changes it, one that was left open too; a machine that was completed
\* keeps its disk.
OwnInv ==
  /\ \A v \in VMs : <<v, "direct">> \in abandoned => reg[v] = "registered"
  /\ \A t \in Threads :
       /\ own[t] = "registered" \/ session[t] = "direct" => reg[vm[t]] = "registered"
       /\ pc[t] = "close" \/ (result[t] = "ok" /\ op[t] = "createVM") =>
            own[t] = "registered" /\ disk[vm[t]] /\ vm[t] \in media
       /\ \A u \in Threads :
            own[t] = "registered" /\ own[u] = "registered" /\ vm[t] = vm[u] => t = u

\* A new machine that runs, or that a session of another call has locked, which
\* may be over, has been met by that call.
MetInv ==
  \A t \in Threads :
    /\ own[t] = "registered"
    /\ \/ state[vm[t]] \in Alive
       \/ <<vm[t], "direct">> \in abandoned
       \/ \E u \in Threads \ {t} : session[u] = "direct" /\ vm[u] = vm[t]
    => met[t]

\* A machine that may be rolled back has no disk yet.
RawInv ==
  \A t \in Threads : pc[t] \in MachineSteps \ {"close"} => ~disk[vm[t]]

-----------------------------------------------------------------------------
(* What the helpers return *)

\* No operation brings up a machine that is down: only start does.
LEMMA EffectRange ==
  ASSUME NEW o, NEW s \in States, NEW kind, NEW x \in Effect(o, s, kind)
  PROVE  x \in States /\ (x \in Alive => s \in Alive)
<1>1. \/ x \in {"paused", "running", "saved", "saving"} /\ s \in Alive
      \/ x = s \/ x \in {"off", "saved"}
  BY Zenon DEF Effect, Alive
<1> QED
  BY <1>1 DEF States, Alive

\* What a session leaves in met
LEMMA MeetEffect ==
  ASSUME TypeOK, NEW t \in Threads, NEW v, Meet(t, v)
  PROVE  /\ met' \in [Threads -> BOOLEAN]
         /\ \A u \in Threads : met[u] => met'[u]
         /\ \A u \in Threads \ {t} : vm[u] = v /\ own[u] = "registered" => met'[u]
BY Zenon DEF Meet, TypeOK

-----------------------------------------------------------------------------
(* Type correctness *)

\* A call that is about to use its session has one.
HasSession ==
  \A t \in Threads : pc[t] \in {"wait", "console", "act"} =>
    session[t] \in {"shared", "direct"}

\* Every step keeps the types.
LEMMA TypeNext ==
  TypeOK /\ HasSession /\ [Next]_vars => TypeOK' /\ HasSession'
<1> SUFFICES ASSUME TypeOK, HasSession, [Next]_vars PROVE TypeOK' /\ HasSession'
  OBVIOUS
<1> USE DEF TypeOK, HasSession, hypervisor, threads, history, CreateSteps, Ops, States, Alive
<1>1. CASE machineStep
  BY <1>1 DEF machineStep
<1>2. ASSUME NEW t \in Threads, call(t) PROVE TypeOK' /\ HasSession'
  BY <1>2 DEF call
<1>3. ASSUME NEW t \in Threads, findMachineByNameOrId(t) PROVE TypeOK' /\ HasSession'
  BY <1>3 DEF findMachineByNameOrId, Goto, End
<1>4. ASSUME NEW t \in Threads, openRemoteSession(t) PROVE TypeOK' /\ HasSession'
  <2>1. met' \in [Threads -> BOOLEAN]
    BY <1>4, MeetEffect DEF openRemoteSession
  <2> QED
    BY <1>4, <2>1 DEF openRemoteSession, Goto, End
<1>5. ASSUME NEW t \in Threads, waitForCompletion(t) PROVE TypeOK' /\ HasSession'
  BY <1>5 DEF waitForCompletion, Abandon, End
<1>6. ASSUME NEW t \in Threads, getSessionForVM(t) PROVE TypeOK' /\ HasSession'
  <2>1. met' \in [Threads -> BOOLEAN]
    BY <1>6, MeetEffect DEF getSessionForVM
  <2> QED
    BY <1>6, <2>1 DEF getSessionForVM, Goto, End
<1>7. ASSUME NEW t \in Threads, console(t) PROVE TypeOK' /\ HasSession'
  BY <1>7 DEF console, Goto, Abandon, End
<1>8. ASSUME NEW t \in Threads, act(t) PROVE TypeOK' /\ HasSession'
  <2>1. \A x \in Effect(op[t], state[vm[t]], session[t]) : x \in States
    <3>1. state[vm[t]] \in States
      OBVIOUS
    <3> QED
      BY <3>1, EffectRange
  <2>2. state' \in [VMs -> States]
    BY <1>8, <2>1 DEF act
  <2> QED
    BY <1>8, <2>2 DEF act, End
<1>9. ASSUME NEW t \in Threads, checkName(t) PROVE TypeOK' /\ HasSession'
  BY <1>9 DEF checkName, Goto, Fail, End
<1>10. ASSUME NEW t \in Threads, createMachine(t) PROVE TypeOK' /\ HasSession'
  BY <1>10 DEF createMachine, Goto, Fail, End
<1>11. ASSUME NEW t \in Threads, saveSettings(t) PROVE TypeOK' /\ HasSession'
  BY <1>11 DEF saveSettings, Goto, Fail, End
<1>12. ASSUME NEW t \in Threads, registerMachine(t) PROVE TypeOK' /\ HasSession'
  <2>1. disk' \in [VMs -> BOOLEAN]
    BY <1>12, Zenon DEF registerMachine
  <2> QED
    BY <1>12, <2>1 DEF registerMachine, Goto, Fail, End
<1>13. ASSUME NEW t \in Threads, getSessionObject(t) PROVE TypeOK' /\ HasSession'
  BY <1>13 DEF getSessionObject, Goto, Fail, End
<1>14. ASSUME NEW t \in Threads, openSession(t) PROVE TypeOK' /\ HasSession'
  BY <1>14 DEF openSession, Goto, RollBack
<1>15. ASSUME NEW t \in Threads, attach(t) PROVE TypeOK' /\ HasSession'
  <2>1. disk' \in [VMs -> BOOLEAN]
    BY <1>15, Zenon DEF attach
  <2> QED
    BY <1>15, <2>1 DEF attach, Goto, RollBack
<1>16. ASSUME NEW t \in Threads, close(t) PROVE TypeOK' /\ HasSession'
  BY <1>16 DEF close, End
<1>17. ASSUME NEW t \in Threads, closeInRollback(t) PROVE TypeOK' /\ HasSession'
  BY <1>17 DEF closeInRollback, Goto
<1>18. ASSUME NEW t \in Threads, unregisterMachine(t) PROVE TypeOK' /\ HasSession'
  BY <1>18 DEF unregisterMachine, Goto, Fail, End
<1>19. ASSUME NEW t \in Threads, deleteSettings(t) PROVE TypeOK' /\ HasSession'
  BY <1>19 DEF deleteSettings, Fail, End
<1>20. CASE UNCHANGED vars
  BY <1>20 DEF vars
<1>21. CASE collect
  BY <1>21 DEF collect
<1> QED
  BY <1>1, <1>2, <1>3, <1>4, <1>5, <1>6, <1>7, <1>8, <1>9, <1>10, <1>11,
     <1>12, <1>13, <1>14, <1>15, <1>16, <1>17, <1>18, <1>19, <1>20, <1>21
     DEF Next, createVM

\* The types hold in every reachable state, for any number of threads and
\* machines, and no call uses a session that it has not opened.
THEOREM TypeCorrect == Spec => [](TypeOK /\ HasSession)
<1>1. Init => TypeOK /\ HasSession
  <2> SUFFICES ASSUME Init PROVE TypeOK /\ HasSession
    OBVIOUS
  <2>1. (CHOOSE v \in VMs : TRUE) \in VMs
    BY VMsAssumption
  <2>2. disk \in [VMs -> BOOLEAN] /\ met \in [Threads -> BOOLEAN]
    BY Zenon DEF Init
  <2> QED
    BY <2>1, <2>2 DEF Init, TypeOK, HasSession, States, Ops
<1> QED
  BY <1>1, TypeNext, PTL DEF Spec

-----------------------------------------------------------------------------
(* Sessions *)

\* Sessions stay exclusive, and end with the call that has opened them.
LEMMA SessionsNext ==
  TypeOK /\ SessionsReleased
    /\ [Next]_vars => SessionsReleased'
<1> SUFFICES ASSUME TypeOK, SessionsReleased, [Next]_vars
             PROVE SessionsReleased'
  OBVIOUS
<1> USE DEF SessionsReleased, TypeOK, hypervisor, threads, history
<1>1. CASE machineStep
  BY <1>1 DEF Alive, machineStep
<1>2. ASSUME NEW t \in Threads, call(t) PROVE SessionsReleased'
  <2>1. session[t] # "direct" /\ UNCHANGED <<session, hypervisor>>
    BY <1>2 DEF call
  <2>2. \A u \in Threads \ {t} :
          vm'[u] = vm[u] /\ pc'[u] = pc[u] /\ op'[u] = op[u]
            /\ result'[u] = result[u] /\ own'[u] = own[u] /\ met'[u] = met[u]
    BY <1>2 DEF call
  <2>3. pc'[t] \in {"check", "find"} /\ own'[t] = "none" /\ result'[t] = "none"
    BY <1>2 DEF call
  <2>4. vm'[t] \in VMs
    BY <1>2 DEF call
  <2> QED
    BY <2>1, <2>2, <2>3, <2>4
<1>3. ASSUME NEW t \in Threads, findMachineByNameOrId(t) PROVE SessionsReleased'
  BY <1>3 DEF findMachineByNameOrId, Goto, End
<1>4. ASSUME NEW t \in Threads, openRemoteSession(t) PROVE SessionsReleased'
  BY <1>4 DEF openRemoteSession, Goto, End, Locked, InSession
<1>5. ASSUME NEW t \in Threads, waitForCompletion(t) PROVE SessionsReleased'
  BY <1>5 DEF waitForCompletion, Abandon, End
<1>6. ASSUME NEW t \in Threads, getSessionForVM(t) PROVE SessionsReleased'
  BY <1>6 DEF getSessionForVM, Goto, End, Locked, InSession
<1>7. ASSUME NEW t \in Threads, console(t) PROVE SessionsReleased'
  BY <1>7 DEF console, Goto, Abandon, End
<1>8. ASSUME NEW t \in Threads, act(t) PROVE SessionsReleased'
  <2>1. \A x \in Effect(op[t], state[vm[t]], session[t]) :
          x \in Alive => state[vm[t]] \in Alive
    BY EffectRange
  <2> QED
    BY <1>8, <2>1 DEF act, End
<1>9. ASSUME NEW t \in Threads, checkName(t) PROVE SessionsReleased'
  BY <1>9 DEF checkName, Goto, Fail, End
<1>10. ASSUME NEW t \in Threads, createMachine(t) PROVE SessionsReleased'
  BY <1>10 DEF createMachine, Goto, Fail, End
<1>11. ASSUME NEW t \in Threads, saveSettings(t) PROVE SessionsReleased'
  BY <1>11 DEF saveSettings, Goto, Fail, End
<1>12. ASSUME NEW t \in Threads, registerMachine(t) PROVE SessionsReleased'
  BY <1>12 DEF Alive, registerMachine, Goto, Fail, End
<1>13. ASSUME NEW t \in Threads, getSessionObject(t) PROVE SessionsReleased'
  BY <1>13 DEF getSessionObject, Goto, Fail, End
<1>14. ASSUME NEW t \in Threads, openSession(t) PROVE SessionsReleased'
  BY <1>14 DEF openSession, Goto, RollBack, Locked, InSession
<1>15. ASSUME NEW t \in Threads, attach(t) PROVE SessionsReleased'
  BY <1>15 DEF attach, Goto, RollBack
<1>16. ASSUME NEW t \in Threads, close(t) PROVE SessionsReleased'
  BY <1>16 DEF close, End
<1>17. ASSUME NEW t \in Threads, closeInRollback(t) PROVE SessionsReleased'
  BY <1>17 DEF closeInRollback, Goto
<1>18. ASSUME NEW t \in Threads, unregisterMachine(t) PROVE SessionsReleased'
  BY <1>18 DEF unregisterMachine, Goto, Fail, End
<1>19. ASSUME NEW t \in Threads, deleteSettings(t) PROVE SessionsReleased'
  BY <1>19 DEF deleteSettings, Fail, End
<1>20. CASE UNCHANGED vars
  BY <1>20 DEF vars
<1>21. CASE collect
  BY <1>21 DEF collect
<1> QED
  BY <1>1, <1>2, <1>3, <1>4, <1>5, <1>6, <1>7, <1>8, <1>9, <1>10, <1>11,
     <1>12, <1>13, <1>14, <1>15, <1>16, <1>17, <1>18, <1>19, <1>20, <1>21
     DEF Next, createVM

\* At most one session changes a machine, never while the machine runs, and the
\* only sessions that outlive their call are those whose console could not be
\* read, whichever steps of concurrent calls raise.
THEOREM Released == Spec => []SessionsReleased
<1>1. Init => SessionsReleased
  BY DEF Init, SessionsReleased
<1> QED
  BY <1>1, TypeCorrect, SessionsNext, PTL DEF Spec

-----------------------------------------------------------------------------
(* The machines of createVM *)

\* Each step of a call leaves of its machine what the next one expects.
LEMMA PhaseNext == TypeOK /\ PhaseInv /\ [Next]_vars => PhaseInv'
<1> SUFFICES ASSUME TypeOK, PhaseInv, [Next]_vars PROVE PhaseInv'
  OBVIOUS
<1> USE DEF PhaseInv, CallSteps, EarlySteps, MachineSteps,
    TypeOK, hypervisor, threads, history
<1>1. CASE machineStep
  BY <1>1 DEF machineStep
<1>2. ASSUME NEW t \in Threads, call(t) PROVE PhaseInv'
  BY <1>2 DEF call
<1>3. ASSUME NEW t \in Threads, findMachineByNameOrId(t) PROVE PhaseInv'
  BY <1>3 DEF findMachineByNameOrId, Goto, End
<1>4. ASSUME NEW t \in Threads, openRemoteSession(t) PROVE PhaseInv'
  BY <1>4 DEF openRemoteSession, Goto, End
<1>5. ASSUME NEW t \in Threads, waitForCompletion(t) PROVE PhaseInv'
  BY <1>5 DEF waitForCompletion, Abandon, End
<1>6. ASSUME NEW t \in Threads, getSessionForVM(t) PROVE PhaseInv'
  BY <1>6 DEF getSessionForVM, Goto, End
<1>7. ASSUME NEW t \in Threads, console(t) PROVE PhaseInv'
  BY <1>7 DEF console, Goto, Abandon, End
<1>8. ASSUME NEW t \in Threads, act(t) PROVE PhaseInv'
  BY <1>8 DEF act, End
<1>9. ASSUME NEW t \in Threads, checkName(t) PROVE PhaseInv'
  BY <1>9 DEF checkName, Goto, Fail, End
<1>10. ASSUME NEW t \in Threads, createMachine(t) PROVE PhaseInv'
  BY <1>10 DEF createMachine, Goto, Fail, End
<1>11. ASSUME NEW t \in Threads, saveSettings(t) PROVE PhaseInv'
  BY <1>11 DEF saveSettings, Goto, Fail, End
<1>12. ASSUME NEW t \in Threads, registerMachine(t) PROVE PhaseInv'
  BY <1>12 DEF registerMachine, Goto, Fail, End
<1>13. ASSUME NEW t \in Threads, getSessionObject(t) PROVE PhaseInv'
  BY <1>13 DEF getSessionObject, Goto, Fail, End
<1>14. ASSUME NEW t \in Threads, openSession(t) PROVE PhaseInv'
  BY <1>14 DEF openSession, Goto, RollBack
<1>15. ASSUME NEW t \in Threads, attach(t) PROVE PhaseInv'
  BY <1>15 DEF attach, Goto, RollBack
<1>16. ASSUME NEW t \in Threads, close(t) PROVE PhaseInv'
  BY <1>16 DEF close, End
<1>17. ASSUME NEW t \in Threads, closeInRollback(t) PROVE PhaseInv'
  BY <1>17 DEF closeInRollback, Goto
<1>18. ASSUME NEW t \in Threads, unregisterMachine(t) PROVE PhaseInv'
  BY <1>18 DEF unregisterMachine, Goto, Fail, End
<1>19. ASSUME NEW t \in Threads, deleteSettings(t) PROVE PhaseInv'
  BY <1>19 DEF deleteSettings, Fail, End
<1>20. CASE UNCHANGED vars
  BY <1>20 DEF vars
<1>21. CASE collect
  BY <1>21 DEF collect
<1> QED
  BY <1>1, <1>2, <1>3, <1>4, <1>5, <1>6, <1>7, <1>8, <1>9, <1>10, <1>11,
     <1>12, <1>13, <1>14, <1>15, <1>16, <1>17, <1>18, <1>19, <1>20, <1>21
     DEF Next, createVM

\* Nobody but the call that has registered a machine unregisters it.
LEMMA OwnNext ==
  TypeOK /\ SessionsReleased /\ PhaseInv /\ OwnInv /\ [Next]_vars => OwnInv'
<1> SUFFICES ASSUME TypeOK, SessionsReleased, PhaseInv, OwnInv, [Next]_vars
             PROVE OwnInv'
  OBVIOUS
<1> USE DEF OwnInv, PhaseInv, CallSteps, EarlySteps, MachineSteps,
    TypeOK, hypervisor, threads, history
<1>1. CASE machineStep
  BY <1>1 DEF machineStep
<1>2. ASSUME NEW t \in Threads, call(t) PROVE OwnInv'
  <2>1. session[t] # "direct" /\ UNCHANGED <<session, hypervisor>>
    BY <1>2 DEF call, SessionsReleased
  <2>2. \A u \in Threads \ {t} :
          vm'[u] = vm[u] /\ pc'[u] = pc[u] /\ op'[u] = op[u]
            /\ result'[u] = result[u] /\ own'[u] = own[u] /\ met'[u] = met[u]
    BY <1>2 DEF call
  <2>3. pc'[t] \in {"check", "find"} /\ own'[t] = "none" /\ result'[t] = "none"
    BY <1>2 DEF call
  <2>4. vm'[t] \in VMs
    BY <1>2 DEF call
  <2> QED
    BY <2>1, <2>2, <2>3, <2>4
<1>3. ASSUME NEW t \in Threads, findMachineByNameOrId(t) PROVE OwnInv'
  BY <1>3 DEF findMachineByNameOrId, Goto, End
<1>4. ASSUME NEW t \in Threads, openRemoteSession(t) PROVE OwnInv'
  BY <1>4 DEF openRemoteSession, Goto, End
<1>5. ASSUME NEW t \in Threads, waitForCompletion(t) PROVE OwnInv'
  BY <1>5 DEF waitForCompletion, Abandon, End
<1>6. ASSUME NEW t \in Threads, getSessionForVM(t) PROVE OwnInv'
  BY <1>6 DEF getSessionForVM, Goto, End, Locked, InSession
<1>7. ASSUME NEW t \in Threads, console(t) PROVE OwnInv'
  BY <1>7 DEF console, Goto, Abandon, End
<1>8. ASSUME NEW t \in Threads, act(t) PROVE OwnInv'
  BY <1>8 DEF act, End
<1>9. ASSUME NEW t \in Threads, checkName(t) PROVE OwnInv'
  BY <1>9 DEF checkName, Goto, Fail, End
<1>10. ASSUME NEW t \in Threads, createMachine(t) PROVE OwnInv'
  BY <1>10 DEF createMachine, Goto, Fail, End
<1>11. ASSUME NEW t \in Threads, saveSettings(t) PROVE OwnInv'
  BY <1>11 DEF saveSettings, Goto, Fail, End
<1>12. ASSUME NEW t \in Threads, registerMachine(t) PROVE OwnInv'
  BY <1>12 DEF registerMachine, Goto, Fail, End
<1>13. ASSUME NEW t \in Threads, getSessionObject(t) PROVE OwnInv'
  BY <1>13 DEF getSessionObject, Goto, Fail, End
<1>14. ASSUME NEW t \in Threads, openSession(t) PROVE OwnInv'
  BY <1>14 DEF openSession, Goto, RollBack, Locked, InSession
<1>15. ASSUME NEW t \in Threads, attach(t) PROVE OwnInv'
  BY <1>15 DEF attach, Goto, RollBack
<1>16. ASSUME NEW t \in Threads, close(t) PROVE OwnInv'
  BY <1>16 DEF close, End
<1>17. ASSUME NEW t \in Threads, closeInRollback(t) PROVE OwnInv'
  BY <1>17 DEF closeInRollback, Goto
<1>18. ASSUME NEW t \in Threads, unregisterMachine(t) PROVE OwnInv'
  BY <1>18 DEF unregisterMachine, Goto, Fail, End, Locked, InSession
<1>19. ASSUME NEW t \in Threads, deleteSettings(t) PROVE OwnInv'
  BY <1>19 DEF deleteSettings, Fail, End
<1>20. CASE UNCHANGED vars
  BY <1>20 DEF vars
<1>21. CASE collect
  BY <1>21 DEF collect
<1> QED
  BY <1>1, <1>2, <1>3, <1>4, <1>5, <1>6, <1>7, <1>8, <1>9, <1>10, <1>11,
     <1>12, <1>13, <1>14, <1>15, <1>16, <1>17, <1>18, <1>19, <1>20, <1>21
     DEF Next, createVM

\* Whoever gets hold of a new machine, meets the call that has registered it.
LEMMA MetNext ==
  TypeOK /\ SessionsReleased /\ PhaseInv /\ OwnInv /\ MetInv
    /\ [Next]_vars => MetInv'
<1> SUFFICES ASSUME TypeOK, SessionsReleased, PhaseInv, OwnInv, MetInv, [Next]_vars
             PROVE MetInv'
  OBVIOUS
<1> USE DEF MetInv, PhaseInv, CallSteps, EarlySteps, MachineSteps,
    TypeOK, hypervisor, threads, history
<1>1. CASE machineStep
  BY <1>1 DEF machineStep, Alive
<1>2. ASSUME NEW t \in Threads, call(t) PROVE MetInv'
  <2>1. session[t] # "direct" /\ UNCHANGED <<session, hypervisor>>
    BY <1>2 DEF call, SessionsReleased
  <2>2. \A u \in Threads \ {t} :
          vm'[u] = vm[u] /\ pc'[u] = pc[u] /\ op'[u] = op[u]
            /\ result'[u] = result[u] /\ own'[u] = own[u] /\ met'[u] = met[u]
    BY <1>2 DEF call
  <2>3. pc'[t] \in {"check", "find"} /\ own'[t] = "none" /\ result'[t] = "none"
    BY <1>2 DEF call
  <2>4. vm'[t] \in VMs
    BY <1>2 DEF call
  <2> QED
    BY <2>1, <2>2, <2>3, <2>4
<1>3. ASSUME NEW t \in Threads, findMachineByNameOrId(t) PROVE MetInv'
  BY <1>3 DEF findMachineByNameOrId, Goto, End
<1>4. ASSUME NEW t \in Threads, openRemoteSession(t) PROVE MetInv'
  <2>1. CASE Meet(t, vm[t])
    <3>1. /\ \A u \in Threads : met[u] => met'[u]
          /\ \A u \in Threads \ {t} :
               vm[u] = vm[t] /\ own[u] = "registered" => met'[u]
      BY <2>1, MeetEffect
    <3>2. \A u \in Threads : vm[u] # vm[t] => state'[vm[u]] = state[vm[u]]
      BY <1>4 DEF openRemoteSession
    <3>3. \A u \in Threads : session'[u] = "direct" => session[u] = "direct"
      BY <1>4 DEF openRemoteSession, End
    <3>4. own[t] = "none" /\ UNCHANGED <<own, vm, abandoned>>
      BY <1>4 DEF openRemoteSession, Goto, End
    <3> QED
      BY <3>1, <3>2, <3>3, <3>4
  <2>2. CASE End(t, "raised") /\ UNCHANGED <<state, met>>
    BY <1>4, <2>2 DEF openRemoteSession, End
  <2> QED
    BY <1>4, <2>1, <2>2 DEF openRemoteSession
<1>5. ASSUME NEW t \in Threads, waitForCompletion(t) PROVE MetInv'
  BY <1>5 DEF waitForCompletion, Abandon, End
<1>6. ASSUME NEW t \in Threads, getSessionForVM(t) PROVE MetInv'
  <2>1. CASE Meet(t, vm[t])
    <3>1. /\ \A u \in Threads : met[u] => met'[u]
          /\ \A u \in Threads \ {t} :
               vm[u] = vm[t] /\ own[u] = "registered" => met'[u]
      BY <2>1, MeetEffect
    <3>2. \A u \in Threads \ {t} : session'[u] = session[u]
      BY <1>6 DEF getSessionForVM, End
    <3>3. own[t] = "none" /\ UNCHANGED <<own, vm, state, abandoned>>
      BY <1>6 DEF getSessionForVM, Goto, End
    <3> QED
      BY <3>1, <3>2, <3>3
  <2>2. CASE End(t, "raised") /\ UNCHANGED met
    BY <1>6, <2>2 DEF getSessionForVM, End
  <2> QED
    BY <1>6, <2>1, <2>2 DEF getSessionForVM
<1>7. ASSUME NEW t \in Threads, console(t) PROVE MetInv'
  BY <1>7 DEF console, Goto, Abandon, End
<1>8. ASSUME NEW t \in Threads, act(t) PROVE MetInv'
  <2>1. \A x \in Effect(op[t], state[vm[t]], session[t]) :
          x \in Alive => state[vm[t]] \in Alive
    BY EffectRange
  <2> QED
    BY <1>8, <2>1 DEF act, End
<1>9. ASSUME NEW t \in Threads, checkName(t) PROVE MetInv'
  BY <1>9 DEF checkName, Goto, Fail, End
<1>10. ASSUME NEW t \in Threads, createMachine(t) PROVE MetInv'
  BY <1>10 DEF createMachine, Goto, Fail, End
<1>11. ASSUME NEW t \in Threads, saveSettings(t) PROVE MetInv'
  BY <1>11 DEF saveSettings, Goto, Fail, End
<1>12. ASSUME NEW t \in Threads, registerMachine(t) PROVE MetInv'
  BY <1>12 DEF OwnInv, Alive, registerMachine, Goto, Fail, End
<1>13. ASSUME NEW t \in Threads, getSessionObject(t) PROVE MetInv'
  BY <1>13 DEF getSessionObject, Goto, Fail, End
<1>14. ASSUME NEW t \in Threads, openSession(t) PROVE MetInv'
  BY <1>14 DEF OwnInv, openSession, Goto, RollBack
<1>15. ASSUME NEW t \in Threads, attach(t) PROVE MetInv'
  BY <1>15 DEF attach, Goto, RollBack
<1>16. ASSUME NEW t \in Threads, close(t) PROVE MetInv'
  BY <1>16 DEF close, End
<1>17. ASSUME NEW t \in Threads, closeInRollback(t) PROVE MetInv'
  BY <1>17 DEF closeInRollback, Goto
<1>18. ASSUME NEW t \in Threads, unregisterMachine(t) PROVE MetInv'
  BY <1>18 DEF unregisterMachine, Goto, Fail, End
<1>19. ASSUME NEW t \in Threads, deleteSettings(t) PROVE MetInv'
  BY <1>19 DEF deleteSettings, Fail, End
<1>20. CASE UNCHANGED vars
  BY <1>20 DEF vars
<1>21. CASE collect
  BY <1>21 DEF collect
<1> QED
  BY <1>1, <1>2, <1>3, <1>4, <1>5, <1>6, <1>7, <1>8, <1>9, <1>10, <1>11,
     <1>12, <1>13, <1>14, <1>15, <1>16, <1>17, <1>18, <1>19, <1>20, <1>21
     DEF Next, createVM

\* A failed call can explain what it leaves.
LEMMA LeftoverNext ==
  TypeOK /\ SessionsReleased /\ PhaseInv /\ MetInv /\ LeftoverExplained
    /\ [Next]_vars => LeftoverExplained'
<1> SUFFICES ASSUME TypeOK, SessionsReleased, PhaseInv, MetInv,
                    LeftoverExplained, [Next]_vars
             PROVE LeftoverExplained'
  OBVIOUS
<1> USE DEF LeftoverExplained, PhaseInv, CallSteps, EarlySteps, MachineSteps,
    TypeOK, hypervisor, threads, history
<1>1. CASE machineStep
  BY <1>1 DEF machineStep
<1>2. ASSUME NEW t \in Threads, call(t) PROVE LeftoverExplained'
  BY <1>2 DEF call
<1>3. ASSUME NEW t \in Threads, findMachineByNameOrId(t) PROVE LeftoverExplained'
  BY <1>3 DEF findMachineByNameOrId, Goto, End
<1>4. ASSUME NEW t \in Threads, openRemoteSession(t) PROVE LeftoverExplained'
  <2>1. \A u \in Threads : met[u] => met'[u]
    BY <1>4, MeetEffect DEF openRemoteSession
  <2> QED
    BY <1>4, <2>1 DEF openRemoteSession, Goto, End
<1>5. ASSUME NEW t \in Threads, waitForCompletion(t) PROVE LeftoverExplained'
  BY <1>5 DEF waitForCompletion, Abandon, End
<1>6. ASSUME NEW t \in Threads, getSessionForVM(t) PROVE LeftoverExplained'
  <2>1. \A u \in Threads : met[u] => met'[u]
    BY <1>6, MeetEffect DEF getSessionForVM
  <2> QED
    BY <1>6, <2>1 DEF getSessionForVM, Goto, End
<1>7. ASSUME NEW t \in Threads, console(t) PROVE LeftoverExplained'
  BY <1>7 DEF console, Goto, Abandon, End
<1>8. ASSUME NEW t \in Threads, act(t) PROVE LeftoverExplained'
  BY <1>8 DEF act, End
<1>9. ASSUME NEW t \in Threads, checkName(t) PROVE LeftoverExplained'
  BY <1>9 DEF checkName, Goto, Fail, End
<1>10. ASSUME NEW t \in Threads, createMachine(t) PROVE LeftoverExplained'
  BY <1>10 DEF createMachine, Goto, Fail, End
<1>11. ASSUME NEW t \in Threads, saveSettings(t) PROVE LeftoverExplained'
  BY <1>11 DEF saveSettings, Goto, Fail, End
<1>12. ASSUME NEW t \in Threads, registerMachine(t) PROVE LeftoverExplained'
  BY <1>12 DEF registerMachine, Goto, Fail, End
<1>13. ASSUME NEW t \in Threads, getSessionObject(t) PROVE LeftoverExplained'
  BY <1>13 DEF getSessionObject, Goto, Fail, End
<1>14. ASSUME NEW t \in Threads, openSession(t) PROVE LeftoverExplained'
  BY <1>14 DEF openSession, Goto, RollBack
<1>15. ASSUME NEW t \in Threads, attach(t) PROVE LeftoverExplained'
  BY <1>15 DEF attach, Goto, RollBack
<1>16. ASSUME NEW t \in Threads, close(t) PROVE LeftoverExplained'
  BY <1>16 DEF close, End
<1>17. ASSUME NEW t \in Threads, closeInRollback(t) PROVE LeftoverExplained'
  BY <1>17 DEF closeInRollback, Goto
<1>18. ASSUME NEW t \in Threads, unregisterMachine(t) PROVE LeftoverExplained'
  BY <1>18 DEF MetInv, SessionsReleased, unregisterMachine, Goto, Fail, End,
     Locked, InSession
<1>19. ASSUME NEW t \in Threads, deleteSettings(t) PROVE LeftoverExplained'
  BY <1>19 DEF deleteSettings, Fail, End
<1>20. CASE UNCHANGED vars
  BY <1>20 DEF vars
<1>21. CASE collect
  BY <1>21 DEF collect
<1> QED
  BY <1>1, <1>2, <1>3, <1>4, <1>5, <1>6, <1>7, <1>8, <1>9, <1>10, <1>11,
     <1>12, <1>13, <1>14, <1>15, <1>16, <1>17, <1>18, <1>19, <1>20, <1>21
     DEF Next, createVM

\* The inductive invariant, in every reachable state
THEOREM Invariant ==
  Spec => [](PhaseInv /\ OwnInv /\ MetInv /\ LeftoverExplained)
<1>1. Init => PhaseInv /\ OwnInv /\ MetInv /\ LeftoverExplained
  BY DEF Init, PhaseInv, OwnInv, MetInv, LeftoverExplained, CallSteps,
     EarlySteps, MachineSteps
<1> QED
  BY <1>1, TypeCorrect, Released, PhaseNext, OwnNext, MetNext, LeftoverNext,
     PTL DEF Spec

\* A call of createVM that returns has left a complete machine, which stays
\* complete, and no two calls have registered one machine.
THEOREM CreatedCompletely == Spec => []Created
<1>1. OwnInv => Created
  BY DEF OwnInv, Created
<1> QED
  BY <1>1, Invariant, PTL

\* A failed call of createVM leaves a machine registered only if it got no
\* session object, or another call had opened the machine in between.
THEOREM Explained == Spec => []LeftoverExplained
BY Invariant, PTL

-----------------------------------------------------------------------------
(* Rollback *)

\* The disk is attached by the call that has registered the machine, last.
LEMMA RawNext ==
  TypeOK /\ PhaseInv /\ OwnInv /\ RawInv
    /\ [Next]_vars => RawInv'
<1> SUFFICES ASSUME TypeOK, PhaseInv, OwnInv, RawInv, [Next]_vars PROVE RawInv'
  OBVIOUS
<1> USE DEF RawInv, OwnInv, PhaseInv, CallSteps, EarlySteps, MachineSteps,
    TypeOK, hypervisor, threads, history
<1>1. CASE machineStep
  BY <1>1 DEF machineStep
<1>2. ASSUME NEW t \in Threads, call(t) PROVE RawInv'
  BY <1>2 DEF call
<1>3. ASSUME NEW t \in Threads, findMachineByNameOrId(t) PROVE RawInv'
  BY <1>3 DEF findMachineByNameOrId, Goto, End
<1>4. ASSUME NEW t \in Threads, openRemoteSession(t) PROVE RawInv'
  BY <1>4 DEF openRemoteSession, Goto, End
<1>5. ASSUME NEW t \in Threads, waitForCompletion(t) PROVE RawInv'
  BY <1>5 DEF waitForCompletion, Abandon, End
<1>6. ASSUME NEW t \in Threads, getSessionForVM(t) PROVE RawInv'
  BY <1>6 DEF getSessionForVM, Goto, End
<1>7. ASSUME NEW t \in Threads, console(t) PROVE RawInv'
  BY <1>7 DEF console, Goto, Abandon, End
<1>8. ASSUME NEW t \in Threads, act(t) PROVE RawInv'
  BY <1>8 DEF act, End
<1>9. ASSUME NEW t \in Threads, checkName(t) PROVE RawInv'
  BY <1>9 DEF checkName, Goto, Fail, End
<1>10. ASSUME NEW t \in Threads, createMachine(t) PROVE RawInv'
  BY <1>10 DEF createMachine, Goto, Fail, End
<1>11. ASSUME NEW t \in Threads, saveSettings(t) PROVE RawInv'
  BY <1>11 DEF saveSettings, Goto, Fail, End
<1>12. ASSUME NEW t \in Threads, registerMachine(t) PROVE RawInv'
  BY <1>12 DEF registerMachine, Goto, Fail, End
<1>13. ASSUME NEW t \in Threads, getSessionObject(t) PROVE RawInv'
  BY <1>13 DEF getSessionObject, Goto, Fail, End
<1>14. ASSUME NEW t \in Threads, openSession(t) PROVE RawInv'
  BY <1>14 DEF openSession, Goto, RollBack
<1>15. ASSUME NEW t \in Threads, attach(t) PROVE RawInv'
  BY <1>15 DEF attach, Goto, RollBack
<1>16. ASSUME NEW t \in Threads, close(t) PROVE RawInv'
  BY <1>16 DEF close, End
<1>17. ASSUME NEW t \in Threads, closeInRollback(t) PROVE RawInv'
  BY <1>17 DEF closeInRollback, Goto
<1>18. ASSUME NEW t \in Threads, unregisterMachine(t) PROVE RawInv'
  BY <1>18 DEF unregisterMachine, Goto, Fail, End
<1>19. ASSUME NEW t \in Threads, deleteSettings(t) PROVE RawInv'
  BY <1>19 DEF deleteSettings, Fail, End
<1>20. CASE UNCHANGED vars
  BY <1>20 DEF vars
<1>21. CASE collect
  BY <1>21 DEF collect
<1> QED
  BY <1>1, <1>2, <1>3, <1>4, <1>5, <1>6, <1>7, <1>8, <1>9, <1>10, <1>11,
     <1>12, <1>13, <1>14, <1>15, <1>16, <1>17, <1>18, <1>19, <1>20, <1>21
     DEF Next, createVM

\* No interleaving of calls, and no failure of any step of them, makes createVM
\* unregister a machine that is complete.
THEOREM RollbackKeepsComplete == Spec => CompleteKept
<1> DEFINE Keep == \A v \in VMs : reg[v] = "registered" /\ disk[v] =>
                     reg'[v] = "registered" /\ disk'[v]
<1>1. ASSUME TypeOK, RawInv, [Next]_vars PROVE Keep
  <2>1. CASE UNCHANGED <<reg, disk>>
    BY <2>1
  <2>2. ASSUME NEW t \in Threads,
               saveSettings(t) \/ registerMachine(t) \/ attach(t)
        PROVE  Keep
    BY <1>1, <2>2 DEF saveSettings, registerMachine, attach, TypeOK, hypervisor
  <2>3. ASSUME NEW t \in Threads, unregisterMachine(t) PROVE Keep
    BY <1>1, <2>3 DEF unregisterMachine, RawInv, MachineSteps, TypeOK
  <2>4. ASSUME NEW t \in Threads, deleteSettings(t) PROVE Keep
    BY <1>1, <2>4 DEF deleteSettings, TypeOK
  <2> HIDE DEF Keep
  <2>5. ASSUME NEW t \in Threads, createVM(t) PROVE Keep
    BY <2>1, <2>2, <2>3, <2>4, <2>5 DEF createVM, checkName, createMachine,
       getSessionObject, openSession, close, closeInRollback, hypervisor
  <2> QED
    BY <1>1, <2>1, <2>5 DEF Next, machineStep, collect, call, findMachineByNameOrId,
       openRemoteSession, waitForCompletion, getSessionForVM, console, act,
       hypervisor, vars
<1>2. Init => RawInv
  BY DEF Init, RawInv, MachineSteps
<1> QED
  BY <1>1, <1>2, TypeCorrect, Invariant, RawNext, PTL DEF Spec, CompleteKept
=============================================================================
