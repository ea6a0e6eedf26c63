---------------------------- MODULE VMWrapperProofs ----------------------------
(***************************************************************************)
(* Proofs about VMWrapper, for every job (any number of tasks, on the host *)
(* or in any virtual machines, with any VMmanage and unzip tasks) and any  *)
(* number of crashes.                                                      *)
(***************************************************************************)
EXTENDS VMWrapper, TLAPS

\* What the file gives is a checkpoint of the right type.
LEMMA ReadType ==
  ASSUME TypeOK
  PROVE  read_checkpoint.n \in 0..NTasks /\ read_checkpoint.cpu \in Nat
BY JobAssumption DEF TypeOK, read_checkpoint, NoFile

-----------------------------------------------------------------------------
(* Type correctness; that i is the index of a task is part of it *)

\* At every step that works on a task there is a task to work on.
Indexed == pc \in TaskSteps => i < NTasks

\* The wrapper starts with the right types, at no task.
LEMMA InitType == Init => TypeOK /\ Indexed
<1> SUFFICES ASSUME Init PROVE TypeOK /\ Indexed
  OBVIOUS
<1>1. vmState \in [VMs -> VMStates]
  BY DEF Init, VMStates
<1>2. file \in [kind : {"absent", "empty", "data"}, n : 0..NTasks, cpu : Nat]
  BY JobAssumption DEF Init, NoFile
<1>3. pc \in Steps /\ Indexed
  BY DEF Init, Indexed, Steps, TaskSteps, WaitSteps
<1>4. /\ i \in 0..NTasks /\ started \in 0..NManage /\ tries \in 0..MaxTries
      /\ ntasks \in 0..NTasks /\ crashes \in 0..MaxCrashes
  BY JobAssumption, BoundAssumption DEF Init
<1> QED
  BY <1>1, <1>2, <1>3, <1>4 DEF Init, TypeOK

\* Every step keeps the types, as only a task in execution is recorded.
LEMMA NextType ==
  ASSUME TypeOK, Indexed, [Next]_vars
  PROVE  TypeOK' /\ Indexed'
<1> USE JobAssumption, BoundAssumption
<1>1. CASE start
  BY <1>1, ReadType DEF start, read_checkpoint, NoFile, place, ckptVars,
     worldVars, taskVars, clientVars, past, TypeOK, Indexed, Tasks,
     Managers, Steps, TaskSteps, WaitSteps, Final, VMStates
<1>2. CASE unzip
  BY <1>2 DEF unzip, Goto, place, ckptVars, worldVars, taskVars,
     clientVars, past, TypeOK, Indexed, Tasks, Managers, Steps, TaskSteps,
     WaitSteps, Final, VMStates
<1>3. CASE startManage
  <2>1. /\ pc' \in Steps /\ Indexed'
        /\ exitStatus' \in {0, 1, 3, 4, 5, 195, Errno}
        /\ cause' \in {"none", "quit", "error"}
        /\ vmManageRunning' \in {"unset", "no", "yes"}
    BY <1>3 DEF startManage, Goto, Raise, RaiseOther, TypeOK, Indexed, Steps, TaskSteps,
         WaitSteps
  <2>2. started' \in 0..NManage /\ children' \subseteq Managers
    <3>1. \/ started' = started /\ children' = children
          \/ /\ started < NManage /\ started' = started + 1
             /\ children' = children \cup {started + 1}
      BY <1>3, Zenon DEF startManage
    <3>2. started \in 0..NManage /\ children \subseteq Managers
      BY DEF TypeOK
    <3>3. CASE started' = started /\ children' = children
      BY <3>2, <3>3
    <3>4. CASE /\ started < NManage /\ started' = started + 1
               /\ children' = children \cup {started + 1}
      <4>1. started + 1 \in 1..NManage /\ started' \in 0..NManage
        BY <3>2, <3>4
      <4> QED
        BY <3>2, <3>4, <4>1 DEF Managers
    <3> QED
      BY <3>1, <3>3, <3>4
  <2> QED
    BY <1>3, <2>1, <2>2 DEF startManage, ckptVars, taskVars, clientVars, past,
         TypeOK
<1>4. CASE waitManage
  BY <1>4 DEF waitManage, Goto, Raise, Retry, place, ckptVars,
     worldVars, taskVars, clientVars, past, TypeOK, Indexed, Tasks,
     Managers, Steps, TaskSteps, WaitSteps, Final, VMStates
<1>5. CASE nextTask
  <2>1. /\ pc' \in Steps /\ Indexed'
        /\ exitStatus' \in {0, 1, 3, 4, 5, 195, Errno}
        /\ cause' \in {"none", "quit", "error"}
    BY <1>5 DEF nextTask, run, Goto, Raise, RaiseOther, TypeOK, Indexed, Steps, TaskSteps,
         WaitSteps, place
  <2>2. /\ suspended' \in BOOLEAN /\ stopped' \in BOOLEAN
        /\ app' \in {"none", "running", "ok", "bad", "unanswered"}
        /\ reaped' \in Nat
    <3>1. \/ UNCHANGED taskVars
          \/ /\ suspended' = FALSE /\ stopped' = FALSE
             /\ app' \in {"none", "running"} /\ reaped' = reaped
      BY <1>5, Zenon DEF nextTask, run
    <3>2. /\ suspended \in BOOLEAN /\ stopped \in BOOLEAN /\ reaped \in Nat
          /\ app \in {"none", "running", "ok", "bad", "unanswered"}
      BY DEF TypeOK
    <3> QED
      BY <3>1, <3>2, Zenon DEF taskVars
  <2> QED
    BY <1>5, <2>1, <2>2 DEF nextTask, place, ckptVars, worldVars, clientVars,
         past, TypeOK
<1>6. CASE boot
  BY <1>6 DEF boot, Goto, Raise, RaiseOther, VMBecomes, place,
     ckptVars, worldVars, taskVars, clientVars, past, TypeOK, Indexed,
     Tasks, Managers, Steps, TaskSteps, WaitSteps, Final, VMStates
<1>7. CASE connect
  BY <1>7 DEF connect, Goto, Raise, Retry, PingUntil, place,
     ckptVars, worldVars, taskVars, clientVars, past, TypeOK, Indexed,
     Tasks, Managers, Steps, TaskSteps, WaitSteps, Final, VMStates
<1>8. CASE copy
  BY <1>8 DEF copy, Goto, Raise, RaiseOther, CopyThen, place,
     ckptVars, worldVars, taskVars, clientVars, past, TypeOK, Indexed,
     Tasks, Managers, Steps, TaskSteps, WaitSteps, Final, VMStates
<1>9. CASE runCmd
  BY <1>9 DEF runCmd, Goto, Raise, Retry, place, ckptVars,
     worldVars, taskVars, clientVars, past, TypeOK, Indexed, Tasks,
     Managers, Steps, TaskSteps, WaitSteps, Final, VMStates
<1>10. CASE poll
  BY <1>10 DEF poll, Goto, Raise, RaiseOther, OnVM, place,
     ckptVars, worldVars, taskVars, clientVars, past, TypeOK, Indexed,
     Tasks, Managers, Steps, TaskSteps, WaitSteps, Final, VMStates
<1>11. CASE quit
  BY <1>11 DEF quit, OnVM, VMBecomes, place, ckptVars, worldVars,
     taskVars, clientVars, past, TypeOK, Indexed, Tasks, Managers, Steps,
     TaskSteps, WaitSteps, Final, VMStates
<1>12. CASE suspendOrResume
  BY <1>12 DEF suspendOrResume, Goto, Raise, RaiseOther, OnVM,
     VMBecomes, place, ckptVars, worldVars, taskVars, clientVars, past,
     TypeOK, Indexed, Tasks, Managers, Steps, TaskSteps, WaitSteps, Final,
     VMStates
<1>13. CASE checkpoint
  BY <1>13 DEF checkpoint, Goto, Raise, RaiseOther, OnVM,
     cpu_time, StaleTaskVM, place, ckptVars, worldVars, taskVars,
     clientVars, past, TypeOK, Indexed, Tasks, Managers, Steps, TaskSteps,
     WaitSteps, Final, VMStates
<1>14. CASE send_status_message
  BY <1>14 DEF send_status_message, Goto, Raise, RaiseOther, OnVM,
     place, ckptVars, worldVars, taskVars, clientVars, past, TypeOK,
     Indexed, Tasks, Managers, Steps, TaskSteps, WaitSteps, Final, VMStates
<1>15. CASE reconnect
  BY <1>15 DEF reconnect, Goto, Raise, Retry, PingUntil, place,
     ckptVars, worldVars, taskVars, clientVars, past, TypeOK, Indexed,
     Tasks, Managers, Steps, TaskSteps, WaitSteps, Final, VMStates
<1>16. CASE copyBack
  BY <1>16 DEF copyBack, Goto, Raise, RaiseOther, CopyThen, place,
     ckptVars, worldVars, taskVars, clientVars, past, TypeOK, Indexed,
     Tasks, Managers, Steps, TaskSteps, WaitSteps, Final, VMStates
<1>17. CASE saveState
  BY <1>17 DEF saveState, Goto, Raise, RaiseOther, VMBecomes,
     place, ckptVars, worldVars, taskVars, clientVars, past, TypeOK,
     Indexed, Tasks, Managers, Steps, TaskSteps, WaitSteps, Final, VMStates
<1>18. CASE record
  BY <1>18 DEF record, Goto, OnVM, place, ckptVars, worldVars,
     taskVars, clientVars, past, TypeOK, Indexed, Tasks, Managers, Steps,
     TaskSteps, WaitSteps, Final, VMStates
<1>19. CASE truncate
  BY <1>19 DEF truncate, Goto, Raise, RaiseOther, EmptyFile,
     place, ckptVars, worldVars, taskVars, clientVars, past, TypeOK,
     Indexed, Tasks, Managers, Steps, TaskSteps, WaitSteps, Final, VMStates
<1>20. CASE write
  <2>1. torn' \in BOOLEAN
    BY <1>20, Zenon DEF write, TypeOK
  <2>2. pc' \in Steps /\ Indexed' /\ i' \in 0..NTasks
    BY <1>20 DEF write, Goto, Raise, TypeOK, Indexed, Steps, TaskSteps,
         WaitSteps
  <2> QED
    BY <1>20, <2>1, <2>2 DEF write, Goto, Raise, Checkpoint, worldVars,
         taskVars, clientVars, TypeOK
<1>21. CASE finally
  <2>1. vmState' \in [VMs -> VMStates]
    BY <1>21 DEF finally, worldVars, TypeOK, VMStates
  <2>2. pc' \in Steps /\ Indexed' /\ children' \subseteq Managers
    BY <1>21 DEF finally, worldVars, TypeOK, Indexed, Steps, TaskSteps,
         WaitSteps, Final
  <2> QED
    BY <1>21, <2>1, <2>2 DEF finally, place, ckptVars, taskVars, clientVars,
         past, TypeOK
<1>22. CASE appEnds
  BY <1>22 DEF appEnds, place, ckptVars, worldVars, taskVars,
     clientVars, past, TypeOK, Indexed, Tasks, Managers, Steps, TaskSteps,
     WaitSteps, Final, VMStates
<1>23. CASE manageEnds
  BY <1>23 DEF manageEnds, place, ckptVars, worldVars, taskVars,
     clientVars, past, TypeOK, Indexed, Tasks, Managers, Steps, TaskSteps,
     WaitSteps, Final, VMStates
<1>24. CASE client
  <2>1. suspendReq' \in BOOLEAN /\ quitReq' \in BOOLEAN
    BY <1>24, Zenon DEF client, TypeOK
  <2> QED
    BY <1>24, <2>1 DEF client, place, ckptVars, worldVars, taskVars, past,
         TypeOK, Indexed
<1>25. CASE crash
  <2>1. vmState' \in [VMs -> VMStates]
    BY <1>25 DEF crash, TypeOK, VMStates
  <2>2. pc' \in Steps /\ Indexed'
    BY <1>25 DEF crash, Indexed, Steps, TaskSteps, WaitSteps
  <2>3. /\ i' \in 0..NTasks /\ started' \in 0..NManage
        /\ tries' \in 0..MaxTries /\ ntasks' \in 0..NTasks
        /\ crashes' \in 0..MaxCrashes
    BY <1>25 DEF crash, TypeOK
  <2>4. torn' \in BOOLEAN
    BY <1>25, Zenon DEF crash
  <2> QED
    BY <1>25, <2>1, <2>2, <2>3, <2>4 DEF crash, TypeOK
<1>26. CASE UNCHANGED vars
  BY <1>26 DEF vars, place, ckptVars, worldVars, taskVars,
     clientVars, past, place, ckptVars, worldVars, taskVars, clientVars,
     past, TypeOK, Indexed, Tasks, Managers, Steps, TaskSteps, WaitSteps,
     Final, VMStates
<1>27. CASE hang
  BY <1>27 DEF hang, Goto, place, ckptVars, worldVars, taskVars, clientVars,
     past, TypeOK, Indexed, Steps, TaskSteps, WaitSteps, Final
<1> QED
  BY <1>1, <1>2, <1>3, <1>4, <1>5, <1>6, <1>7, <1>8, <1>9, <1>10, <1>11,
     <1>12, <1>13, <1>14, <1>15, <1>16, <1>17, <1>18, <1>19, <1>20, <1>21,
     <1>22, <1>23, <1>24, <1>25, <1>26, <1>27 DEF Next, Step, Terminated

\* Every variable of VMWrapper keeps its type and the wrapper never works on a
\* task that the job does not have.
THEOREM TypeCorrect == Spec => [](TypeOK /\ Indexed)
<1>1. Init => TypeOK /\ Indexed
  BY InitType
<1>2. TypeOK /\ Indexed /\ [Next]_vars => TypeOK' /\ Indexed'
  BY NextType
<1> QED
  BY <1>1, <1>2, PTL DEF Spec

-----------------------------------------------------------------------------
(* The checkpoint counts completed tasks only *)

\* Every step preserves ProgressInv.
LEMMA ProgressNext ==
  ASSUME TypeOK, ProgressInv, [Next]_vars
  PROVE  ProgressInv'
<1> USE JobAssumption DEF TypeOK, ProgressInv
<1>1. CASE start
  BY <1>1 DEF start, read_checkpoint, NoFile, place, ckptVars, past,
     CheckpointSound, Tasks, TaskSteps, WaitSteps
<1>2. CASE unzip
  BY <1>2 DEF unzip, Goto, place, ckptVars, past, CheckpointSound,
     read_checkpoint, NoFile, Tasks, TaskSteps, WaitSteps
<1>3. CASE startManage
  BY <1>3 DEF startManage, Goto, Raise, RaiseOther, place, ckptVars, past,
     CheckpointSound, read_checkpoint, NoFile, Tasks, TaskSteps, WaitSteps
<1>4. CASE waitManage
  BY <1>4 DEF waitManage, Goto, Raise, Retry, place, ckptVars, past,
     CheckpointSound, read_checkpoint, NoFile, Tasks, TaskSteps, WaitSteps
<1>5. CASE nextTask
  BY <1>5 DEF nextTask, run, Goto, Raise, RaiseOther, OnVM, place, ckptVars, past,
     CheckpointSound, read_checkpoint, NoFile, Tasks, TaskSteps, WaitSteps
<1>6. CASE boot
  BY <1>6 DEF boot, Goto, Raise, RaiseOther, place, ckptVars, past,
     CheckpointSound, read_checkpoint, NoFile, Tasks, TaskSteps, WaitSteps
<1>7. CASE connect
  BY <1>7 DEF connect, Goto, Raise, Retry, PingUntil, place, ckptVars, past,
     CheckpointSound, read_checkpoint, NoFile, Tasks, TaskSteps, WaitSteps
<1>8. CASE copy
  BY <1>8 DEF copy, Goto, Raise, RaiseOther, CopyThen, place, ckptVars,
     past, CheckpointSound, read_checkpoint, NoFile, Tasks, TaskSteps,
     WaitSteps
<1>9. CASE runCmd
  BY <1>9 DEF runCmd, Goto, Raise, Retry, place, ckptVars, past,
     CheckpointSound, read_checkpoint, NoFile, Tasks, TaskSteps, WaitSteps
<1>10. CASE poll
  BY <1>10 DEF poll, Goto, Raise, RaiseOther, OnVM, place, ckptVars, past,
     CheckpointSound, read_checkpoint, NoFile, Tasks, TaskSteps, WaitSteps
<1>11. CASE quit
  BY <1>11 DEF quit, OnVM, place, ckptVars, past, CheckpointSound,
     read_checkpoint, NoFile, Tasks, TaskSteps, WaitSteps
<1>12. CASE suspendOrResume
  BY <1>12 DEF suspendOrResume, Goto, Raise, RaiseOther, OnVM, place,
     ckptVars, past, CheckpointSound, read_checkpoint, NoFile, Tasks,
     TaskSteps, WaitSteps
<1>13. CASE checkpoint
  BY <1>13 DEF checkpoint, Goto, Raise, RaiseOther, OnVM, place, ckptVars,
     past, CheckpointSound, read_checkpoint, NoFile, Tasks, TaskSteps,
     WaitSteps
<1>14. CASE send_status_message
  BY <1>14 DEF send_status_message, Goto, Raise, RaiseOther, OnVM, place,
     ckptVars, past, CheckpointSound, read_checkpoint, NoFile, Tasks,
     TaskSteps, WaitSteps
<1>15. CASE reconnect
  BY <1>15 DEF reconnect, Goto, Raise, Retry, PingUntil, place, ckptVars,
     past, CheckpointSound, read_checkpoint, NoFile, Tasks, TaskSteps,
     WaitSteps
<1>16. CASE copyBack
  BY <1>16 DEF copyBack, Goto, Raise, RaiseOther, CopyThen, place, ckptVars,
     past, CheckpointSound, read_checkpoint, NoFile, Tasks, TaskSteps,
     WaitSteps
<1>17. CASE saveState
  BY <1>17 DEF saveState, Goto, Raise, RaiseOther, place, ckptVars, past,
     CheckpointSound, read_checkpoint, NoFile, Tasks, TaskSteps, WaitSteps
<1>18. CASE record
  BY <1>18 DEF record, Goto, OnVM, place, ckptVars, past, CheckpointSound,
     read_checkpoint, NoFile, Tasks, TaskSteps, WaitSteps
<1>19. CASE truncate
  BY <1>19 DEF truncate, Goto, Raise, RaiseOther, EmptyFile, place,
     ckptVars, past, CheckpointSound, read_checkpoint, NoFile, Tasks,
     TaskSteps, WaitSteps
<1>20. CASE write
  BY <1>20 DEF write, Goto, Raise, Checkpoint, place, ckptVars, past,
     CheckpointSound, read_checkpoint, NoFile, Tasks, TaskSteps, WaitSteps
<1>21. CASE finally
  BY <1>21 DEF finally, place, ckptVars, past, CheckpointSound,
     read_checkpoint, NoFile, Tasks, TaskSteps, WaitSteps
<1>22. CASE appEnds
  BY <1>22 DEF appEnds, place, ckptVars, past, CheckpointSound,
     read_checkpoint, NoFile, Tasks, TaskSteps, WaitSteps
<1>23. CASE manageEnds
  BY <1>23 DEF manageEnds, place, ckptVars, past, CheckpointSound,
     read_checkpoint, NoFile, Tasks, TaskSteps, WaitSteps
<1>24. CASE client
  BY <1>24 DEF client, place, ckptVars, past, CheckpointSound,
     read_checkpoint, NoFile, Tasks, TaskSteps, WaitSteps
<1>25. CASE crash
  BY <1>25 DEF crash, place, ckptVars, past, CheckpointSound,
     read_checkpoint, NoFile, Tasks, TaskSteps, WaitSteps
<1>26. CASE UNCHANGED vars
  BY <1>26 DEF vars, place, ckptVars, past, CheckpointSound,
     read_checkpoint, NoFile, Tasks, TaskSteps, WaitSteps
<1>27. CASE hang
  BY <1>27 DEF hang, Goto, place, ckptVars, past, CheckpointSound,
     read_checkpoint, NoFile, Tasks, TaskSteps, WaitSteps
<1> QED
  BY <1>1, <1>2, <1>3, <1>4, <1>5, <1>6, <1>7, <1>8, <1>9, <1>10, <1>11,
     <1>12, <1>13, <1>14, <1>15, <1>16, <1>17, <1>18, <1>19, <1>20, <1>21,
     <1>22, <1>23, <1>24, <1>25, <1>26, <1>27 DEF Next, Step, Terminated

\* In every run over any crashes the tasks before the current one are done and
\* only these are, or are about to be, counted in the checkpoint file.
THEOREM Progress == Spec => []ProgressInv
<1>1. Init => ProgressInv
  BY JobAssumption
     DEF Init, ProgressInv, CheckpointSound, read_checkpoint, NoFile, Tasks,
         TaskSteps, WaitSteps
<1>2. TypeOK /\ ProgressInv /\ [Next]_vars => ProgressInv'
  BY ProgressNext
<1> QED
  BY <1>1, <1>2, TypeCorrect, PTL DEF Spec

\* No run that starts from the checkpoint file skips a task, however often
\* and wherever the runs before it were interrupted.
THEOREM CheckpointIsSound == Spec => []CheckpointSound
<1>1. ProgressInv => CheckpointSound
  BY DEF ProgressInv
<1> QED
  BY <1>1, Progress, PTL

-----------------------------------------------------------------------------
(* How much a crash or a failed run costs *)

\* Every step preserves LostWorkInv.
LEMMA LostWorkNext ==
  ASSUME TypeOK, ProgressInv, LostWorkInv, [Next]_vars
  PROVE  LostWorkInv'
<1> USE JobAssumption DEF TypeOK, ProgressInv, LostWorkInv, LostWorkBounded
<1>1. CASE start
  BY <1>1 DEF start, read_checkpoint, NoFile, place, ckptVars, past, Tasks,
     TaskSteps, WaitSteps, Final
<1>2. CASE unzip
  BY <1>2 DEF unzip, Goto, place, ckptVars, past, read_checkpoint, NoFile,
     Tasks, TaskSteps, WaitSteps, Final
<1>3. CASE startManage
  BY <1>3 DEF startManage, Goto, Raise, RaiseOther, place, ckptVars, past,
     read_checkpoint, NoFile, Tasks, TaskSteps, WaitSteps, Final
<1>4. CASE waitManage
  BY <1>4 DEF waitManage, Goto, Raise, Retry, place, ckptVars, past,
     read_checkpoint, NoFile, Tasks, TaskSteps, WaitSteps, Final
<1>5. CASE nextTask
  BY <1>5 DEF nextTask, run, Goto, Raise, RaiseOther, OnVM, place, ckptVars, past,
     read_checkpoint, NoFile, Tasks, TaskSteps, WaitSteps, Final
<1>6. CASE boot
  BY <1>6 DEF boot, Goto, Raise, RaiseOther, place, ckptVars, past,
     read_checkpoint, NoFile, Tasks, TaskSteps, WaitSteps, Final
<1>7. CASE connect
  BY <1>7 DEF connect, Goto, Raise, Retry, PingUntil, place, ckptVars, past,
     read_checkpoint, NoFile, Tasks, TaskSteps, WaitSteps, Final
<1>8. CASE copy
  BY <1>8 DEF copy, Goto, Raise, RaiseOther, CopyThen, place, ckptVars,
     past, read_checkpoint, NoFile, Tasks, TaskSteps, WaitSteps, Final
<1>9. CASE runCmd
  BY <1>9 DEF runCmd, Goto, Raise, Retry, place, ckptVars, past,
     read_checkpoint, NoFile, Tasks, TaskSteps, WaitSteps, Final
<1>10. CASE poll
  BY <1>10 DEF poll, Goto, Raise, RaiseOther, OnVM, place, ckptVars, past,
     read_checkpoint, NoFile, Tasks, TaskSteps, WaitSteps, Final
<1>11. CASE quit
  BY <1>11 DEF quit, OnVM, place, ckptVars, past, read_checkpoint, NoFile,
     Tasks, TaskSteps, WaitSteps, Final
<1>12. CASE suspendOrResume
  BY <1>12 DEF suspendOrResume, Goto, Raise, RaiseOther, OnVM, place,
     ckptVars, past, read_checkpoint, NoFile, Tasks, TaskSteps, WaitSteps,
     Final
<1>13. CASE checkpoint
  BY <1>13 DEF checkpoint, Goto, Raise, RaiseOther, OnVM, place, ckptVars,
     past, read_checkpoint, NoFile, Tasks, TaskSteps, WaitSteps, Final
<1>14. CASE send_status_message
  BY <1>14 DEF send_status_message, Goto, Raise, RaiseOther, OnVM, place,
     ckptVars, past, read_checkpoint, NoFile, Tasks, TaskSteps, WaitSteps,
     Final
<1>15. CASE reconnect
  BY <1>15 DEF reconnect, Goto, Raise, Retry, PingUntil, place, ckptVars,
     past, read_checkpoint, NoFile, Tasks, TaskSteps, WaitSteps, Final
<1>16. CASE copyBack
  BY <1>16 DEF copyBack, Goto, Raise, RaiseOther, CopyThen, place, ckptVars,
     past, read_checkpoint, NoFile, Tasks, TaskSteps, WaitSteps, Final
<1>17. CASE saveState
  BY <1>17 DEF saveState, Goto, Raise, RaiseOther, place, ckptVars, past,
     read_checkpoint, NoFile, Tasks, TaskSteps, WaitSteps, Final
<1>18. CASE record
  BY <1>18 DEF record, Goto, OnVM, place, ckptVars, past, read_checkpoint,
     NoFile, Tasks, TaskSteps, WaitSteps, Final
<1>19. CASE truncate
  BY <1>19 DEF truncate, Goto, Raise, RaiseOther, EmptyFile, place,
     ckptVars, past, read_checkpoint, NoFile, Tasks, TaskSteps, WaitSteps,
     Final
<1>20. CASE write
  BY <1>20 DEF write, Goto, Raise, Checkpoint, place, ckptVars, past,
     read_checkpoint, NoFile, Tasks, TaskSteps, WaitSteps, Final
<1>21. CASE finally
  BY <1>21 DEF finally, place, ckptVars, past, read_checkpoint, NoFile,
     Tasks, TaskSteps, WaitSteps, Final
<1>22. CASE appEnds
  BY <1>22 DEF appEnds, place, ckptVars, past, read_checkpoint, NoFile,
     Tasks, TaskSteps, WaitSteps, Final
<1>23. CASE manageEnds
  BY <1>23 DEF manageEnds, place, ckptVars, past, read_checkpoint, NoFile,
     Tasks, TaskSteps, WaitSteps, Final
<1>24. CASE client
  BY <1>24 DEF client, place, ckptVars, past, read_checkpoint, NoFile,
     Tasks, TaskSteps, WaitSteps, Final
<1>25. CASE crash
  <2>1. CASE torn \/ file.kind = "empty"
    <3>1. torn' = TRUE
      BY <1>25, <2>1, Zenon DEF crash
    <3> QED
      BY <3>1
  <2>2. CASE ~torn /\ file.kind # "empty"
    <3>1. UNCHANGED <<file, done>> /\ pc' = "start"
      BY <1>25 DEF crash
    <3>2. CASE pc = "write"
      BY <2>2, <3>2
    <3>3. CASE pc # "write"
      BY <2>2, <3>1, <3>3 DEF read_checkpoint, TaskSteps, WaitSteps
    <3> QED
      BY <3>2, <3>3
  <2> QED
    BY <2>1, <2>2
<1>26. CASE UNCHANGED vars
  BY <1>26 DEF vars, place, ckptVars, past, read_checkpoint, NoFile, Tasks,
     TaskSteps, WaitSteps, Final
<1>27. CASE hang
  BY <1>27 DEF hang, Calling, Goto, place, ckptVars, past, read_checkpoint,
     NoFile, Tasks, TaskSteps, WaitSteps, Final
<1> QED
  BY <1>1, <1>2, <1>3, <1>4, <1>5, <1>6, <1>7, <1>8, <1>9, <1>10, <1>11,
     <1>12, <1>13, <1>14, <1>15, <1>16, <1>17, <1>18, <1>19, <1>20, <1>21,
     <1>22, <1>23, <1>24, <1>25, <1>26, <1>27 DEF Next, Step, Terminated

\* Until a checkpoint is torn, by a crash or by a write that fails, the file and
\* the loop over the tasks agree.
THEOREM LostWorkInvariant == Spec => []LostWorkInv
<1>1. Init => LostWorkInv
  BY JobAssumption
     DEF Init, LostWorkInv, LostWorkBounded, read_checkpoint, NoFile,
         TaskSteps, WaitSteps
<1>2. TypeOK /\ ProgressInv /\ LostWorkInv /\ [Next]_vars => LostWorkInv'
  BY LostWorkNext
<1> QED
  BY <1>1, <1>2, TypeCorrect, Progress, PTL DEF Spec

\* A crash or a failed run of the wrapper costs at most one completed task,
\* unless write_checkpoint opened the file and did not get to write it: the
\* crash came in between, or f.write or f.close raised.
THEOREM LostWork == Spec => []LostWorkBounded
<1>1. LostWorkInv => LostWorkBounded
  BY DEF LostWorkInv, LostWorkBounded
<1> QED
  BY <1>1, LostWorkInvariant, PTL

-----------------------------------------------------------------------------
(* What boinc_finish says when nothing was raised *)

\* A count that reaches the number of tasks covers them all.
LEMMA AllDone ==
  ASSUME TypeOK, NEW n \in Int, n >= NTasks, \A t \in Tasks : t < n => t \in done
  PROVE  done = Tasks
<1>1. \A t \in Tasks : t < n
  BY JobAssumption DEF Tasks
<1>2. done \subseteq Tasks
  BY DEF TypeOK
<1> QED
  BY <1>1, <1>2, Zenon

\* Every step preserves FinishInv.
LEMMA FinishNext ==
  ASSUME TypeOK, ProgressInv, FinishInv, [Next]_vars
  PROVE  FinishInv'
<1> USE JobAssumption DEF TypeOK, ProgressInv, CheckpointSound, FinishInv
<1>1. CASE start
  <2>1. read_checkpoint.n \in 0..NTasks
    BY ReadType
  <2>2. read_checkpoint.n >= NTasks => done = Tasks
    BY <2>1, AllDone
  <2>3. exitStatus' = 0
    BY <1>1, <2>1 DEF start
  <2> QED
    BY <1>1, <2>2, <2>3 DEF start, past
<1>2. CASE unzip
  BY <1>2 DEF unzip, Goto, place, ckptVars, past, read_checkpoint, NoFile,
     Tasks, TaskSteps, WaitSteps, Final
<1>3. CASE startManage
  BY <1>3 DEF startManage, Goto, Raise, RaiseOther, place, ckptVars, past,
     read_checkpoint, NoFile, Tasks, TaskSteps, WaitSteps, Final
<1>4. CASE waitManage
  BY <1>4 DEF waitManage, Goto, Raise, Retry, place, ckptVars, past,
     read_checkpoint, NoFile, Tasks, TaskSteps, WaitSteps, Final
<1>5. CASE nextTask
  BY <1>5 DEF nextTask, run, Goto, Raise, RaiseOther, OnVM, place, ckptVars, past,
     read_checkpoint, NoFile, Tasks, TaskSteps, WaitSteps, Final
<1>6. CASE boot
  BY <1>6 DEF boot, Goto, Raise, RaiseOther, place, ckptVars, past,
     read_checkpoint, NoFile, Tasks, TaskSteps, WaitSteps, Final
<1>7. CASE connect
  BY <1>7 DEF connect, Goto, Raise, Retry, PingUntil, place, ckptVars, past,
     read_checkpoint, NoFile, Tasks, TaskSteps, WaitSteps, Final
<1>8. CASE copy
  BY <1>8 DEF copy, Goto, Raise, RaiseOther, CopyThen, place, ckptVars,
     past, read_checkpoint, NoFile, Tasks, TaskSteps, WaitSteps, Final
<1>9. CASE runCmd
  BY <1>9 DEF runCmd, Goto, Raise, Retry, place, ckptVars, past,
     read_checkpoint, NoFile, Tasks, TaskSteps, WaitSteps, Final
<1>10. CASE poll
  BY <1>10 DEF poll, Goto, Raise, RaiseOther, OnVM, place, ckptVars, past,
     read_checkpoint, NoFile, Tasks, TaskSteps, WaitSteps, Final
<1>11. CASE quit
  BY <1>11 DEF quit, OnVM, place, ckptVars, past, read_checkpoint, NoFile,
     Tasks, TaskSteps, WaitSteps, Final
<1>12. CASE suspendOrResume
  BY <1>12 DEF suspendOrResume, Goto, Raise, RaiseOther, OnVM, place,
     ckptVars, past, read_checkpoint, NoFile, Tasks, TaskSteps, WaitSteps,
     Final
<1>13. CASE checkpoint
  BY <1>13 DEF checkpoint, Goto, Raise, RaiseOther, OnVM, place, ckptVars,
     past, read_checkpoint, NoFile, Tasks, TaskSteps, WaitSteps, Final
<1>14. CASE send_status_message
  BY <1>14 DEF send_status_message, Goto, Raise, RaiseOther, OnVM, place,
     ckptVars, past, read_checkpoint, NoFile, Tasks, TaskSteps, WaitSteps,
     Final
<1>15. CASE reconnect
  BY <1>15 DEF reconnect, Goto, Raise, Retry, PingUntil, place, ckptVars,
     past, read_checkpoint, NoFile, Tasks, TaskSteps, WaitSteps, Final
<1>16. CASE copyBack
  BY <1>16 DEF copyBack, Goto, Raise, RaiseOther, CopyThen, place, ckptVars,
     past, read_checkpoint, NoFile, Tasks, TaskSteps, WaitSteps, Final
<1>17. CASE saveState
  BY <1>17 DEF saveState, Goto, Raise, RaiseOther, place, ckptVars, past,
     read_checkpoint, NoFile, Tasks, TaskSteps, WaitSteps, Final
<1>18. CASE record
  BY <1>18 DEF record, Goto, OnVM, place, ckptVars, past, read_checkpoint,
     NoFile, Tasks, TaskSteps, WaitSteps, Final
<1>19. CASE truncate
  BY <1>19 DEF truncate, Goto, Raise, RaiseOther, EmptyFile, place,
     ckptVars, past, read_checkpoint, NoFile, Tasks, TaskSteps, WaitSteps,
     Final
<1>20. CASE write
  BY <1>20 DEF write, Goto, Raise, Checkpoint, place, ckptVars, past,
     read_checkpoint, NoFile, Tasks, TaskSteps, WaitSteps, Final
<1>21. CASE finally
  <2>1. i = NTasks => done = Tasks
    BY AllDone
  <2> QED
    BY <1>21, <2>1 DEF finally, past
<1>22. CASE appEnds
  BY <1>22 DEF appEnds, place, ckptVars, past, read_checkpoint, NoFile,
     Tasks, TaskSteps, WaitSteps, Final
<1>23. CASE manageEnds
  BY <1>23 DEF manageEnds, place, ckptVars, past, read_checkpoint, NoFile,
     Tasks, TaskSteps, WaitSteps, Final
<1>24. CASE client
  BY <1>24 DEF client, place, ckptVars, past, read_checkpoint, NoFile,
     Tasks, TaskSteps, WaitSteps, Final
<1>25. CASE crash
  BY <1>25 DEF crash, place, ckptVars, past, read_checkpoint, NoFile, Tasks,
     TaskSteps, WaitSteps, Final
<1>26. CASE UNCHANGED vars
  BY <1>26 DEF vars, place, ckptVars, past, read_checkpoint, NoFile, Tasks,
     TaskSteps, WaitSteps, Final
<1>27. CASE hang
  BY <1>27 DEF hang, Goto, past
<1> QED
  BY <1>1, <1>2, <1>3, <1>4, <1>5, <1>6, <1>7, <1>8, <1>9, <1>10, <1>11,
     <1>12, <1>13, <1>14, <1>15, <1>16, <1>17, <1>18, <1>19, <1>20, <1>21,
     <1>22, <1>23, <1>24, <1>25, <1>26, <1>27 DEF Next, Step, Terminated

\* Without an exception the wrapper reaches finally behind its last task only.
THEOREM FinishInvariant == Spec => []FinishInv
<1>1. Init => FinishInv
  BY DEF Init, FinishInv
<1>2. TypeOK /\ ProgressInv /\ FinishInv /\ [Next]_vars => FinishInv'
  BY FinishNext
<1> QED
  BY <1>1, <1>2, TypeCorrect, Progress, PTL DEF Spec

\* A wrapper that finishes without exception or request to quit reports
\* status 0, and every task of the job is done.
THEOREM Finish == Spec => []NormalFinish
<1>1. FinishInv => NormalFinish
  BY DEF FinishInv, NormalFinish
<1> QED
  BY <1>1, FinishInvariant, PTL

-----------------------------------------------------------------------------
(* The wrapper implements a job *)

\* The steps at which i and the record agree
LoopSteps == TaskSteps \cup {"unzip", "startManage", "waitManage", "task"}

\* Torn or not, the loop over the tasks is at the first task that the record
\* does not count, the file is empty while it is rewritten, and a run that has
\* raised nothing ends behind the last task.
AlignInv ==
  /\ pc = "write" => file.kind = "empty"
  /\ pc \in LoopSteps => i = Recorded
  /\ pc \in {"finally", "finished"} /\ cause = "none" => Recorded = NTasks

\* Every step preserves AlignInv.
LEMMA AlignNext ==
  ASSUME TypeOK, ProgressInv, AlignInv, [Next]_vars
  PROVE  AlignInv'
<1> USE JobAssumption DEF TypeOK, ProgressInv, AlignInv, Recorded, LoopSteps,
        TaskSteps, WaitSteps, read_checkpoint, NoFile
<1>1. CASE start
  BY <1>1 DEF start, place, ckptVars, past, Tasks
<1>2. CASE unzip
  BY <1>2 DEF unzip, Goto, place, ckptVars, past, Tasks
<1>3. CASE startManage
  BY <1>3 DEF startManage, Goto, Raise, RaiseOther, place, ckptVars, past, Tasks
<1>4. CASE waitManage
  BY <1>4 DEF waitManage, Goto, Raise, Retry, place, ckptVars, past, Tasks
<1>5. CASE nextTask
  BY <1>5 DEF nextTask, run, Goto, Raise, RaiseOther, place, ckptVars, past, Tasks
<1>6. CASE boot
  BY <1>6 DEF boot, Goto, Raise, RaiseOther, place, ckptVars, past, Tasks
<1>7. CASE connect
  BY <1>7 DEF connect, Goto, Raise, Retry, PingUntil, place, ckptVars,
     past, Tasks
<1>8. CASE copy
  BY <1>8 DEF copy, Goto, Raise, RaiseOther, CopyThen, place, ckptVars,
     past, Tasks
<1>9. CASE runCmd
  BY <1>9 DEF runCmd, Goto, Raise, Retry, place, ckptVars, past, Tasks
<1>10. CASE poll
  BY <1>10 DEF poll, Goto, Raise, RaiseOther, place, ckptVars, past, Tasks
<1>11. CASE quit
  BY <1>11 DEF quit, place, ckptVars, past, Tasks
<1>12. CASE suspendOrResume
  BY <1>12 DEF suspendOrResume, Goto, Raise, RaiseOther, place, ckptVars,
     past, Tasks
<1>13. CASE checkpoint
  BY <1>13 DEF checkpoint, Goto, Raise, RaiseOther, place, ckptVars, past,
     Tasks
<1>14. CASE send_status_message
  BY <1>14 DEF send_status_message, Goto, Raise, RaiseOther, place,
     ckptVars, past, Tasks
<1>15. CASE reconnect
  BY <1>15 DEF reconnect, Goto, Raise, Retry, PingUntil, place, ckptVars,
     past, Tasks
<1>16. CASE copyBack
  BY <1>16 DEF copyBack, Goto, Raise, RaiseOther, CopyThen, place,
     ckptVars, past, Tasks
<1>17. CASE saveState
  BY <1>17 DEF saveState, Goto, Raise, RaiseOther, place, ckptVars, past,
     Tasks
<1>18. CASE record
  BY <1>18 DEF record, Goto, place, ckptVars, past, Tasks
<1>19. CASE truncate
  BY <1>19 DEF truncate, Goto, Raise, RaiseOther, EmptyFile, place,
     ckptVars, past, Tasks
<1>20. CASE write
  BY <1>20 DEF write, Goto, Raise, Checkpoint, place, ckptVars, past, Tasks
<1>21. CASE finally
  BY <1>21 DEF finally, place, ckptVars, past, Tasks
<1>22. CASE appEnds
  BY <1>22 DEF appEnds, place, ckptVars, past, Tasks
<1>23. CASE manageEnds
  BY <1>23 DEF manageEnds, place, ckptVars, past, Tasks
<1>24. CASE client
  BY <1>24 DEF client, place, ckptVars, past, Tasks
<1>25. CASE crash
  BY <1>25 DEF crash, place, ckptVars, past, Tasks
<1>26. CASE UNCHANGED vars
  BY <1>26 DEF vars, place, ckptVars, past
<1>27. CASE hang
  BY <1>27 DEF hang, Calling, Goto, place, ckptVars, past, Tasks
<1> QED
  BY <1>1, <1>2, <1>3, <1>4, <1>5, <1>6, <1>7, <1>8, <1>9, <1>10, <1>11,
     <1>12, <1>13, <1>14, <1>15, <1>16, <1>17, <1>18, <1>19, <1>20, <1>21,
     <1>22, <1>23, <1>24, <1>25, <1>26, <1>27 DEF Next, Step, Terminated

\* The loop over the tasks and the record agree in every run.
THEOREM Aligned == Spec => []AlignInv
<1>1. Init => AlignInv
  BY DEF Init, AlignInv, LoopSteps, TaskSteps, WaitSteps
<1>2. TypeOK /\ ProgressInv /\ AlignInv /\ [Next]_vars => AlignInv'
  BY AlignNext
<1> QED
  BY <1>1, <1>2, TypeCorrect, Progress, PTL DEF Spec

\* What a step of the wrapper is for the job, if it records, does or loses
\* nothing: the run goes on or ends.
LEMMA SameRecord ==
  ASSUME TypeOK, AlignInv, pc \notin Final,
         Recorded' = Recorded, done' = done, pc' \in Steps,
         pc' = "finished" /\ cause' = "none" => Recorded = NTasks
  PROVE  [JobOf!Next]_(JobOf!vars)
<1>1. Outcome = "none"
  BY DEF Outcome, Final
<1>2. CASE pc' = "finished" /\ cause' = "none"
  BY <1>1, <1>2 DEF Outcome, Final, JobOf!Next, JobOf!Complete, JobOf!vars
<1>3. CASE pc' \in Final /\ ~(pc' = "finished" /\ cause' = "none")
  BY <1>1, <1>3 DEF Outcome, Final, JobOf!Next, JobOf!Break, JobOf!vars
<1>4. CASE pc' \notin Final
  BY <1>1, <1>4 DEF Outcome, Final, JobOf!Next, JobOf!vars
<1> QED
  BY <1>2, <1>3, <1>4

\* Every step of the wrapper is a step of the job or leaves the job alone.
LEMMA JobStep ==
  ASSUME TypeOK, TypeOK', ProgressInv, AlignInv, AlignInv', [Next]_vars
  PROVE  [JobOf!Next]_(JobOf!vars)
<1> USE JobAssumption
<1> DEFINE Same == /\ pc \notin Final /\ Recorded' = Recorded /\ done' = done
                   /\ pc' = "finished" /\ cause' = "none" => Recorded = NTasks
<1>0. pc' \in Steps
  BY DEF TypeOK
<1>s. Same => [JobOf!Next]_(JobOf!vars)
  BY <1>0, SameRecord
<1> HIDE DEF Same
<1>1. CASE start
  <2>1. Same
    BY <1>1 DEF start, place, ckptVars, past, Same, Recorded,
       read_checkpoint, NoFile, Final, AlignInv, LoopSteps, TaskSteps,
       WaitSteps, TypeOK
  <2> QED
    BY <2>1, <1>s
<1>2. CASE unzip
  <2>1. Same
    BY <1>2 DEF unzip, Goto, place, ckptVars, past, Same, Recorded,
       read_checkpoint, NoFile, Final, AlignInv, LoopSteps, TaskSteps,
       WaitSteps, TypeOK
  <2> QED
    BY <2>1, <1>s
<1>3. CASE startManage
  <2>1. Same
    BY <1>3 DEF startManage, Goto, Raise, RaiseOther, place, ckptVars, past, Same,
       Recorded, read_checkpoint, NoFile, Final, AlignInv, LoopSteps,
       TaskSteps, WaitSteps, TypeOK
  <2> QED
    BY <2>1, <1>s
<1>4. CASE waitManage
  <2>1. Same
    BY <1>4 DEF waitManage, Goto, Raise, Retry, place, ckptVars, past,
       Same, Recorded, read_checkpoint, NoFile, Final, AlignInv, LoopSteps,
       TaskSteps, WaitSteps, TypeOK
  <2> QED
    BY <2>1, <1>s
<1>5. CASE nextTask
  <2>1. Same
    BY <1>5 DEF nextTask, run, Goto, Raise, RaiseOther, place, ckptVars, past, Same,
       Recorded, read_checkpoint, NoFile, Final, AlignInv, LoopSteps,
       TaskSteps, WaitSteps, TypeOK
  <2> QED
    BY <2>1, <1>s
<1>6. CASE boot
  <2>1. Same
    BY <1>6 DEF boot, Goto, Raise, RaiseOther, place, ckptVars, past, Same,
       Recorded, read_checkpoint, NoFile, Final, AlignInv, LoopSteps,
       TaskSteps, WaitSteps, TypeOK
  <2> QED
    BY <2>1, <1>s
<1>7. CASE connect
  <2>1. Same
    BY <1>7 DEF connect, Goto, Raise, Retry, PingUntil, place, ckptVars,
       past, Same, Recorded, read_checkpoint, NoFile, Final, AlignInv,
       LoopSteps, TaskSteps, WaitSteps, TypeOK
  <2> QED
    BY <2>1, <1>s
<1>8. CASE copy
  <2>1. Same
    BY <1>8 DEF copy, Goto, Raise, RaiseOther, CopyThen, place, ckptVars,
       past, Same, Recorded, read_checkpoint, NoFile, Final, AlignInv,
       LoopSteps, TaskSteps, WaitSteps, TypeOK
  <2> QED
    BY <2>1, <1>s
<1>9. CASE runCmd
  <2>1. Same
    BY <1>9 DEF runCmd, Goto, Raise, Retry, place, ckptVars, past, Same,
       Recorded, read_checkpoint, NoFile, Final, AlignInv, LoopSteps,
       TaskSteps, WaitSteps, TypeOK
  <2> QED
    BY <2>1, <1>s
<1>10. CASE poll
  <2>1. Same
    BY <1>10 DEF poll, Goto, Raise, RaiseOther, place, ckptVars, past,
       Same, Recorded, read_checkpoint, NoFile, Final, AlignInv, LoopSteps,
       TaskSteps, WaitSteps, TypeOK
  <2> QED
    BY <2>1, <1>s
<1>11. CASE quit
  <2>1. Same
    BY <1>11 DEF quit, place, ckptVars, past, Same, Recorded,
       read_checkpoint, NoFile, Final, AlignInv, LoopSteps, TaskSteps,
       WaitSteps, TypeOK
  <2> QED
    BY <2>1, <1>s
<1>12. CASE suspendOrResume
  <2>1. Same
    BY <1>12 DEF suspendOrResume, Goto, Raise, RaiseOther, place, ckptVars,
       past, Same, Recorded, read_checkpoint, NoFile, Final, AlignInv,
       LoopSteps, TaskSteps, WaitSteps, TypeOK
  <2> QED
    BY <2>1, <1>s
<1>13. CASE checkpoint
  <2>1. Same
    BY <1>13 DEF checkpoint, Goto, Raise, RaiseOther, place, ckptVars,
       past, Same, Recorded, read_checkpoint, NoFile, Final, AlignInv,
       LoopSteps, TaskSteps, WaitSteps, TypeOK
  <2> QED
    BY <2>1, <1>s
<1>14. CASE send_status_message
  <2>1. Same
    BY <1>14 DEF send_status_message, Goto, Raise, RaiseOther, place,
       ckptVars, past, Same, Recorded, read_checkpoint, NoFile, Final,
       AlignInv, LoopSteps, TaskSteps, WaitSteps, TypeOK
  <2> QED
    BY <2>1, <1>s
<1>15. CASE reconnect
  <2>1. Same
    BY <1>15 DEF reconnect, Goto, Raise, Retry, PingUntil, place, ckptVars,
       past, Same, Recorded, read_checkpoint, NoFile, Final, AlignInv,
       LoopSteps, TaskSteps, WaitSteps, TypeOK
  <2> QED
    BY <2>1, <1>s
<1>16. CASE copyBack
  <2>1. Same
    BY <1>16 DEF copyBack, Goto, Raise, RaiseOther, CopyThen, place,
       ckptVars, past, Same, Recorded, read_checkpoint, NoFile, Final,
       AlignInv, LoopSteps, TaskSteps, WaitSteps, TypeOK
  <2> QED
    BY <2>1, <1>s
<1>17. CASE saveState
  <2>1. Same
    BY <1>17 DEF saveState, Goto, Raise, RaiseOther, place, ckptVars, past,
       Same, Recorded, read_checkpoint, NoFile, Final, AlignInv, LoopSteps,
       TaskSteps, WaitSteps, TypeOK
  <2> QED
    BY <2>1, <1>s
<1>18. CASE record
  <2>1. Recorded = i /\ Recorded' = Recorded /\ i \in 0..NTasks /\ i < NTasks
    BY <1>18 DEF record, Goto, place, Recorded, read_checkpoint, AlignInv,
       ProgressInv, LoopSteps, TaskSteps, WaitSteps, TypeOK
  <2>2. Outcome = "none" /\ Outcome' = "none" /\ done' = done \cup {i}
    BY <1>18 DEF record, Goto, Outcome, Final
  <2> QED
    BY <2>1, <2>2 DEF JobOf!Next, JobOf!Do
<1>19. CASE truncate
  <2>1. Same
    BY <1>19 DEF truncate, Goto, Raise, RaiseOther, EmptyFile, place,
       ckptVars, past, Same, Recorded, read_checkpoint, NoFile, Final,
       AlignInv, LoopSteps, TaskSteps, WaitSteps, TypeOK
  <2> QED
    BY <2>1, <1>s
<1>20. CASE write
  <2>1. pc = "write" /\ Recorded = i /\ done' = done /\ Outcome = "none"
    BY <1>20 DEF write, Recorded, Outcome, Final
  <2>2. CASE Goto("status") \/ Goto("task")
    <3>1. Recorded' = ntasks /\ Outcome' = "none"
      BY <1>20, <2>2 DEF write, Goto, Raise, Checkpoint, Recorded,
         read_checkpoint, Outcome, Final
    <3>2. ntasks \in {i, i + 1} /\ (ntasks = i + 1 => i \in done)
      BY <2>1 DEF ProgressInv
    <3>3. CASE ntasks = i
      BY <2>1, <3>1, <3>3 DEF JobOf!vars
    <3>4. CASE ntasks = i + 1
      BY <2>1, <3>1, <3>2, <3>4 DEF JobOf!Next, JobOf!Record
    <3> QED
      BY <3>2, <3>3, <3>4
  <2>3. CASE Raise(Errno) /\ UNCHANGED file
    <3>1. Recorded' = 0 /\ Outcome' = "none"
      BY <2>1, <2>3 DEF Raise, AlignInv, Recorded, read_checkpoint, NoFile,
         Outcome, Final
    <3> QED
      BY <2>1, <3>1 DEF JobOf!Next, JobOf!Lose
  <2> QED
    BY <1>20, <2>2, <2>3 DEF write
<1>21. CASE finally
  <2>1. Same
    BY <1>21 DEF finally, place, ckptVars, past, Same, Recorded,
       read_checkpoint, NoFile, Final, AlignInv, LoopSteps, TaskSteps,
       WaitSteps, TypeOK
  <2> QED
    BY <2>1, <1>s
<1>22. CASE appEnds
  BY <1>22 DEF appEnds, place, ckptVars, past, Recorded, read_checkpoint, Outcome,
     JobOf!vars
<1>23. CASE manageEnds
  BY <1>23 DEF manageEnds, place, ckptVars, past, Recorded, read_checkpoint, Outcome,
     JobOf!vars
<1>24. CASE client
  BY <1>24 DEF client, place, ckptVars, past, Recorded, read_checkpoint, Outcome,
     JobOf!vars
<1>25. CASE crash
  <2>1. Outcome = "none" /\ Outcome' = "none" /\ done' = done
    BY <1>25 DEF crash, Outcome, Final
  <2>2. Recorded' = read_checkpoint.n
    BY <1>25 DEF crash, Recorded, read_checkpoint
  <2>3. CASE pc = "write"
    <3>1. Recorded' = 0
      BY <2>2, <2>3 DEF AlignInv, read_checkpoint, NoFile
    <3> QED
      BY <2>1, <3>1 DEF JobOf!Next, JobOf!Lose
  <2>4. CASE pc # "write"
    BY <2>1, <2>2, <2>4 DEF Recorded, JobOf!vars
  <2> QED
    BY <2>3, <2>4
<1>26. CASE UNCHANGED vars
  BY <1>26 DEF vars, place, ckptVars, past, Recorded, read_checkpoint,
     Outcome, JobOf!vars
<1>27. CASE hang
  <2>1. Same
    BY <1>27 DEF hang, Calling, Goto, place, ckptVars, past, Same, Recorded,
       read_checkpoint, NoFile, Final, TypeOK
  <2> QED
    BY <2>1, <1>s
<1> QED
  BY <1>1, <1>2, <1>3, <1>4, <1>5, <1>6, <1>7, <1>8, <1>9, <1>10, <1>11,
     <1>12, <1>13, <1>14, <1>15, <1>16, <1>17, <1>18, <1>19, <1>20, <1>21,
     <1>22, <1>23, <1>24, <1>25, <1>26, <1>27 DEF Next, Step, Terminated

\* Over any crashes, failures and requests, VMWrapper does the tasks of the job
\* in their order, records each after it is done, and ends a run that raised
\* nothing with all of them recorded.
THEOREM JobImplemented == Spec => ImplementsJob
<1>1. Init => JobOf!Init
  BY DEF Init, JobOf!Init, Recorded, read_checkpoint, NoFile, Outcome, Final
<1>2. /\ TypeOK /\ TypeOK' /\ ProgressInv /\ AlignInv /\ AlignInv'
      /\ [Next]_vars
      => [JobOf!Next]_(JobOf!vars)
  BY JobStep
<1> QED
  BY <1>1, <1>2, TypeCorrect, Progress, Aligned, PTL
     DEF Spec, ImplementsJob, JobOf!Spec

-----------------------------------------------------------------------------
(* Stopping and resuming a task *)

\* The invariant behind SuspendTracks: a task starts resumed, on a machine that
\* runs, and the flag tells its state until the wrapper no longer waits for it.
SuspendInv ==
  /\ pc = "boot" => OnVM /\ ~suspended
  /\ pc \in {"connect", "copy", "runCmd"} =>
       OnVM /\ ~suspended /\ vmState[TaskVM[i]] = "running"
  /\ pc \in WaitSteps \/ (pc \in {"truncate", "write"} /\ ntasks = i) =>
       /\ OnVM => (suspended <=> vmState[TaskVM[i]] = "paused")
       /\ ~OnVM => (suspended <=> stopped)

\* Every step preserves SuspendInv.
LEMMA SuspendNext ==
  ASSUME TypeOK, Indexed, SuspendInv, [Next]_vars
  PROVE  SuspendInv'
<1> USE JobAssumption DEF TypeOK, Indexed, SuspendInv, OnVM, Tasks, WaitSteps,
        TaskSteps, VMStates
<1>1. CASE start
  BY <1>1 DEF start, place, ckptVars, worldVars, taskVars
<1>2. CASE unzip
  BY <1>2 DEF unzip, Goto, place, ckptVars, worldVars, taskVars
<1>3. CASE startManage
  BY <1>3 DEF startManage, Goto, Raise, RaiseOther, place, ckptVars, worldVars,
     taskVars
<1>4. CASE waitManage
  BY <1>4 DEF waitManage, Goto, Raise, Retry, place, ckptVars, worldVars,
     taskVars
<1>5. CASE nextTask
  BY <1>5 DEF nextTask, run, Goto, Raise, RaiseOther, place, ckptVars, worldVars,
     taskVars
<1>6. CASE boot
  BY <1>6 DEF boot, Goto, Raise, RaiseOther, VMBecomes, place, ckptVars,
     worldVars, taskVars
<1>7. CASE connect
  BY <1>7 DEF connect, Goto, Raise, Retry, PingUntil, place, ckptVars,
     worldVars, taskVars
<1>8. CASE copy
  BY <1>8 DEF copy, Goto, Raise, RaiseOther, CopyThen, place, ckptVars,
     worldVars, taskVars
<1>9. CASE runCmd
  BY <1>9 DEF runCmd, Goto, Raise, Retry, place, ckptVars, worldVars,
     taskVars
<1>10. CASE poll
  BY <1>10 DEF poll, Goto, Raise, RaiseOther, place, ckptVars, worldVars,
     taskVars
<1>11. CASE quit
  BY <1>11 DEF quit, VMBecomes, place, ckptVars, worldVars, taskVars
<1>12. CASE suspendOrResume
  BY <1>12 DEF suspendOrResume, Goto, Raise, RaiseOther, VMBecomes, place,
     ckptVars, worldVars, taskVars
<1>13. CASE checkpoint
  BY <1>13 DEF checkpoint, Goto, Raise, RaiseOther, place, ckptVars,
     worldVars, taskVars
<1>14. CASE send_status_message
  BY <1>14 DEF send_status_message, Goto, Raise, RaiseOther, place,
     ckptVars, worldVars, taskVars
<1>15. CASE reconnect
  BY <1>15 DEF reconnect, Goto, Raise, Retry, PingUntil, place, ckptVars,
     worldVars, taskVars
<1>16. CASE copyBack
  BY <1>16 DEF copyBack, Goto, Raise, RaiseOther, CopyThen, place,
     ckptVars, worldVars, taskVars
<1>17. CASE saveState
  BY <1>17 DEF saveState, Goto, Raise, RaiseOther, VMBecomes, place,
     ckptVars, worldVars, taskVars
<1>18. CASE record
  BY <1>18 DEF record, Goto, place, ckptVars, worldVars, taskVars
<1>19. CASE truncate
  BY <1>19 DEF truncate, Goto, Raise, RaiseOther, EmptyFile, place,
     ckptVars, worldVars, taskVars
<1>20. CASE write
  BY <1>20 DEF write, Goto, Raise, Checkpoint, place, ckptVars, worldVars,
     taskVars
<1>21. CASE finally
  BY <1>21 DEF finally, place, ckptVars, worldVars, taskVars
<1>22. CASE appEnds
  BY <1>22 DEF appEnds, place, ckptVars, worldVars, taskVars
<1>23. CASE manageEnds
  BY <1>23 DEF manageEnds, place, ckptVars, worldVars, taskVars
<1>24. CASE client
  BY <1>24 DEF client, place, ckptVars, worldVars, taskVars
<1>25. CASE crash
  BY <1>25 DEF crash, place, ckptVars, worldVars, taskVars
<1>26. CASE UNCHANGED vars
  BY <1>26 DEF vars, place, ckptVars, worldVars, taskVars
<1>27. CASE hang
  BY <1>27 DEF hang, Goto, place, ckptVars, worldVars, taskVars
<1> QED
  BY <1>1, <1>2, <1>3, <1>4, <1>5, <1>6, <1>7, <1>8, <1>9, <1>10, <1>11,
     <1>12, <1>13, <1>14, <1>15, <1>16, <1>17, <1>18, <1>19, <1>20, <1>21,
     <1>22, <1>23, <1>24, <1>25, <1>26, <1>27 DEF Next, Step, Terminated

\* The flag of the waiting loop tells whether the application is stopped, so no
\* resume is left out and no task is stopped twice, whatever fails.
THEOREM SuspendIsTracked == Spec => []SuspendTracks
<1>1. Init => SuspendInv
  BY DEF Init, SuspendInv, WaitSteps
<1>2. TypeOK /\ Indexed /\ SuspendInv /\ [Next]_vars => SuspendInv'
  BY SuspendNext
<1>3. TypeOK /\ SuspendInv => SuspendTracks
  <2> SUFFICES ASSUME TypeOK, SuspendInv, pc \in WaitSteps
               PROVE  suspended = IF OnVM THEN vmState[TaskVM[i]] = "paused"
                                          ELSE stopped
    BY DEF SuspendTracks
  <2>1. suspended \in BOOLEAN /\ stopped \in BOOLEAN
    BY DEF TypeOK
  <2>2. /\ OnVM => (suspended <=> vmState[TaskVM[i]] = "paused")
        /\ ~OnVM => (suspended <=> stopped)
    BY DEF SuspendInv
  <2> QED
    BY <2>1, <2>2, Zenon
<1> QED
  BY <1>1, <1>2, <1>3, TypeCorrect, PTL DEF Spec
=============================================================================
