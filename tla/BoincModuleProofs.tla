-------------------------- MODULE BoincModuleProofs --------------------------
(***************************************************************************)
(* Proofs about BoincModule: what the bindings say of the initialisation,  *)
(* and that a program initialised by boinc_init_options keeps control of   *)
(* itself; for any options it may pass, any queue and any critical         *)
(* sections.                                                               *)
(***************************************************************************)
EXTENDS BoincModule, TLAPS

\* A call that the program makes changes nothing of its control.
Simple ==
  \/ bindings_boinc_resolve_filename \/ bindings_boinc_fopen
  \/ bindings_boinc_time_to_checkpoint \/ bindings_boinc_checkpoint_completed
  \/ bindings_boinc_fraction_done \/ bindings_boinc_get_fraction_done
  \/ bindings_boinc_is_standalone
  \/ bindings_boinc_need_network \/ bindings_boinc_network_poll
  \/ bindings_boinc_network_done
  \/ bindings_boinc_ops_per_cpu_sec \/ bindings_boinc_ops_cumulative
  \/ bindings_boinc_upload_status
  \/ bindings_boinc_send_trickle_up \/ bindings_boinc_receive_trickle_down
  \/ bindings_boinc_report_app_status
  \/ badArguments

\* The simple calls leave everything but their answer, and an exception that is
\* set, alone.
LEMMA SimpleCall ==
  Simple => /\ Call
            /\ answer' \in {"None", "zero", "value", "raised"}
            /\ pyError' => pyError
            /\ pyError \in BOOLEAN => pyError' \in BOOLEAN
<1> USE DEF Simple, badArguments, RaiseError, Return, Void, Query,
      bindings_boinc_resolve_filename, bindings_boinc_fopen,
      bindings_boinc_time_to_checkpoint, bindings_boinc_checkpoint_completed,
      bindings_boinc_fraction_done, bindings_boinc_get_fraction_done,
      bindings_boinc_is_standalone, bindings_boinc_need_network,
      bindings_boinc_network_poll, bindings_boinc_network_done,
      bindings_boinc_ops_per_cpu_sec, bindings_boinc_ops_cumulative,
      bindings_boinc_upload_status, bindings_boinc_send_trickle_up,
      bindings_boinc_receive_trickle_down, bindings_boinc_report_app_status
<1>1. Simple => Call /\ answer' \in {"None", "zero", "value", "raised"}
  OBVIOUS
<1>2. Simple => UNCHANGED pyError \/ pyError' = FALSE
  OBVIOUS
<1> HIDE DEF Simple
<1> QED
  BY <1>1, <1>2, Zenon

\* What the program and the client do, in the cases the proofs tell apart
LEMMA Cases ==
  Next =>
    \/ Simple
    \/ bindings_boinc_init \/ bindings_boinc_init_options \/ surface
    \/ bindings_boinc_finish
    \/ bindings_boinc_begin_critical_section \/ bindings_boinc_end_critical_section
    \/ bindings_boinc_upload_file \/ bindings_boinc_get_status
    \/ get_msg \/ missHeartbeat \/ direct_process_action
    \/ request \/ msg_queue_poll \/ uploadEnds \/ trickleDown \/ clientDies
BY DEF Next, BoincMethods, Timer, Simple

-----------------------------------------------------------------------------

\* The invariant behind InControl: only boinc_init sets direct_process_action.
ControlInv ==
  /\ InControl
  /\ "boinc_init" \notin initBy => ~options.direct

\* Every step keeps ControlInv.
LEMMA ControlNext == ControlInv /\ [Next]_vars => ControlInv'
<1> SUFFICES ASSUME ControlInv, [Next]_vars
             PROVE  ControlInv'
  OBVIOUS
<1> USE DEF ControlInv, InControl
<1>1. CASE bindings_boinc_init
  BY <1>1 DEF bindings_boinc_init, runtime
<1>2. CASE bindings_boinc_init_options
  <2>1. process' = process /\ initBy \subseteq initBy'
    BY <1>2 DEF bindings_boinc_init_options, runtime
  <2>2. options' = options \/ ~options'.direct
    BY <1>2, ArgumentAssumption DEF bindings_boinc_init_options, runtime
  <2> QED
    BY <2>1, <2>2, Zenon
<1>3. CASE bindings_boinc_finish
  BY <1>3 DEF bindings_boinc_finish, runtime
<1>4. CASE direct_process_action
  BY <1>4 DEF direct_process_action, runtime
<1>5. CASE \/ Simple \/ surface
           \/ bindings_boinc_begin_critical_section
           \/ bindings_boinc_end_critical_section
           \/ bindings_boinc_upload_file \/ bindings_boinc_get_status
           \/ get_msg \/ missHeartbeat
           \/ request \/ msg_queue_poll \/ uploadEnds \/ trickleDown
           \/ clientDies \/ UNCHANGED vars
  <2>1. UNCHANGED <<process, options, initBy>>
    BY <1>5, SimpleCall
       DEF Call, surface, bindings_boinc_begin_critical_section,
           bindings_boinc_end_critical_section, bindings_boinc_upload_file,
           bindings_boinc_get_status, get_msg, missHeartbeat, request,
           msg_queue_poll, uploadEnds, trickleDown, clientDies, runtime, vars
  <2> QED
    BY <2>1
<1> QED
  BY <1>1, <1>2, <1>3, <1>4, <1>5, Cases

\* The library neither stops nor ends a program that was initialised by
\* boinc_init_options only, since memset leaves direct_process_action at zero.
THEOREM StaysInControl == Spec => []InControl
<1>1. Init => ControlInv
  BY DEF Init, ControlInv, InControl, NoOptions
<1>2. ControlInv => InControl
  BY DEF ControlInv
<1> QED
  BY <1>1, <1>2, ControlNext, PTL DEF Spec

-----------------------------------------------------------------------------

\* The invariant behind ToldTruly: until the program is told that it is
\* initialised, the library has no timer thread; and an exception that is left
\* set is that of a program misled by boinc_init_options.
ToldInv ==
  /\ ToldTruly
  /\ told # "ok" => lib # "ready"
  /\ pyError => misled /\ told = "ok"

\* Every step keeps ToldInv.
LEMMA ToldNext == ToldInv /\ [Next]_vars => ToldInv'
<1> SUFFICES ASSUME ToldInv, [Next]_vars PROVE ToldInv'
  OBVIOUS
<1> USE DEF ToldInv, ToldTruly, Return, RaiseError, runtime
<1>1. CASE bindings_boinc_init
  BY <1>1 DEF bindings_boinc_init, CanInit
<1>2. CASE bindings_boinc_init_options
  BY <1>2 DEF bindings_boinc_init_options, CanInit
<1>3. CASE surface
  BY <1>3 DEF surface
<1>4. CASE \/ bindings_boinc_finish \/ bindings_boinc_begin_critical_section
           \/ bindings_boinc_end_critical_section
           \/ bindings_boinc_upload_file \/ bindings_boinc_get_status
  <2>1. UNCHANGED <<told, lib, misled>> /\ (pyError' => pyError)
    BY <1>4 DEF bindings_boinc_finish, bindings_boinc_begin_critical_section,
                bindings_boinc_end_critical_section, bindings_boinc_upload_file,
                bindings_boinc_get_status
  <2> QED
    BY <2>1
<1>5. CASE Simple
  <2>1. UNCHANGED <<told, lib, misled>> /\ (pyError' => pyError)
    BY <1>5, SimpleCall DEF Call
  <2> QED
    BY <2>1
<1>6. CASE \/ get_msg \/ missHeartbeat \/ direct_process_action
           \/ request \/ msg_queue_poll \/ uploadEnds \/ trickleDown
           \/ clientDies \/ UNCHANGED vars
  <2>1. UNCHANGED <<program, lib, misled>>
    BY <1>6 DEF get_msg, missHeartbeat, direct_process_action, request,
                msg_queue_poll, uploadEnds, trickleDown, clientDies, vars
  <2> QED
    BY <2>1 DEF program
<1> QED
  BY <1>1, <1>2, <1>3, <1>4, <1>5, <1>6, Cases

\* A program that was told so is initialised, with a timer thread, unless it was
\* boinc_init_options that said so to wrong arguments.
THEOREM Truly == Spec => []ToldTruly
<1>1. Init => ToldInv
  BY DEF Init, ToldInv, ToldTruly
<1>2. ToldInv => ToldTruly
  BY DEF ToldInv
<1> QED
  BY <1>1, <1>2, ToldNext, PTL DEF Spec

-----------------------------------------------------------------------------
(* Types, of the three sides *)

ProgramTypeOK ==
  /\ told \in {"nothing", "ok", "error"}
  /\ answer \in {"None", "zero", "value", "raised"}
  /\ pyError \in BOOLEAN
  /\ seen \in Flags

LibraryTypeOK ==
  /\ status \in Flags
  /\ process \in {"running", "stopped", "exited", "finished"}
  /\ lib \in {"none", "options", "ready"}
  /\ options \in OptionRecord
  /\ depth \in (-MaxDepth)..MaxDepth
  /\ upload \in {"kept", "asked", "uploaded"}
  /\ initBy \subseteq {"boinc_init", "boinc_init_options"}
  /\ misled \in BOOLEAN

ClientTypeOK ==
  /\ alive \in BOOLEAN /\ mail \in BOOLEAN
  /\ queue \in Seq(Requests) /\ Len(queue) <= MaxQueue
  /\ channel \in Requests \cup {"empty"}
  /\ wanted \in [suspended : BOOLEAN, quit : BOOLEAN]

\* The types are those of the three sides.
LEMMA TypeParts == TypeOK <=> ProgramTypeOK /\ LibraryTypeOK /\ ClientTypeOK
BY DEF TypeOK, ProgramTypeOK, LibraryTypeOK, ClientTypeOK

\* A step of the program keeps the types of the program.
LEMMA ProgramTypes ==
  TypeOK /\ [Next]_vars => ProgramTypeOK'
<1> SUFFICES ASSUME TypeOK, [Next]_vars
             PROVE  ProgramTypeOK'
  OBVIOUS
<1> USE TypeParts DEF ProgramTypeOK, Return, RaiseError
<1>1. CASE bindings_boinc_init \/ bindings_boinc_init_options \/ surface
  BY <1>1 DEF bindings_boinc_init, bindings_boinc_init_options, surface
<1>2. CASE \/ bindings_boinc_finish \/ bindings_boinc_begin_critical_section
           \/ bindings_boinc_end_critical_section \/ bindings_boinc_upload_file
  BY <1>2 DEF bindings_boinc_finish, bindings_boinc_begin_critical_section,
              bindings_boinc_end_critical_section, bindings_boinc_upload_file
<1>3. CASE bindings_boinc_get_status
  BY <1>3 DEF bindings_boinc_get_status, LibraryTypeOK
<1>4. CASE Simple
  BY <1>4, SimpleCall DEF Call
<1>5. CASE \/ get_msg \/ missHeartbeat \/ direct_process_action
           \/ request \/ msg_queue_poll \/ uploadEnds \/ trickleDown
           \/ clientDies \/ UNCHANGED vars
  <2>1. UNCHANGED program
    BY <1>5 DEF get_msg, missHeartbeat, direct_process_action, request,
                msg_queue_poll, uploadEnds, trickleDown, clientDies, vars
  <2> QED
    BY <2>1 DEF program
<1> QED
  BY <1>1, <1>2, <1>3, <1>4, <1>5, Cases

\* A step keeps the types of the library.
LEMMA LibraryTypes ==
  TypeOK /\ [Next]_vars => LibraryTypeOK'
<1> SUFFICES ASSUME TypeOK, [Next]_vars
             PROVE  LibraryTypeOK'
  OBVIOUS
<1> USE TypeParts, BoundAssumption DEF LibraryTypeOK, runtime
<1>1. CASE bindings_boinc_init
  <2>1. boinc_options_defaults \in OptionRecord
    BY DEF boinc_options_defaults, OptionRecord
  <2>2. options' \in OptionRecord
    BY <1>1, <2>1 DEF bindings_boinc_init
  <2> QED
    BY <1>1, <2>2 DEF bindings_boinc_init
<1>2. CASE bindings_boinc_init_options
  BY <1>2, ArgumentAssumption DEF bindings_boinc_init_options
<1>3. CASE bindings_boinc_finish \/ bindings_boinc_upload_file
  BY <1>3 DEF bindings_boinc_finish, bindings_boinc_upload_file
<1>4. CASE \/ bindings_boinc_begin_critical_section
           \/ bindings_boinc_end_critical_section
  BY <1>4 DEF bindings_boinc_begin_critical_section,
              bindings_boinc_end_critical_section
<1>5. CASE get_msg
  BY <1>5 DEF get_msg, Flags, ClientTypeOK, Requests
<1>6. CASE missHeartbeat
  BY <1>6 DEF missHeartbeat, Flags
<1>7. CASE direct_process_action
  BY <1>7 DEF direct_process_action
<1>8. CASE uploadEnds
  BY <1>8 DEF uploadEnds
<1>9. CASE \/ Simple \/ surface \/ bindings_boinc_get_status
           \/ request \/ msg_queue_poll \/ trickleDown \/ clientDies
           \/ UNCHANGED vars
  <2>1. UNCHANGED <<process, runtime, status, depth, upload>>
    BY <1>9, SimpleCall
       DEF Call, surface, bindings_boinc_get_status, request, msg_queue_poll,
           trickleDown, clientDies, vars
  <2> QED
    BY <2>1
<1> QED
  BY <1>1, <1>2, <1>3, <1>4, <1>5, <1>6, <1>7, <1>8, <1>9, Cases

\* A step keeps the types of the client.
LEMMA ClientTypes ==
  TypeOK /\ [Next]_vars => ClientTypeOK'
<1> SUFFICES ASSUME TypeOK, [Next]_vars
             PROVE  ClientTypeOK'
  OBVIOUS
<1> USE TypeParts, BoundAssumption DEF ClientTypeOK
<1>1. CASE get_msg
  BY <1>1 DEF get_msg
<1>2. CASE request
  <2>1. PICK r \in Requests :
          /\ queue' = Append(queue, r)
          /\ wanted' = CASE r = "suspend" -> [wanted EXCEPT !.suspended = TRUE]
                         [] r = "resume" -> [wanted EXCEPT !.suspended = FALSE]
                         [] r = "quit" -> [wanted EXCEPT !.quit = TRUE]
    BY <1>2 DEF request
  <2>2. queue' \in Seq(Requests) /\ Len(queue') <= MaxQueue
    BY <1>2, <2>1 DEF request
  <2>3. wanted' \in {[wanted EXCEPT !.suspended = TRUE],
                     [wanted EXCEPT !.suspended = FALSE],
                     [wanted EXCEPT !.quit = TRUE]}
    BY <2>1 DEF Requests
  <2>4. wanted' \in [suspended : BOOLEAN, quit : BOOLEAN]
    BY <2>3
  <2>5. UNCHANGED <<alive, mail, channel>>
    BY <1>2 DEF request
  <2> QED
    BY <2>2, <2>4, <2>5
<1>3. CASE msg_queue_poll
  BY <1>3 DEF msg_queue_poll
<1>4. CASE trickleDown
  BY <1>4 DEF trickleDown
<1>5. CASE clientDies
  BY <1>5 DEF clientDies
<1>6. CASE \/ Simple
           \/ bindings_boinc_init \/ bindings_boinc_init_options \/ surface
           \/ bindings_boinc_finish
           \/ bindings_boinc_begin_critical_section
           \/ bindings_boinc_end_critical_section
           \/ bindings_boinc_upload_file \/ bindings_boinc_get_status
           \/ missHeartbeat \/ direct_process_action \/ uploadEnds
           \/ UNCHANGED vars
  <2>1. UNCHANGED client
    BY <1>6, SimpleCall
       DEF Call, bindings_boinc_init, bindings_boinc_init_options, surface,
           bindings_boinc_finish, bindings_boinc_begin_critical_section,
           bindings_boinc_end_critical_section, bindings_boinc_upload_file,
           bindings_boinc_get_status, missHeartbeat, direct_process_action,
           uploadEnds, vars
  <2> QED
    BY <2>1 DEF client
<1> QED
  BY <1>1, <1>2, <1>3, <1>4, <1>5, <1>6, Cases

\* All variables of program, library and client keep their types: every binding
\* answers with a value or an exception, and the queue stays within its bound.
THEOREM TypeCorrect == Spec => []TypeOK
<1>1. Init => TypeOK
  <2>1. NoFlags \in Flags /\ NoOptions \in OptionRecord
    BY DEF NoFlags, Flags, NoOptions, OptionRecord
  <2>2. [suspended |-> FALSE, quit |-> FALSE] \in [suspended : BOOLEAN, quit : BOOLEAN]
    OBVIOUS
  <2>3. Init => ProgramTypeOK
    BY <2>1 DEF Init, ProgramTypeOK
  <2>4. Init => LibraryTypeOK
    <3>1. Init => depth \in (-MaxDepth)..MaxDepth
      BY BoundAssumption DEF Init
    <3>2. Init => misled \in BOOLEAN
      BY Zenon DEF Init
    <3> QED
      BY <2>1, <3>1, <3>2 DEF Init, LibraryTypeOK
  <2>5. Init => ClientTypeOK
    <3>1. <<>> \in Seq(Requests) /\ Len(<<>>) <= MaxQueue
      BY BoundAssumption
    <3>2. Init => queue \in Seq(Requests) /\ Len(queue) <= MaxQueue
      BY <3>1 DEF Init
    <3>3. Init => wanted \in [suspended : BOOLEAN, quit : BOOLEAN]
      BY <2>2, Zenon DEF Init
    <3>4. Init => /\ alive \in BOOLEAN /\ mail \in BOOLEAN
                  /\ channel \in Requests \cup {"empty"}
      BY Zenon DEF Init
    <3> QED
      BY <3>2, <3>3, <3>4, Zenon DEF ClientTypeOK
  <2> QED
    BY <2>3, <2>4, <2>5, TypeParts
<1> QED
  BY <1>1, ProgramTypes, LibraryTypes, ClientTypes, TypeParts, PTL DEF Spec

-----------------------------------------------------------------------------
(* The way of a request *)

Turns == {"suspend", "resume"}

\* The i-th request that waits is the last one to suspend or resume.
LastTurn(q, i) ==
  q[i] \in Turns /\ \A j \in (i + 1)..Len(q) : q[j] \notin Turns

NoTurn(q) == \A i \in 1..Len(q) : q[i] \notin Turns

\* Nothing the client wishes is lost, doubled or overtaken between its queue,
\* the mailbox and the status that the binding returns: what waits last, or else
\* is in the mailbox, or else in the status, is the client's present wish.  So
\* when nothing is under way the program is told what the client wants.
WishUnderWay ==
  /\ \A i \in 1..Len(queue) :
       LastTurn(queue, i) => (wanted.suspended <=> queue[i] = "suspend")
  /\ NoTurn(queue) =>
       /\ channel \in Turns => (wanted.suspended <=> channel = "suspend")
       /\ channel \notin Turns => (wanted.suspended <=> status.suspended)
  /\ wanted.quit <=> \/ status.quit \/ channel = "quit"
                     \/ \E i \in 1..Len(queue) : queue[i] = "quit"

\* The timer thread notes what it takes from the mailbox.
LEMMA WishRead == TypeOK /\ WishUnderWay /\ get_msg => WishUnderWay'
<1> SUFFICES ASSUME TypeOK, WishUnderWay, get_msg PROVE WishUnderWay'
  OBVIOUS
<1>1. UNCHANGED <<queue, wanted>> /\ channel' = "empty"
  BY DEF get_msg
<1>2. channel \in Requests /\ status \in Flags
  BY DEF get_msg, TypeOK
<1>3. CASE channel = "quit"
  <2>1. status' = [status EXCEPT !.quit = TRUE]
    BY <1>3 DEF get_msg
  <2>2. status'.quit /\ (status'.suspended <=> status.suspended)
    BY <1>2, <2>1 DEF Flags
  <2> QED
    BY <1>1, <1>3, <2>2 DEF WishUnderWay, Turns
<1>4. CASE channel = "suspend"
  <2>1. status' = [status EXCEPT !.suspended = TRUE]
    BY <1>4 DEF get_msg
  <2>2. status'.suspended /\ (status'.quit <=> status.quit)
    BY <1>2, <2>1 DEF Flags
  <2> QED
    BY <1>1, <1>4, <2>2 DEF WishUnderWay, Turns
<1>5. CASE channel = "resume"
  <2>1. status' = [status EXCEPT !.suspended = FALSE]
    BY <1>5 DEF get_msg
  <2>2. ~status'.suspended /\ (status'.quit <=> status.quit)
    BY <1>2, <2>1 DEF Flags
  <2> QED
    BY <1>1, <1>5, <2>2 DEF WishUnderWay, Turns
<1> QED
  BY <1>2, <1>3, <1>4, <1>5 DEF Requests

\* The oldest request moves into the mailbox.
LEMMA WishSent == TypeOK /\ WishUnderWay /\ msg_queue_poll => WishUnderWay'
<1> SUFFICES ASSUME TypeOK, WishUnderWay, msg_queue_poll PROVE WishUnderWay'
  OBVIOUS
<1>1. /\ UNCHANGED <<status, wanted>> /\ channel = "empty"
      /\ channel' = Head(queue) /\ queue' = Tail(queue) /\ queue # <<>>
  BY DEF msg_queue_poll
<1>2. queue \in Seq(Requests) /\ Len(queue) > 0 /\ Len(queue) \in Nat
  BY <1>1 DEF TypeOK
<1>3. /\ Len(queue') = Len(queue) - 1 /\ channel' = queue[1]
      /\ \A i \in 1..Len(queue') : queue'[i] = queue[i + 1]
  BY <1>1, <1>2
<1>4. \A i \in 1..Len(queue') : LastTurn(queue', i) => LastTurn(queue, i + 1)
  <2> SUFFICES ASSUME NEW i \in 1..Len(queue'), LastTurn(queue', i)
               PROVE  LastTurn(queue, i + 1)
    OBVIOUS
  <2>1. queue[i + 1] \in Turns
    BY <1>3 DEF LastTurn
  <2>2. ASSUME NEW j \in (i + 2)..Len(queue) PROVE queue[j] \notin Turns
    <3>1. j - 1 \in (i + 1)..Len(queue') /\ queue'[j - 1] = queue[j]
      BY <1>2, <1>3
    <3> QED
      BY <3>1 DEF LastTurn
  <2>3. (i + 1) + 1 = i + 2
    OBVIOUS
  <2> QED
    BY <2>1, <2>2, <2>3 DEF LastTurn
<1>5. ASSUME NoTurn(queue') PROVE \A j \in 2..Len(queue) : queue[j] \notin Turns
  <2> SUFFICES ASSUME NEW j \in 2..Len(queue) PROVE queue[j] \notin Turns
    OBVIOUS
  <2>1. j - 1 \in 1..Len(queue') /\ queue'[j - 1] = queue[j]
    BY <1>2, <1>3
  <2> QED
    BY <1>5, <2>1 DEF NoTurn
<1>6. \A i \in 1..Len(queue') :
        LastTurn(queue', i) => (wanted'.suspended <=> queue'[i] = "suspend")
  BY <1>1, <1>2, <1>3, <1>4 DEF WishUnderWay
<1>7. ASSUME NoTurn(queue')
      PROVE  /\ channel' \in Turns => (wanted'.suspended <=> channel' = "suspend")
             /\ channel' \notin Turns => (wanted'.suspended <=> status'.suspended)
  <2>1. CASE channel' \in Turns
    <3>1. LastTurn(queue, 1) /\ 1 \in 1..Len(queue)
      BY <1>2, <1>3, <1>5, <1>7, <2>1 DEF LastTurn
    <3> QED
      BY <1>1, <1>3, <2>1, <3>1 DEF WishUnderWay
  <2>2. CASE channel' \notin Turns
    <3>1. NoTurn(queue)
      BY <1>2, <1>3, <1>5, <1>7, <2>2 DEF NoTurn
    <3> QED
      BY <1>1, <2>2, <3>1 DEF WishUnderWay, Turns
  <2> QED
    BY <2>1, <2>2
<1>8. (\E i \in 1..Len(queue) : queue[i] = "quit")
        <=> \/ channel' = "quit"
            \/ \E i \in 1..Len(queue') : queue'[i] = "quit"
  <2>1. ASSUME NEW i \in 1..Len(queue), i # 1
        PROVE  i - 1 \in 1..Len(queue') /\ queue'[i - 1] = queue[i]
    BY <1>2, <1>3, <2>1
  <2>2. ASSUME NEW i \in 1..Len(queue')
        PROVE  i + 1 \in 1..Len(queue) /\ queue'[i] = queue[i + 1]
    BY <1>2, <1>3
  <2>3. 1 \in 1..Len(queue)
    BY <1>2
  <2> QED
    BY <1>3, <2>1, <2>2, <2>3
<1> QED
  BY <1>1, <1>6, <1>7, <1>8 DEF WishUnderWay

\* A new request is the last one, and becomes the wish.
LEMMA WishMade == TypeOK /\ WishUnderWay /\ request => WishUnderWay'
<1> SUFFICES ASSUME TypeOK, WishUnderWay, request PROVE WishUnderWay'
  OBVIOUS
<1>1. PICK r \in Requests :
        /\ queue' = Append(queue, r)
        /\ wanted' = CASE r = "suspend" -> [wanted EXCEPT !.suspended = TRUE]
                       [] r = "resume" -> [wanted EXCEPT !.suspended = FALSE]
                       [] r = "quit" -> [wanted EXCEPT !.quit = TRUE]
  BY DEF request
<1>2. UNCHANGED <<status, channel>>
  BY DEF request
<1>3. /\ queue \in Seq(Requests) /\ Len(queue) \in Nat
      /\ wanted \in [suspended : BOOLEAN, quit : BOOLEAN]
  BY DEF TypeOK
<1>4. /\ Len(queue') = Len(queue) + 1 /\ queue'[Len(queue) + 1] = r
      /\ \A i \in 1..Len(queue) : queue'[i] = queue[i]
  BY <1>1, <1>3
<1>5. CASE r = "quit"
  <2>1. wanted' = [wanted EXCEPT !.quit = TRUE]
    BY <1>1, <1>5
  <2>2. wanted'.quit /\ (wanted'.suspended <=> wanted.suspended)
    BY <1>3, <2>1
  <2>3. \A i \in 1..Len(queue') :
          LastTurn(queue', i) => i \in 1..Len(queue) /\ LastTurn(queue, i)
    BY <1>3, <1>4, <1>5 DEF LastTurn, Turns
  <2>4. NoTurn(queue') => NoTurn(queue)
    BY <1>3, <1>4 DEF NoTurn
  <2>5. Len(queue') \in 1..Len(queue') /\ queue'[Len(queue')] = "quit"
    BY <1>3, <1>4, <1>5
  <2> QED
    BY <1>2, <1>4, <2>2, <2>3, <2>4, <2>5 DEF WishUnderWay
<1>6. CASE r \in Turns
  <2>1. wanted' = [wanted EXCEPT !.suspended = (r = "suspend")]
    BY <1>1, <1>6 DEF Turns
  <2>2. (wanted'.suspended <=> r = "suspend") /\ (wanted'.quit <=> wanted.quit)
    BY <1>3, <2>1
  <2>3. \A i \in 1..Len(queue') : LastTurn(queue', i) => queue'[i] = r
    BY <1>3, <1>4, <1>6 DEF LastTurn
  <2>4. ~NoTurn(queue')
    BY <1>3, <1>4, <1>6 DEF NoTurn
  <2>5. (\E i \in 1..Len(queue') : queue'[i] = "quit")
          <=> (\E i \in 1..Len(queue) : queue[i] = "quit")
    BY <1>3, <1>4, <1>6 DEF Turns
  <2> QED
    BY <1>2, <2>2, <2>3, <2>4, <2>5 DEF WishUnderWay
<1> QED
  BY <1>5, <1>6 DEF Requests, Turns

\* Between the client and the program no request is lost or overtaken, for a
\* queue of any length: the safety half of RequestSeen.
THEOREM WishArrives == Spec => []WishUnderWay
<1>1. Init => WishUnderWay
  BY DEF Init, WishUnderWay, NoFlags, Turns
<1>2. TypeOK /\ WishUnderWay /\ [Next]_vars => WishUnderWay'
  <2> SUFFICES ASSUME TypeOK, WishUnderWay, [Next]_vars PROVE WishUnderWay'
    OBVIOUS
  <2>1. CASE missHeartbeat
    <3>1. /\ UNCHANGED <<queue, channel, wanted>>
          /\ status' = [status EXCEPT !.no_heartbeat = TRUE]
      BY <2>1 DEF missHeartbeat, client
    <3>2. status'.suspended = status.suspended /\ status'.quit = status.quit
      BY <3>1 DEF TypeOK, Flags
    <3> QED
      BY <3>1, <3>2 DEF WishUnderWay
  <2>2. CASE \/ Simple
             \/ bindings_boinc_init \/ bindings_boinc_init_options \/ surface
             \/ bindings_boinc_finish
             \/ bindings_boinc_begin_critical_section
             \/ bindings_boinc_end_critical_section
             \/ bindings_boinc_upload_file \/ bindings_boinc_get_status
             \/ direct_process_action \/ uploadEnds \/ trickleDown
             \/ clientDies \/ UNCHANGED vars
    <3>1. UNCHANGED <<status, queue, channel, wanted>>
      BY <2>2, SimpleCall
         DEF Call, bindings_boinc_init, bindings_boinc_init_options, surface,
             bindings_boinc_finish, bindings_boinc_begin_critical_section,
             bindings_boinc_end_critical_section, bindings_boinc_upload_file,
             bindings_boinc_get_status, direct_process_action, uploadEnds,
             trickleDown, clientDies, client, vars
    <3> QED
      BY <3>1 DEF WishUnderWay
  <2> QED
    BY <2>1, <2>2, WishRead, WishSent, WishMade, Cases
<1> QED
  BY <1>1, <1>2, TypeCorrect, PTL DEF Spec
=============================================================================
