------------------------------ MODULE BoincModule ------------------------------
(***************************************************************************)
(* boincmodule.c, the BOINC API for Python: what the runtime library does, *)
(* and what the binding of each call tells the program.                    *)
(*                                                                         *)
(* The program is single threaded and calls bindings one after the other,  *)
(* after one that initialises the library has reported success.  The       *)
(* library runs a timer thread, which takes the requests of the BOINC      *)
(* client from a mailbox in shared memory.  By its options it acts on them *)
(* itself (stops, resumes or ends the process) or only notes them for      *)
(* boinc_get_status.  A call of the library may fail wherever the binding  *)
(* looks at its return value; where it does not, the program is told the   *)
(* same whatever the library did.                                          *)
(***************************************************************************)
EXTENDS Integers, Sequences

CONSTANTS
  Arguments,  \* options a program passes to boinc_init_options
  MaxQueue,   \* bound: requests of the client that wait for the mailbox
  MaxDepth    \* bound: critical sections begun, or ended, in excess

OptionRecord == [control : BOOLEAN, heartbeat : BOOLEAN, ups : BOOLEAN,
                 downs : BOOLEAN, direct : BOOLEAN]

ASSUME BoundAssumption == MaxQueue \in Nat /\ MaxDepth \in Nat

ASSUME ArgumentAssumption == Arguments \subseteq {o \in OptionRecord : ~o.direct}

VARIABLES
  \* the program, as it sees itself
  told,     \* what the binding that initialises said: "nothing", "ok", "error"
  answer,   \* what the latest binding returned to it
  pyError,  \* an exception is set though the binding has returned a value
  seen,     \* the latest result of boinc_get_status
  \* the library
  process,  \* "running", "stopped" or "exited" by the library, "finished"
  lib,      \* "none", "options" (set, no timer thread), "ready"
  options,
  status,   \* BOINC_STATUS
  depth,    \* critical sections begun less those ended
  upload,   \* the output file: "kept", "asked" (for upload), "uploaded"
  \* the BOINC client
  alive, queue, channel, mail,
  \* history
  misled,   \* the latest initialisation returned 0 for wrong arguments
  wanted,   \* the latest wish of the client
  initBy    \* bindings that have reached the library to initialise it

program == <<told, answer, pyError, seen>>
client == <<alive, queue, channel, mail, wanted>>
runtime == <<lib, options, initBy, misled>>
vars == <<program, process, runtime, status, depth, upload, client>>

Requests == {"suspend", "resume", "quit"}
Flags == [suspended : BOOLEAN, quit : BOOLEAN, no_heartbeat : BOOLEAN]
NoFlags == [suspended |-> FALSE, quit |-> FALSE, no_heartbeat |-> FALSE]

TypeOK ==
  /\ told \in {"nothing", "ok", "error"}
  /\ answer \in {"None", "zero", "value", "raised"}
  /\ pyError \in BOOLEAN
  /\ misled \in BOOLEAN
  /\ seen \in Flags /\ status \in Flags
  /\ process \in {"running", "stopped", "exited", "finished"}
  /\ lib \in {"none", "options", "ready"}
  /\ options \in OptionRecord
  /\ depth \in (-MaxDepth)..MaxDepth
  /\ upload \in {"kept", "asked", "uploaded"}
  /\ alive \in BOOLEAN /\ mail \in BOOLEAN
  /\ queue \in Seq(Requests) /\ Len(queue) <= MaxQueue
  /\ channel \in Requests \cup {"empty"}
  /\ wanted \in [suspended : BOOLEAN, quit : BOOLEAN]
  /\ initBy \subseteq {"boinc_init", "boinc_init_options"}

NoOptions == [control |-> FALSE, heartbeat |-> FALSE, ups |-> FALSE,
              downs |-> FALSE, direct |-> FALSE]

Init ==
  /\ told = "nothing" /\ answer = "None" /\ pyError = FALSE
  /\ seen = NoFlags /\ status = NoFlags
  /\ process = "running" /\ lib = "none" /\ options = NoOptions
  /\ depth = 0 /\ upload = "kept"
  /\ alive = TRUE /\ queue = <<>> /\ channel = "empty" /\ mail = FALSE
  /\ wanted = [suspended |-> FALSE, quit |-> FALSE]
  /\ initBy = {} /\ misled = FALSE

-----------------------------------------------------------------------------
(* Bindings *)

\* The binding returns a to the program.
Return(a) == answer' = a /\ UNCHANGED pyError

\* PyErr_SetString and NULL.  An exception that was still set is replaced: when
\* the program catches this one, none is left.
RaiseError == answer' = "raised" /\ pyError' = FALSE

CanCall == process = "running" /\ told = "ok"

\* A call that leaves what is modelled of the library alone
Call == CanCall /\ UNCHANGED <<told, seen, process, runtime, status, depth,
                               upload, client>>

\* The arguments have the wrong types: PyArg_ParseTuple raises TypeError.
badArguments == Call /\ RaiseError

boinc_options_defaults ==
  [control |-> TRUE, heartbeat |-> TRUE, ups |-> TRUE, downs |-> TRUE,
   direct |-> TRUE]

CanInit == process = "running" /\ told # "ok"

\* An exception tells of wrong arguments, or of any failure of the library.
bindings_boinc_init ==
  /\ CanInit
  /\ \/ told' = "error" /\ RaiseError /\ UNCHANGED runtime
     \/ /\ initBy' = initBy \cup {"boinc_init"} /\ misled' = FALSE
        /\ options' = boinc_options_defaults
        /\ \/ lib' = "ready" /\ told' = "ok" /\ Return("None")
           \/ lib' \in {lib, "options"} /\ told' = "error" /\ RaiseError
  /\ UNCHANGED <<seen, process, status, depth, upload, client>>

\* Mutant: the options start from their defaults, never from zero.
bindings_boinc_init_options_defaults ==
  /\ CanInit
  /\ initBy' = initBy \cup {"boinc_init_options"} /\ misled' = FALSE
  /\ \E o \in Arguments : options' = [o EXCEPT !.direct = TRUE]
  /\ \/ lib' = "ready" /\ told' = "ok" /\ Return("zero")
     \/ lib' = "options" /\ told' = "error" /\ Return("value")
  /\ UNCHANGED <<seen, process, status, depth, upload, client>>

\* Mutant: the result of start_timer_thread is not looked at.
bindings_boinc_init_options_noTimer ==
  /\ CanInit
  /\ initBy' = initBy \cup {"boinc_init_options"} /\ misled' = FALSE
  /\ options' \in Arguments
  /\ lib' \in {"options", "ready"} /\ told' = "ok" /\ Return("zero")
  /\ UNCHANGED <<seen, process, status, depth, upload, client>>

\* The options are zero (memset) but for the six arguments.  Diagnostics, the
\* options and the timer thread are set up in turn; the code of the first
\* failure is returned, and what was set up stays.  If the arguments are wrong,
\* 0 is returned with the exception set.
bindings_boinc_init_options ==
  /\ CanInit
  /\ \/ /\ misled' = TRUE
        /\ told' = "ok" /\ answer' = "zero" /\ pyError' = TRUE
        /\ UNCHANGED <<lib, options, initBy>>
     \/ /\ initBy' = initBy \cup {"boinc_init_options"} /\ misled' = FALSE
        /\ \/ UNCHANGED <<lib, options>> /\ told' = "error" /\ Return("value")
           \/ /\ options' \in Arguments
              /\ \/ lib' = "ready" /\ told' = "ok" /\ Return("zero")
                 \/ lib' = "options" /\ told' = "error" /\ Return("value")
  /\ UNCHANGED <<seen, process, status, depth, upload, client>>

\* Python meets the exception that was left set, in an unrelated statement.
surface ==
  /\ process = "running" /\ pyError
  /\ told' = "error" /\ RaiseError
  /\ UNCHANGED <<seen, process, runtime, status, depth, upload, client>>

\* boinc_finish does not return, unless it fails.
bindings_boinc_finish ==
  /\ CanCall
  /\ \/ process' = "finished" /\ UNCHANGED <<answer, pyError>>
     \/ UNCHANGED process /\ RaiseError
  /\ UNCHANGED <<told, seen, runtime, status, depth, upload, client>>

\* Only ERR_NULL is an error.
bindings_boinc_resolve_filename ==
  Call /\ (Return("value") \/ RaiseError)

\* The file pointer is not looked at: a file object may have none.
bindings_boinc_fopen == Call /\ Return("value")

\* Calls after which None is returned, whatever the library did or returned, ...
Void == Call /\ Return("None")
\* ... and those that return what the library says.
Query == Call /\ Return("value")

bindings_boinc_checkpoint_completed == Void
bindings_boinc_time_to_checkpoint == Query

bindings_boinc_begin_critical_section ==
  /\ CanCall
  /\ depth < MaxDepth
  /\ depth' = depth + 1
  /\ Return("None")
  /\ UNCHANGED <<told, seen, process, runtime, status, upload, client>>

\* The binding does not ask whether a section is open.  If none is, the library
\* counts below zero, or, in other versions, does not.
bindings_boinc_end_critical_section ==
  /\ CanCall
  /\ depth > -MaxDepth
  /\ depth' \in {depth - 1, IF depth > 0 THEN depth - 1 ELSE 0}
  /\ Return("None")
  /\ UNCHANGED <<told, seen, process, runtime, status, upload, client>>

bindings_boinc_fraction_done == Void
bindings_boinc_get_fraction_done == Query
bindings_boinc_is_standalone == Query
bindings_boinc_need_network == Void
bindings_boinc_network_poll == Query
bindings_boinc_network_done == Void
bindings_boinc_ops_per_cpu_sec == Void
bindings_boinc_ops_cumulative == Void
bindings_boinc_report_app_status == Void

\* Mutant: NULL is returned with no exception set.
bindings_boinc_upload_file_null ==
  /\ CanCall
  /\ \/ upload' = "asked" /\ Return("None")
     \/ UNCHANGED upload /\ Return("NULL")
  /\ UNCHANGED <<told, seen, process, runtime, status, depth, client>>

\* ERR_FOPEN and ERR_NULL
bindings_boinc_upload_file ==
  /\ CanCall
  /\ \/ upload' = "asked" /\ Return("None")
     \/ UNCHANGED upload /\ RaiseError
  /\ UNCHANGED <<told, seen, process, runtime, status, depth, client>>

\* The name may be one that was not given before (ERR_NOT_FOUND).
bindings_boinc_upload_status ==
  /\ Call
  /\ \/ upload = "kept" /\ RaiseError
     \/ upload = "asked" /\ Return("value")
     \/ upload = "uploaded" /\ Return("zero")

\* The variety is too long, ERR_FOPEN, ERR_NO_OPTION or ERR_WRITE
bindings_boinc_send_trickle_up ==
  /\ Call
  /\ \/ options.ups /\ Return("None")
     \/ RaiseError

\* The library returns nonzero if there is a message; then the result is None.
\* Else it is a string that nothing has been written to.
bindings_boinc_receive_trickle_down ==
  /\ Call
  /\ Return(IF options.downs /\ mail THEN "None" ELSE "value")

\* Mutant: quit_request is given for suspended.
bindings_boinc_get_status_swapped ==
  /\ CanCall
  /\ seen' = [status EXCEPT !.suspended = status.quit]
  /\ Return("value")
  /\ UNCHANGED <<told, process, runtime, status, depth, upload, client>>

bindings_boinc_get_status ==
  /\ CanCall
  /\ seen' = status
  /\ Return("value")
  /\ UNCHANGED <<told, process, runtime, status, depth, upload, client>>

BoincMethods ==
  \/ bindings_boinc_init \/ bindings_boinc_init_options \/ bindings_boinc_finish
  \/ bindings_boinc_resolve_filename \/ bindings_boinc_fopen
  \/ bindings_boinc_time_to_checkpoint \/ bindings_boinc_checkpoint_completed
  \/ bindings_boinc_begin_critical_section \/ bindings_boinc_end_critical_section
  \/ bindings_boinc_fraction_done \/ bindings_boinc_get_fraction_done
  \/ bindings_boinc_is_standalone
  \/ bindings_boinc_need_network \/ bindings_boinc_network_poll
  \/ bindings_boinc_network_done
  \/ bindings_boinc_ops_per_cpu_sec \/ bindings_boinc_ops_cumulative
  \/ bindings_boinc_upload_file \/ bindings_boinc_upload_status
  \/ bindings_boinc_send_trickle_up \/ bindings_boinc_receive_trickle_down
  \/ bindings_boinc_get_status \/ bindings_boinc_report_app_status
  \/ badArguments

-----------------------------------------------------------------------------
(* The timer thread of the library *)

Ticking == lib = "ready" /\ process \in {"running", "stopped"}

get_msg ==
  /\ Ticking /\ options.control
  /\ channel # "empty"
  /\ channel' = "empty"
  /\ status' = CASE channel = "suspend" -> [status EXCEPT !.suspended = TRUE]
                 [] channel = "resume" -> [status EXCEPT !.suspended = FALSE]
                 [] channel = "quit" -> [status EXCEPT !.quit = TRUE]
  /\ UNCHANGED <<program, process, runtime, depth, upload, alive, queue, mail,
                 wanted>>

missHeartbeat ==
  /\ Ticking /\ options.heartbeat
  /\ ~alive /\ ~status.no_heartbeat
  /\ status' = [status EXCEPT !.no_heartbeat = TRUE]
  /\ UNCHANGED <<program, process, runtime, depth, upload, client>>

\* With direct_process_action the library acts by itself, but never within a
\* critical section.
direct_process_action ==
  /\ Ticking /\ options.direct
  /\ depth <= 0
  /\ LET next == IF status.quit \/ status.no_heartbeat THEN "exited"
                 ELSE IF status.suspended THEN "stopped" ELSE "running"
     IN  next # process /\ process' = next
  /\ UNCHANGED <<program, runtime, status, depth, upload, client>>

-----------------------------------------------------------------------------
(* The BOINC client *)

request ==
  /\ alive /\ Len(queue) < MaxQueue
  /\ \E r \in Requests :
       /\ queue' = Append(queue, r)
       /\ wanted' = CASE r = "suspend" -> [wanted EXCEPT !.suspended = TRUE]
                      [] r = "resume" -> [wanted EXCEPT !.suspended = FALSE]
                      [] r = "quit" -> [wanted EXCEPT !.quit = TRUE]
  /\ UNCHANGED <<program, process, runtime, status, depth, upload, alive,
                 channel, mail>>

\* A request goes into the mailbox when the one before it has been read.
msg_queue_poll ==
  /\ alive /\ queue # <<>>
  /\ channel = "empty"
  /\ channel' = Head(queue)
  /\ queue' = Tail(queue)
  /\ UNCHANGED <<program, process, runtime, status, depth, upload, alive, mail,
                 wanted>>

uploadEnds ==
  /\ upload = "asked" /\ upload' = "uploaded"
  /\ UNCHANGED <<program, process, runtime, status, depth, client>>

\* A trickle-down message arrives, or the application deletes its file.
trickleDown ==
  /\ mail' = ~mail
  /\ UNCHANGED <<program, process, runtime, status, depth, upload, alive, queue,
                 channel, wanted>>

clientDies ==
  /\ alive /\ alive' = FALSE
  /\ UNCHANGED <<program, process, runtime, status, depth, upload, queue,
                 channel, mail, wanted>>

-----------------------------------------------------------------------------
Timer == get_msg \/ missHeartbeat \/ direct_process_action

Next ==
  \/ BoincMethods \/ surface
  \/ Timer
  \/ request \/ msg_queue_poll \/ uploadEnds \/ trickleDown \/ clientDies

Spec == Init /\ [][Next]_vars

\* The timer thread ticks, the client tries again to send its requests, and the
\* program goes on asking for its status, as the waiting loop of VMWrapper does.
FairSpec ==
  /\ Spec
  /\ WF_vars(Timer) /\ WF_vars(msg_queue_poll) /\ WF_vars(bindings_boinc_get_status)

-----------------------------------------------------------------------------
(* Properties *)

\* A program that was told that it is initialised has a library with a timer
\* thread, over failures, further tries and exceptions that are raised, replaced
\* and caught: unless, and only if, its last try was boinc_init_options with
\* wrong arguments, which returns 0.
ToldTruly == told = "ok" => (lib = "ready" <=> ~misled)

\* A program that is initialised by boinc_init_options only, like VMWrapper, is
\* never stopped or ended by the library: it stays able to stop its virtual
\* machine, or to save it, when the client asks for that.
InControl ==
  "boinc_init" \notin initBy => process \in {"running", "finished"}

\* The program is in a position to hear of requests, as far as it can know.
Listening == CanCall /\ ~misled /\ options.control /\ alive

\* The last wish of the client gets through the queue, the mailbox, the timer
\* thread and the binding to a program that keeps asking.
RequestSeen ==
  /\ \A b \in BOOLEAN :
       <>[](Listening /\ wanted.suspended = b) => <>[](seen.suspended = b)
  /\ <>[](Listening /\ wanted.quit) => <>[](seen.quit)

\* A trickle-down message is returned as a string, and None tells that there is
\* no message.
TrickleDownReturned ==
  [][bindings_boinc_receive_trickle_down =>
       answer' = IF options.downs /\ mail THEN "value" ELSE "None"]_vars
=============================================================================
