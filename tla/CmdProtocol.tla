------------------------------ MODULE CmdProtocol ------------------------------
(***************************************************************************)
(* Commands and pings between the host agent and the guests.               *)
(*                                                                         *)
(* An XML-RPC client asks the host to run a command in a guest or to ping  *)
(* it.  HostStompEngine writes CMD_RUN or PING to the broker and notes the *)
(* request in _cmdReqsSent or _pings; the guest executes the command or    *)
(* answers at once; CMD_RESULT and PONG find the note and settle it.  A    *)
(* ping that is not answered in time fails.  Either side may lose its      *)
(* connection at any time, a guest may be halted, and the host agent may   *)
(* be restarted, which forgets every note.                                 *)
(*                                                                         *)
(* An exception in a handler leaves dataReceived and makes Twisted close   *)
(* the connection; this includes the assert statements of processPong and  *)
(* processCmdResult.  Which guests are registered is decided by the        *)
(* protocol of VMRegistry: here ALIVE stands for HELLO and STILL_ALIVE,    *)
(* and the collector may take a guest out at any time.                     *)
(*                                                                         *)
(* The frames under way form a set: no handler depends on their order.     *)
(* Each carries the guest at its end; a ping frame carries the request,    *)
(* which determines the timestamp header.                                  *)
(***************************************************************************)
EXTENDS Integers

CONSTANTS
  VMs,          \* the guests
  CmdIds,       \* command ids: a fresh uuid4 for each request
  Pings,        \* calls of ping
  Kinds,        \* kinds of command requests
  Exits,        \* ways a command ends
  Coarse,       \* may two pings read the same time.time(), to 10 ms?
  MaxFaults,    \* bound: dropped connections and halted guests
  MaxRestarts   \* bound: restarts of the host agent

\* plain: evaluates and starts.  noStdin: fileForStdin cannot be opened.
\* badHeader: a header safe_eval does not parse, such as a path.
AllKinds == {"plain", "noStdin", "badHeader"}
AllExits == {"zero", "nonzero", "signal"}

ASSUME RequestAssumption ==
  /\ Kinds \subseteq AllKinds
  /\ Exits \subseteq AllExits
  /\ Coarse \in BOOLEAN

ASSUME BoundAssumption == MaxFaults \in Nat /\ MaxRestarts \in Nat

VARIABLES
  \* HostStompEngine
  hostLink,        \* connection to the broker; "never": protocol is not set
  vms,             \* keys of _vms
  cmdReqsSent,     \* keys of _cmdReqsSent
  cmdReqsRetired,  \* keys of _cmdReqsRetired
  cmdReqsRcvd,     \* _cmdReqsRcvd: results not yet collected
  pings,           \* _pings: timestamp to the Deferred of a call
  timers,          \* calls whose reactor.callLater is pending
  clock,           \* str(time.time()) of the latest ping
  \* the guests
  vmLink,          \* connection to the broker
  running,         \* commands in execution, each with its guest
  \* frames under way
  net,
  \* XML-RPC clients and history
  call,            \* state of each ping call
  pingTo,          \* guest of each ping call
  stamp,           \* timestamp of each ping call
  issued,          \* incarnation of the host that sent a command; 0: none
  taken,           \* how often the results of a command were collected
  epoch,           \* incarnation of the host agent
  faults

linkVars == <<hostLink, vmLink>>
cmdVars == <<cmdReqsSent, cmdReqsRetired, cmdReqsRcvd, running, issued, taken>>
pingVars == <<pings, timers, clock, call, pingTo, stamp>>
vars == <<linkVars, vms, cmdVars, pingVars, net, epoch, faults>>

HostLinks == {"never", "down", "opened", "connected"}
GuestLinks == {"down", "opened", "connected"}
CallStates == {"idle", "waiting", "pong", "timeout", "raised", "lost"}

Result == [finished : BOOLEAN, exit : AllExits \cup {"noStdin"}]

Alive(v) == [word |-> "ALIVE", vm |-> v]
CmdRun(v, c, k) == [word |-> "CMD_RUN", vm |-> v, id |-> c, kind |-> k]
CmdResult(v, c, r) == [word |-> "CMD_RESULT", vm |-> v, id |-> c, res |-> r]
Ping(v, p) == [word |-> "PING", vm |-> v, ping |-> p]
Pong(v, p) == [word |-> "PONG", vm |-> v, ping |-> p]

Messages ==
  {Alive(v) : v \in VMs}
    \cup {CmdRun(v, c, k) : v \in VMs, c \in CmdIds, k \in Kinds}
    \cup {CmdResult(v, c, r) : v \in VMs, c \in CmdIds, r \in Result}
    \cup {Ping(v, p) : v \in VMs, p \in Pings}
    \cup {Pong(v, p) : v \in VMs, p \in Pings}

TypeOK ==
  /\ hostLink \in HostLinks
  /\ vms \subseteq VMs
  /\ cmdReqsSent \subseteq CmdIds
  /\ cmdReqsRetired \subseteq CmdIds
  /\ DOMAIN cmdReqsRcvd \subseteq CmdIds
  /\ cmdReqsRcvd \in [DOMAIN cmdReqsRcvd -> Result]
  /\ DOMAIN pings \subseteq 0..clock
  /\ pings \in [DOMAIN pings -> Pings]
  /\ timers \subseteq Pings
  /\ clock \in Nat
  /\ vmLink \in [VMs -> GuestLinks]
  /\ running \subseteq CmdIds \X VMs
  /\ net \subseteq Messages
  /\ call \in [Pings -> CallStates]
  /\ pingTo \in [Pings -> VMs]
  /\ stamp \in [Pings -> 0..clock]
  /\ issued \in [CmdIds -> 0..epoch]
  /\ taken \in [CmdIds -> Nat]
  /\ epoch \in 1..(MaxRestarts + 1)
  /\ faults \in 0..MaxFaults

EmptyDict == [k \in {} |-> 0]

Init ==
  /\ hostLink = "never"
  /\ vms = {}
  /\ cmdReqsSent = {} /\ cmdReqsRetired = {} /\ cmdReqsRcvd = EmptyDict
  /\ pings = EmptyDict
  /\ timers = {}
  /\ clock = 0
  /\ vmLink = [v \in VMs |-> "down"]
  /\ running = {}
  /\ net = {}
  /\ call = [p \in Pings |-> "idle"]
  /\ pingTo \in [Pings -> VMs]
  /\ stamp = [p \in Pings |-> 0]
  /\ issued = [c \in CmdIds |-> 0]
  /\ taken = [c \in CmdIds |-> 0]
  /\ epoch = 1
  /\ faults = 0

\* d[k] = x and d.pop(k) on a dictionary
Put(d, k, x) == [j \in DOMAIN d \cup {k} |-> IF j = k THEN x ELSE d[j]]
Pop(d, k) == [j \in DOMAIN d \ {k} |-> d[j]]

\* sendStompMessage: a write on a closed transport is silently dropped.
Written(link, m) == IF link = "down" THEN {} ELSE {m}

-----------------------------------------------------------------------------
(* Commands: the host *)

\* xmlrpc_runCmd and requestCmdExecution.  The request is refused, and
\* nothing changes, when the guest is not registered.
requestCmdExecution(v, c, k) ==
  /\ issued[c] = 0
  /\ v \in vms
  /\ net' = net \cup Written(hostLink, CmdRun(v, c, k))
  /\ cmdReqsSent' = cmdReqsSent \cup {c}
  /\ issued' = [issued EXCEPT ![c] = epoch]
  /\ UNCHANGED <<linkVars, vms, cmdReqsRetired, cmdReqsRcvd, running, taken,
                 pingVars, epoch, faults>>

\* Mutant: the request stays in _cmdReqsSent (get instead of pop).
processCmdResult_get(m) ==
  /\ hostLink = "connected"
  /\ m \in net /\ m.word = "CMD_RESULT"
  /\ net' = net \ {m}
  /\ m.id \in cmdReqsSent
  /\ cmdReqsRcvd' = Put(cmdReqsRcvd, m.id, m.res)
  /\ cmdReqsRetired' = cmdReqsRetired \cup {m.id}
  /\ UNCHANGED <<linkVars, vms, cmdReqsSent, running, issued, taken, pingVars,
                 epoch, faults>>

\* CMD_RESULT.listenAndAct and processCmdResult
processCmdResult(m) ==
  /\ hostLink = "connected"
  /\ m \in net /\ m.word = "CMD_RESULT"
  /\ net' = net \ {m}
  /\ \/ /\ m.id \in cmdReqsSent
        /\ cmdReqsRcvd' = Put(cmdReqsRcvd, m.id, m.res)
        /\ cmdReqsRetired' = cmdReqsRetired \cup {m.id}
        /\ cmdReqsSent' = cmdReqsSent \ {m.id}
        /\ UNCHANGED hostLink
     \/ /\ m.id \notin cmdReqsSent    \* the assertion fails
        /\ hostLink' = "down"
        /\ UNCHANGED <<cmdReqsSent, cmdReqsRetired, cmdReqsRcvd>>
  /\ UNCHANGED <<vmLink, vms, running, issued, taken, pingVars, epoch, faults>>

\* Mutant: the results are read and not taken out.
popCmdResults_get(c) ==
  /\ c \in DOMAIN cmdReqsRcvd
  /\ taken' = [taken EXCEPT ![c] = @ + 1]
  /\ UNCHANGED <<linkVars, vms, cmdReqsSent, cmdReqsRetired, cmdReqsRcvd,
                 running, issued, pingVars, net, epoch, faults>>

\* xmlrpc_getCmdResults and popCmdResults: the results are handed out once.
popCmdResults(c) ==
  /\ c \in DOMAIN cmdReqsRcvd
  /\ cmdReqsRcvd' = Pop(cmdReqsRcvd, c)
  /\ taken' = [taken EXCEPT ![c] = @ + 1]
  /\ UNCHANGED <<linkVars, vms, cmdReqsSent, cmdReqsRetired, running, issued,
                 pingVars, net, epoch, faults>>

-----------------------------------------------------------------------------
(* Commands: the guest *)

\* CMD_RUN.listenAndAct and executeCommand.
listenToCmdRun(m) ==
  /\ vmLink[m.vm] = "connected"
  /\ m \in net /\ m.word = "CMD_RUN"
  /\ \/ /\ m.kind = "plain"           \* the process is spawned
        /\ running' = running \cup {<<m.id, m.vm>>}
        /\ net' = net \ {m}
        /\ UNCHANGED vmLink
     \/ /\ m.kind = "noStdin"         \* errorHandler, with code -1
        /\ net' = (net \ {m}) \cup
             {CmdResult(m.vm, m.id, [finished |-> FALSE, exit |-> "noStdin"])}
        /\ UNCHANGED <<running, vmLink>>
     \/ /\ m.kind = "badHeader"       \* safe_eval raises
        /\ net' = net \ {m}
        /\ vmLink' = [vmLink EXCEPT ![m.vm] = "down"]
        /\ UNCHANGED running
  /\ UNCHANGED <<hostLink, vms, cmdReqsSent, cmdReqsRetired, cmdReqsRcvd,
                 issued, taken, pingVars, epoch, faults>>

\* Mutant: the missing exit code of a signaled process is sent as it is.
Report_none(v, c, e) ==
  Written(vmLink[v],
    CmdResult(v, c, [finished |-> e = "zero",
                     exit |-> IF e = "signal" THEN "None" ELSE e]))

\* processEnded, then getExecutionResults (exit code 0) or errorHandler, then
\* dealWithExecutionResults.  The exitCode of a process that got a signal is
\* None, and errorHandler cannot format it: no results are sent.
Report(v, c, e) ==
  IF e = "signal" THEN {}
  ELSE Written(vmLink[v],
         CmdResult(v, c, [finished |-> e = "zero", exit |-> e]))

\* Mutant: both processExited and processEnded report.
processEnded_both(v, c, e) ==
  /\ <<c, v>> \in running
  /\ net' = net \cup Report(v, c, e)
  /\ UNCHANGED <<linkVars, vms, cmdReqsSent, cmdReqsRetired, cmdReqsRcvd,
                 running, issued, taken, pingVars, epoch, faults>>

processEnded(v, c, e) ==
  /\ <<c, v>> \in running
  /\ running' = running \ {<<c, v>>}
  /\ net' = net \cup Report(v, c, e)
  /\ UNCHANGED <<linkVars, vms, cmdReqsSent, cmdReqsRetired, cmdReqsRcvd,
                 issued, taken, pingVars, epoch, faults>>

-----------------------------------------------------------------------------
(* Pings *)

\* The clock is read to 10 ms: a coarse one may stand still between pings.
Readings == IF Coarse THEN {clock, clock + 1} ELSE {clock + 1}

\* Mutant: no timer is started while the connection is down.
ping_timerIfUp(p, v) ==
  /\ call[p] = "idle"
  /\ hostLink # "never"
  /\ \E ts \in Readings :
       /\ clock' = ts
       /\ stamp' = [stamp EXCEPT ![p] = ts]
       /\ pings' = Put(pings, ts, p)
  /\ pingTo' = [pingTo EXCEPT ![p] = v]
  /\ call' = [call EXCEPT ![p] = "waiting"]
  /\ net' = net \cup Written(hostLink, Ping(v, p))
  /\ timers' = IF hostLink = "down" THEN timers ELSE timers \cup {p}
  /\ UNCHANGED <<linkVars, vms, cmdVars, epoch, faults>>

\* xmlrpc_ping and ping.  Before the first connection self.protocol is not
\* set: the call raises after _pings was changed and no timer is started.
ping(p, v) ==
  /\ call[p] = "idle"
  /\ \E ts \in Readings :
       /\ clock' = ts
       /\ stamp' = [stamp EXCEPT ![p] = ts]
       /\ pings' = Put(pings, ts, p)
  /\ pingTo' = [pingTo EXCEPT ![p] = v]
  /\ \/ /\ hostLink = "never"
        /\ call' = [call EXCEPT ![p] = "raised"]
        /\ UNCHANGED <<net, timers>>
     \/ /\ hostLink # "never"
        /\ call' = [call EXCEPT ![p] = "waiting"]
        /\ net' = net \cup Written(hostLink, Ping(v, p))
        /\ timers' = timers \cup {p}
  /\ UNCHANGED <<linkVars, vms, cmdVars, epoch, faults>>

\* The deferred found under ts is fired, with the given outcome.
Fire(ts, outcome) ==
  /\ call' = [call EXCEPT ![pings[ts]] = outcome]
  /\ pings' = Pop(pings, ts)

\* Mutant: the entry is read and not taken out.
timeout_get(p) ==
  /\ p \in timers
  /\ timers' = timers \ {p}
  /\ call' = IF stamp[p] \in DOMAIN pings
             THEN [call EXCEPT ![pings[stamp[p]]] = "timeout"] ELSE call
  /\ UNCHANGED <<linkVars, vms, cmdVars, clock, pingTo, stamp, net, epoch,
                 faults, pings>>

\* _timeout
timeout(p) ==
  /\ p \in timers
  /\ timers' = timers \ {p}
  /\ \/ stamp[p] \in DOMAIN pings /\ Fire(stamp[p], "timeout")
     \/ stamp[p] \notin DOMAIN pings /\ UNCHANGED <<call, pings>>
  /\ UNCHANGED <<linkVars, vms, cmdVars, clock, pingTo, stamp, net, epoch,
                 faults>>

\* Mutant: the entry is read and not taken out.
processPong_get(m) ==
  /\ hostLink = "connected"
  /\ m \in net /\ m.word = "PONG"
  /\ net' = net \ {m}
  /\ stamp[m.ping] \in DOMAIN pings
  /\ call' = [call EXCEPT ![pings[stamp[m.ping]]] = "pong"]
  /\ UNCHANGED <<linkVars, vms, cmdVars, timers, clock, pingTo, stamp, epoch,
                 faults, pings>>

\* Mutant: a PONG settles a ping that waits, whatever its timestamp.
processPong_any(m) ==
  /\ hostLink = "connected"
  /\ m \in net /\ m.word = "PONG"
  /\ net' = net \ {m}
  /\ \E ts \in DOMAIN pings : Fire(ts, "pong")
  /\ UNCHANGED <<linkVars, vms, cmdVars, timers, clock, pingTo, stamp, epoch,
                 faults>>

\* PONG.listenAndAct and processPong
processPong(m) ==
  /\ hostLink = "connected"
  /\ m \in net /\ m.word = "PONG"
  /\ net' = net \ {m}
  /\ \/ /\ stamp[m.ping] \in DOMAIN pings
        /\ Fire(stamp[m.ping], "pong")
        /\ UNCHANGED hostLink
     \/ /\ stamp[m.ping] \notin DOMAIN pings    \* the assertion fails
        /\ hostLink' = "down"
        /\ UNCHANGED <<call, pings>>
  /\ UNCHANGED <<vmLink, vms, cmdVars, timers, clock, pingTo, stamp, epoch,
                 faults>>

\* Mutant: the PING is answered, and stays unacknowledged at the broker.
listenToPing_again(m) ==
  /\ vmLink[m.vm] = "connected"
  /\ m \in net /\ m.word = "PING"
  /\ net' = net \cup {Pong(m.vm, m.ping)}
  /\ UNCHANGED <<linkVars, vms, cmdVars, pingVars, epoch, faults>>

\* PING.listenAndAct and pong
listenToPing(m) ==
  /\ vmLink[m.vm] = "connected"
  /\ m \in net /\ m.word = "PING"
  /\ net' = (net \ {m}) \cup {Pong(m.vm, m.ping)}
  /\ UNCHANGED <<linkVars, vms, cmdVars, pingVars, epoch, faults>>

-----------------------------------------------------------------------------
(* Registration, as VMRegistry has it *)

\* addVM and keepVMForNow
addVM(m) ==
  /\ hostLink = "connected"
  /\ m \in net /\ m.word = "ALIVE"
  /\ net' = net \ {m}
  /\ vms' = vms \cup {m.vm}
  /\ UNCHANGED <<linkVars, cmdVars, pingVars, epoch, faults>>

\* removeVM, called by _performVMsGC
removeVM(v) ==
  /\ v \in vms
  /\ vms' = vms \ {v}
  /\ UNCHANGED <<linkVars, cmdVars, pingVars, net, epoch, faults>>

\* _sendBeacon
sendBeacon(v) ==
  /\ vmLink[v] = "connected"
  /\ net' = net \cup {Alive(v)}
  /\ UNCHANGED <<linkVars, vms, cmdVars, pingVars, epoch, faults>>

-----------------------------------------------------------------------------
(* Connections, crashes and restarts *)

others == <<cmdVars, pingVars, epoch>>

HostOpen ==
  /\ hostLink \in {"never", "down"}
  /\ hostLink' = "opened"
  /\ UNCHANGED <<vmLink, vms, others, net, faults>>

HostConnected ==
  /\ hostLink = "opened"
  /\ hostLink' = "connected"
  /\ UNCHANGED <<vmLink, vms, others, net, faults>>

GuestOpen(v) ==
  /\ vmLink[v] = "down"
  /\ vmLink' = [vmLink EXCEPT ![v] = "opened"]
  /\ UNCHANGED <<hostLink, vms, others, net, faults>>

GuestConnected(v) ==
  /\ vmLink[v] = "opened"
  /\ vmLink' = [vmLink EXCEPT ![v] = "connected"]
  /\ net' = net \cup {Alive(v)}
  /\ UNCHANGED <<hostLink, vms, others, faults>>

HostDrop ==
  /\ faults < MaxFaults
  /\ faults' = faults + 1
  /\ hostLink \in {"opened", "connected"}
  /\ hostLink' = "down"
  /\ UNCHANGED <<vmLink, vms, others, net>>

GuestDrop(v) ==
  /\ faults < MaxFaults
  /\ faults' = faults + 1
  /\ vmLink[v] # "down"
  /\ vmLink' = [vmLink EXCEPT ![v] = "down"]
  /\ UNCHANGED <<hostLink, vms, others, net>>

\* The guest is powered off, and its commands with it.
GuestHalt(v) ==
  /\ faults < MaxFaults
  /\ faults' = faults + 1
  /\ vmLink' = [vmLink EXCEPT ![v] = "down"]
  /\ running' = {x \in running : x[2] # v}
  /\ UNCHANGED <<hostLink, vms, cmdReqsSent, cmdReqsRetired, cmdReqsRcvd,
                 issued, taken, pingVars, epoch, net>>

\* HostStompEngine.__init__ of another incarnation of the host agent, which
\* takes longer than the clock's resolution
HostRestart ==
  /\ epoch <= MaxRestarts
  /\ epoch' = epoch + 1
  /\ hostLink' = "never"
  /\ vms' = {}
  /\ cmdReqsSent' = {} /\ cmdReqsRetired' = {} /\ cmdReqsRcvd' = EmptyDict
  /\ pings' = EmptyDict
  /\ timers' = {}
  /\ call' = [p \in Pings |->
                IF call[p] = "waiting" THEN "lost" ELSE call[p]]
  /\ clock' = clock + 1
  /\ UNCHANGED <<vmLink, running, issued, taken, pingTo, stamp, net, faults>>

\* A frame is lost while a connection on its way is not established: the
\* broker has no subscriber for its topic, or its sender did not get it out.
Lose(m) ==
  /\ m \in net
  /\ hostLink # "connected" \/ vmLink[m.vm] # "connected"
  /\ net' = net \ {m}
  /\ UNCHANGED <<linkVars, vms, others, faults>>

-----------------------------------------------------------------------------
ClientStep ==
  \/ \E v \in VMs, c \in CmdIds, k \in Kinds : requestCmdExecution(v, c, k)
  \/ \E c \in CmdIds : popCmdResults(c)
  \/ \E p \in Pings, v \in VMs : ping(p, v)

Receive ==
  \E m \in net :
    \/ processCmdResult(m)
    \/ processPong(m)
    \/ addVM(m)
    \/ listenToCmdRun(m)
    \/ listenToPing(m)
    \/ Lose(m)

LocalStep ==
  \/ \E v \in VMs, c \in CmdIds, e \in Exits : processEnded(v, c, e)
  \/ \E p \in Pings : timeout(p)
  \/ \E v \in VMs : removeVM(v) \/ sendBeacon(v)

LinkStep ==
  \/ HostOpen \/ HostConnected \/ HostDrop \/ HostRestart
  \/ \E v \in VMs :
       GuestOpen(v) \/ GuestConnected(v) \/ GuestDrop(v) \/ GuestHalt(v)

Next == ClientStep \/ Receive \/ LocalStep \/ LinkStep

Spec == Init /\ [][Next]_vars

-----------------------------------------------------------------------------
\* Timers fire, frames arrive, connections are opened again and commands end.
\* Clients do what they like.
Fairness ==
  /\ WF_vars(HostOpen) /\ WF_vars(HostConnected)
  /\ \A v \in VMs :
       /\ WF_vars(GuestOpen(v)) /\ WF_vars(GuestConnected(v))
       /\ \A c \in CmdIds :
            /\ WF_vars(\E e \in Exits : processEnded(v, c, e))
            /\ WF_vars(\E m \in net : m.word = "CMD_RUN" /\ m.id = c
                                       /\ listenToCmdRun(m))
            /\ WF_vars(\E m \in net : m.word = "CMD_RESULT" /\ m.id = c
                                       /\ processCmdResult(m))
  /\ \A p \in Pings : WF_vars(timeout(p))

FairSpec == Spec /\ Fairness

-----------------------------------------------------------------------------
(* Properties *)

\* The assertion of processCmdResult holds for the results of every command
\* that the running host agent has sent: over lost connections and halted
\* guests no command is answered twice, nor before it was noted down.
CmdResultExpected ==
  \A m \in net : m.word = "CMD_RESULT" /\ issued[m.id] = epoch =>
    m.id \in cmdReqsSent

\* getCmdDetails finds every command the host agent has sent, in exactly one
\* of _cmdReqsSent and _cmdReqsRetired, and results are kept only for the
\* retired ones.
CmdAccounted ==
  /\ \A c \in CmdIds : issued[c] = epoch <=>
       c \in cmdReqsSent \cup cmdReqsRetired
  /\ cmdReqsSent \cap cmdReqsRetired = {}
  /\ DOMAIN cmdReqsRcvd \subseteq cmdReqsRetired

\* The results of a command are handed out to one caller at most, even if
\* they are collected while the guest reconnects or is started again.
CollectedOnce == \A c \in CmdIds : taken[c] <= 1

\* The state of a request as a client of the agent sees it
requestState ==
  [c \in CmdIds |->
     IF issued[c] = 0 THEN "new"
     ELSE IF taken[c] # 0 THEN "collected"
     ELSE IF issued[c] # epoch THEN "forgotten"
     ELSE IF c \in cmdReqsSent THEN "open" ELSE "answered"]

Table == INSTANCE RequestTable WITH request <- requestState

\* The agent implements a table of requests: whatever is lost, dropped or
\* restarted, results that come in answer an open request, those handed out
\* are handed out for good, and a restart forgets all others for good.
ImplementsTable == Table!Spec

\* A command leaves one trace: its CMD_RUN, its process or its CMD_RESULT, and
\* only while the host agent that sent it has it in _cmdReqsSent.  Results
\* that wait to be collected were never collected before.
CmdInv ==
  /\ \A m \in net : m.word \in {"CMD_RUN", "CMD_RESULT"} =>
       /\ issued[m.id] # 0
       /\ issued[m.id] = epoch => m.id \in cmdReqsSent
       /\ \A n \in net :
            n.word \in {"CMD_RUN", "CMD_RESULT"} /\ n.id = m.id => n = m
       /\ \A v \in VMs : <<m.id, v>> \notin running
  /\ \A c \in CmdIds, v \in VMs : <<c, v>> \in running =>
       /\ issued[c] # 0
       /\ issued[c] = epoch => c \in cmdReqsSent
       /\ \A w \in VMs : <<c, w>> \in running => w = v
  /\ \A c \in CmdIds :
       issued[c] = 0 \/ c \in cmdReqsSent \cup DOMAIN cmdReqsRcvd =>
         taken[c] = 0

\* The Deferred of a ping is fired at most once: what the timer, a late PONG
\* or another ping with the same timestamp does, never AlreadyCalledError.
SettledOnce ==
  [][\A p \in Pings : call[p] \in {"pong", "timeout", "raised", "lost"} =>
       call'[p] = call[p]]_vars

\* Nothing stays in _pings for good: every entry is that of a call whose timer
\* is still pending, save the calls that raised before the first connection.
PingEntryTimed ==
  \A ts \in DOMAIN pings :
    /\ stamp[pings[ts]] = ts
    /\ pings[ts] \in timers \/ call[pings[ts]] = "raised"

\* An entry of _pings that no timer will remove is out of reach of timers and
\* PONGs alike: none has its timestamp.  Every other entry waits.
PingInv ==
  /\ \A ts \in DOMAIN pings :
       LET p == pings[ts]
       IN  /\ stamp[p] = ts
           /\ \/ call[p] = "waiting" /\ p \in timers
              \/ /\ call[p] = "raised"
                 /\ \A q \in timers : stamp[q] # ts
                 /\ \A m \in net : m.word \in {"PING", "PONG"} =>
                      stamp[m.ping] # ts
  /\ \A p \in timers : call[p] # "idle"
  /\ \A m \in net : m.word \in {"PING", "PONG"} =>
       /\ call[m.ping] # "idle"
       /\ hostLink = "never" => stamp[m.ping] < clock
  /\ hostLink = "never" => timers = {}

\* Another call of ping has read the same time as p.
SharedStamp(p) ==
  \E q \in Pings \ {p} : call[q] # "idle" /\ stamp[q] = stamp[p]

\* The assertion of processPong, whose failure closes the host's connection,
\* holds for every PONG that comes in time: it fails only for one that the
\* timer, a restart of the agent or a ping with the same timestamp has passed.
PongExpected ==
  \A m \in net : m.word = "PONG" =>
    \/ stamp[m.ping] \in DOMAIN pings
    \/ call[m.ping] \in {"timeout", "lost"}
    \/ SharedStamp(m.ping)

\* A ping succeeds only by the PONG that its own guest has sent in answer to
\* it, unless another ping has the same timestamp.
PongFromTarget ==
  [][\A p \in Pings : call[p] = "waiting" /\ call'[p] = "pong" =>
       Pong(pingTo[p], p) \in net \/ SharedStamp(p)]_vars

\* Every ping is settled, by its PONG or by its own timer, whatever is lost,
\* unless another ping has the same timestamp and takes its place in _pings.
PingSettles ==
  \A p \in Pings :
    call[p] = "waiting" ~> (call[p] # "waiting" \/ SharedStamp(p))
=============================================================================
