# A verification project for boincvm

boincvm lets a BOINC project run its work inside virtual machines. This
directory has TLA+ models of its own programs, the TLC configurations that
check them on small instances, and theorems that TLAPS has checked for every
value of the constants. Source paths below are relative to the repository;
`host/` is short for `src/vmcontroller/host/boincvm_host/`, `vm/` for
`src/vmcontroller/vm/boincvm_vm/`, `common/` for
`src/vmcontroller/common/boincvm_common/`.

## 1. The system

```
 BOINC client --status/requests--> VMWrapper --XML-RPC--> host agent --VirtualBox API--> machines
                                      |                     |  ^                            |
                                  checkpoint file           v  |                            v
                                                       STOMP broker <--------------> guest agent
```

| Component | State | Operations | Hard part | Correct if |
|---|---|---|---|---|
| Registry of the host agent (`host/stomp/HostStompEngine.py`) | `_vms` (address, latest beacon), `_idsToNames` | `addVM`, `keepVMForNow`, `_performVMsGC`, `isVM` | guests come and go without a word, either end reconnects, the collector runs beside it all | live guests are known, silent ones are not |
| Commands and pings (same file) | `_cmdReqsSent`, `_cmdReqsRcvd`, `_cmdReqsRetired`, `_pings` with one timer each | `requestCmdExecution`, `processCmdResult`, `popCmdResults`, `ping`, `processPong` | lost frames, late answers, restarts | each request is accounted for and settled once |
| XML-RPC service (`host/xmlrpc/HostXMLRPCService.py`) | none | one method per call of the engine or the controller | answers that cannot be marshalled after the effect took place | a caller that tries again knows what it repeats |
| Guest agent (`vm/stomp/VMStompEngine.py`, `common/stomp/protocol/CommandExecuter.py`) | connection, id and address, beacon loops, running commands | `connected`, `beacon`, `pong`, `executeCommand`, `getExecutionResults`, `dealWithExecutionResults` | processes end while the connection is down, or while others run | a command is answered once and charged for what it used |
| STOMP connection (`common/stomp/`) | state of the connection | `connectionMade`, `dataReceived`, `connectionLost`, `sendMsg` | an exception in a handler closes the connection; the stream is not buffered | a frame is handled once, or lost with its connection |
| Hypervisor controller (`host/controllers/`) | machines and sessions of VirtualBox | `createVM`, `start`, `powerOff`, `pause`, `unpause`, `saveState`, snapshots | run in worker threads that share sessions | no operation that ends as it should leaves a machine locked; what a failed one leaves behind is known |
| VMWrapper (`src/vmwrapper/VMWrapper.py`) | task index, checkpoint file, VMmanage processes, suspension | the main program, `poll`, `suspend`, `resume`, `write_checkpoint` | crashes, requests of the client, a failure at every step | no task is skipped, little work is lost, nothing is left running |
| Python bindings (`src/pyboinc/boincmodule.c`) | that of the BOINC library: options, status, critical sections | one function per call of the BOINC API | errors of the library reach the program only if the binding looks; a timer thread runs beside it | what the program is told has happened, and the client's requests reach it |

`PROJECT.json` lists the components with their status, and under `hazards` what
is hard to test, each at its line.

How they interact. Host and guest never talk to each other directly. Each has a
connection to the broker; a guest writes to a topic to which the host
subscribes and the other way round. A frame for a side whose connection is not
established is lost: nothing is retransmitted. The handlers of one process run
one at a time in its reactor, so a handler is one action. What interleaves are
handlers, timers, connections and processes of different machines.

## 2. Modules

| Module | Models |
|---|---|
| `VMRegistry` | registry, beacons, collector, connections, power of the guests, creation of machines |
| `FailureDetector` | abstract: what the host agent promises about guests; implemented by `VMRegistry` |
| `CmdProtocol` | commands and pings from the XML-RPC call to the settled answer |
| `RequestTable` | abstract: what the host agent promises about commands; implemented by `CmdProtocol` |
| `VMWrapper` | the program that executes a workunit |
| `Job` | abstract: what the wrapper promises about a job; implemented by `VMWrapper` |
| `Frames` | how `dataReceived` finds frames in the stream |
| `LossyChannel` | abstract: a channel that loses frames and keeps their order; implemented by `Frames` |
| `Executer` | commands as processes of the guest agent, and what they are charged for |
| `RemoteRun` | composition: `runVM` of the wrapper, `runCmd` of the service, the engine and `Executer` |
| `VBoxController` | operations on machines in worker threads |
| `BoincModule` | the BOINC bindings, the library's timer thread and the client's mailbox |
| `...Proofs` | theorems about `VMRegistry`, `CmdProtocol`, `VMWrapper`, `RemoteRun`, `Frames`, `BoincModule`, `VBoxController` |
| `MC...` | model values, small jobs and option sets for TLC |

Definitions keep the names of the code, without the leading underscore. A
definition whose comment begins with "Mutant" is a plausible bug, used to see
that a property fails when the code is wrong; no specification uses it.

### VMRegistry

Time is discrete. `Tick` is held back while a timer is due or a frame has been
under way for `Delay` units. The code compares only `now - beacon`, so `vms`
keeps ages. `chan[v]` is the way from guest `v` to the host, in order;
`beacons[v]` has one countdown for every `LoopingCall` the guest has started.
`steady[v]` is history: for how long host and guest have both been connected.
It is reset by whatever interrupts that.

The channel delivers one frame per read. That the stream may be cut otherwise is
the fault `HostMisread`, which loses a frame; what it can do in full is the
subject of `Frames`. Frames of other kinds (PONG, CMD_RESULT) change no entry of
`_vms`, but their assertions can close the host's connection (`CmdProtocol`):
here that is `HostDrop`, a fault as well.

`FailureDetector` keeps the ages of members and the time for which each guest has
been in contact. Time may not pass if a member would become older than 2.5 grace
periods, only members silent for more than 1.5 periods are expelled, and a guest
in contact for long enough is a member whose age is small. `Detector` maps `vms`
and `steady` to these, so that one formula says what the collector and the
beacons achieve together.

| Action | Code |
|---|---|
| `HostReceive` (`addVM`, `keepVMForNow`) | handlers of HELLO and STILL_ALIVE |
| `HostMisread` | `dataReceived` of a read that is not exactly one frame |
| `performVMsGC` | `_performVMsGC`, by its `LoopingCall` |
| `HostOpen`, `HostConnected`, `GuestOpen`, `GuestConnected` | `connectionMade`, CONNECTED and the subscriptions |
| `sendBeacon` | the guest's `LoopingCall` |
| `HostDrop`, `GuestDrop`, `HostRestart`, `BrokerDiscard` | loss of connection, `__init__` of a new host agent, a frame without subscriber |
| `Boot`, `Halt`, `Pause`, `Unpause`, `CreateVM` | the controller's operations as seen by a guest |

### CmdProtocol

`net` is the set of frames under way: no handler depends on their order.
`timers` are the pending `callLater`s of pings; `stamp[p]` is the timestamp that
is both the header of PING and the key in `_pings`. With `Coarse` two pings may
read the same time (`str(time.time())` has a resolution of 10 ms). `epoch`
counts incarnations of the host agent, `issued[c]` says which one sent `c`.
Whether a guest is registered is decided by VMRegistry; here it may change at
any time, which allows more than VMRegistry does.

A failed `assert`, or any exception in a handler, leaves `dataReceived`, and
Twisted then closes the connection. The actions `processPong`,
`processCmdResult` and `listenToCmdRun` have this as an outcome.

### VMWrapper

`pc` is the place in the main program; a step is what happens between two calls
that can fail or be interrupted. Writing the checkpoint takes two steps, as
`open(filename, "w")` empties the file before `write`, and either may raise.
`torn` records that a crash or a failing write left the file empty. `cause`
records why the `try` block was left and `exitStatus` the argument of
`boinc_finish`: the first argument of the exception if that is an integer, so that
an operating system error ends with its errno (`Errno` stands for any), else 0.
Each call of VMmanage may raise, or never return: `ServerProxy` has no timeout, and
`hang` may happen at every step that calls it (`Calling`). A command in a machine
may end without being reported ("unanswered"): a signal ended it, or its CMD_RESULT
was lost. `crash` ends the wrapper at any point and starts it
again with what survives: the checkpoint file and the machines. `children` are
the VMmanage processes of the present run. `done` is history: the tasks that
have ended well.

The fraction done, the job file's syntax, command lines and the wall clock are
left out. A waiting loop that gives up after `MAX_WAIT_TIME` gives up at failure
number `MaxTries`.

### Frames

The broker's stream is a sequence of parts, three for each frame: its headers,
the first word of its body, the rest. A read takes any number of parts.
`dataReceived` hands what one read returned to `react` and keeps nothing, so a
read is handled as one frame, ignored (it does not begin with a known command),
or raises (no body, or a joined body that does not evaluate) and closes the
connection. Which of these happens to a read that is not exactly one frame
depends on its bytes, and is a choice in `Handles` and `Raises`. `misread` and
`dropped` are history.

### Executer and RemoteRun

`children` is `RUSAGE_CHILDREN`, which grows when the agent reaps a child;
`execResUsage[c]` is its value when `c` was started and `charged[c]` the
difference that is reported. In `RemoteRun` the ids of the commands are the
numbers of the calls of `runCmd`. The service returns what
`requestCmdExecution` returns, `None`, which XML-RPC cannot encode, so that the
caller gets a Fault in every case; `return cmdId` behind it is never reached.

### VBoxController

`pc[t]` is the place of worker thread `t` between two calls of VirtualBox, each of
which may raise, but for `close()`, `session.state` in the rollback of `createVM`
and the unregistration of a machine that nobody uses. `session[t]` is "direct" if
the thread's own session has the machine locked and "shared" if it uses that of
another. `session.console` is read before the `try` block, and `start` has none: if
these calls raise, the session goes to `abandoned` and stays open until Python
frees it (`collect`, of which nothing is assumed). `media` are the disk images that
`openHardDisk` has registered, which no rollback takes back. `own`, `failed` and
`met` are history about a call of `createVM`: what it has left of its new machine,
where it failed if that left the machine registered, and whether another call has
opened that machine.

### BoincModule

Every binding is an action: the choice of what the library does, and the answer
that the binding makes of it. `told` is what the program knows of the
initialisation, `lib` how far the library is in fact, `pyError` an exception that
is set though a value was returned. It surfaces in a later statement, or a binding
that raises replaces it and the program never sees it; `misled` is history, that
the latest initialisation returned 0 for wrong arguments. Where a binding ignores
the library's return value, its answer is the same whatever the library did.
`depth` may fall below zero: the binding that ends a critical section does not ask
whether one is open. The requests of the client pass `queue`
(`MSG_QUEUE`), `channel` (`MSG_CHANNEL`, which holds one message) and the timer
thread, which notes them in `status` and, with `direct_process_action`, acts on
them. The library is not part of the repository; its part is taken from the
headers in `src/pyboinc/boinc-linux-i386/include/` and from what the bindings
and `VMWrapper` rely on.

## 3. Runs

### Passing

| Run | Instance | Shows |
|---|---|---|
| `RegistryGuests` | two guests, the machine of one is created later; Grace 2, Beacon 1, two faults | an entry of `_vms` is at most 2.5 grace periods old; a guest connected for a beacon and a delay is registered and never collected; a known guest that stays on is registered for good in the end, one that stays off or paused is discarded for good; the registry implements `FailureDetector` |
| `CmdSafety` | two commands of every kind, a ping, two faults, one restart | results belong to a request and are collected once; the agent implements `RequestTable` |
| `Pings` | two guests, two pings that may share a timestamp, late answers, a restart | no Deferred fires twice, no entry of `_pings` stays without a timer; the assertion of `processPong` holds for every PONG in time; a ping with a timestamp of its own is settled, by its own guest or its timer |
| `WrapperJob` | one task on the host, two in a machine, unzip and VMmanage tasks, two crashes | the checkpoint counts no task that is not done; a crash or a failed run costs at most one finished task, unless it cut a write of the file short; suspension is tracked; a request to quit ends the wrapper unless a call hangs; a job that is not suspended for good ends, unless a call hangs or a command is never reported |
| `WrapperSnapshots` | two tasks in two machines, no VMmanage task, two crashes | the wrapper implements `Job`, with checkpoints within a task |
| `VBox` | three threads, any operations on one machine | at most one session changes a machine, and one that locks it is left open only if reading its console raised; of two calls of `createVM` with one name one registers it, and a call returns only with a complete machine; a failed call leaves a machine registered only if it could not get a session object, or if another call had opened the machine; no rollback takes away a complete machine |
| `Frames` | four frames, reads of any size, two lost connections | frames are handled in order and at most once (`LossyChannel`); a frame that comes in a read of its own is lost only with its connection |
| `RemoteRun` | three tries, the machine leaves the registry and comes back | every try sends the command once more, executions overlap, and none is charged too little; the tries always end in `Exception(5)` |
| `Bindings` | any sequence of calls, two sets of options, nested critical sections | a program that was told it is initialised is, unless its last try was `boinc_init_options` with wrong arguments; a program that uses `boinc_init_options` is not stopped or ended by the library; the last request of the client reaches a program that keeps asking |

### Disagreements between code and documentation

Each of these runs violates one property that states what a comment, a docstring
or `common/doc/wiki.txt` says. `PROJECT.json` quotes the line.

| Run | The code |
|---|---|
| `RegistryUnknownMachine` | reads the machines once, so one created later is never registered and makes the host drop its connection |
| `WrapperFinish` | ends with `boinc_finish(0)` though tasks are left |
| `TrickleDown` | returns `None` when there is a trickle-down message, and a string when there is none |

The models follow the code in other places too where it differs from what a
reader may expect; there is no run for these:

* A PONG that comes after its timeout fails `assert d` in `processPong`, and the
  host's connection is closed (`processPong`; frames under way may be lost).
* `errorHandler` formats the exit code with `%d`, which raises for a command that
  was killed by a signal: such a command is never answered (`Report`).
* `open(filename, "w")` empties the only copy of the checkpoint: a crash before
  `write`, or a `write` or `close` that raises, loses the record of all tasks
  (`torn`; `Lose` of `Job`).
* The comment at `VMWrapper.py:732` has it that `listRunningVMs` never exits if
  VMmanage does not run. The guard there tests a flag that stays set when the
  VMmanage tasks end later, so the `finally` clause may hang, and with it the
  wrapper and its answer to a request to quit (`hang`).
* A command whose results are never reported is polled for ever, as long as the
  client does not ask to quit.
* If reading `session.console` raises, the session is not closed; likewise in
  `start` if `waitForCompletion` raises (`Abandon`).
* The rollback of `createVM` does not take back what `openHardDisk` registered
  (`media`).
* `boinc_end_critical_section` may be called without a section being open.
* While a guest of a machine the host does not know is up, its beacons close the
  host's connection again and again, so that known guests may be collected and
  not come back. `AwareKnown` therefore asks that the connection be lost finitely
  often; misread frames are finitely many as all faults are.
* `keepVMForNow` leaves the address of a registered guest alone, so the old one
  stays if a HELLO with a new one is lost.
* Every reconnection of a guest starts a further beacon loop.
* Results of a command that was sent before a restart of the host agent fail the
  assertion of `processCmdResult`; `CmdResultExpected` is about the present one.
* A command with a path to run in is never answered: its header is not a Python
  literal. A command with a nonzero exit code is reported as not finished.
* `runCmd` always ends in a Fault (see `RemoteRun`), so a task in a machine ends
  with `Exception(5)` after its command ran once per try. `VMWrapper` allows a
  call that returns too, and so covers the service with the fault mended.
* `VMWrapper.py` calls `saveSnapshot` with two arguments; the controller's
  function takes three.
* `copy_files_to_VM` and `copy_files_from_VM` are lists of the class, shared by
  all tasks.
* If a VMmanage task cannot be started, the `finally` clause raises and those
  started before stay.
* The checkpoint file has the CPU time of the latest task in a machine, as
  `starting_cpu` is never assigned. Snapshots are taken of the machine of the
  variable `task`, left over from an earlier loop (`StaleTaskVM`).
* The rollback of `createVM` reads `session`; if the failure came before it was
  bound, the caller gets a `NameError` and the machine stays (`Fail`).
* `start` and `saveState` return `True` after 30 seconds even if the machine is
  still starting or being saved (`waitForCompletion`, `Effect`).
* `boinc_init_options` with wrong arguments returns 0 with an exception set, so
  that a later, unrelated statement raises (`surface`), or, if a binding replaces
  the exception by its own, none does. `boinc_fopen` makes a
  file object of a null pointer if the file cannot be opened.

### Bounds

* Faults, restarts and crashes are bounded by `MaxFaults`, `MaxRestarts`,
  `MaxCrashes` and `MaxDrops`. Two faults let a guest be lost while the host
  restarts; two crashes let a run start from a checkpoint that was itself
  written after a crash.
* Guests share no state in the host except the connection; two guests let the
  frames of one cost the other its connection.
* `Grace` 2 with `Beacon` 1 and `Delay` 0 satisfies the assumption on the timing
  with room for two beacons, as do the defaults (beacon 10, grace 30). What
  depends on `Delay` is proved for every value.
* Two commands and two pings are what it takes for one request to meet another.
* `Pings` has no dropped connections but those that failed assertions and the
  restart bring about; `CmdSafety` has dropped ones.
* `MaxTries` 1 in `VMWrapper` gives a waiting loop success at once, success after
  a failure, and giving up. In `RemoteRun` 3 lets three executions overlap, and
  `MaxMoves` 2 lets the machine be gone for some of the calls.
* `VBox`: three threads are two calls of `createVM` and one that opens the new
  machine between them; threads are interchangeable, hence the symmetry. Machines
  of different names share nothing.
* `Frames`: four frames are one read that joins two, one before and one behind it.
* `Bindings`: with `MaxQueue` 1 a request waits while another is in the mailbox
  and a third is noted in the status.
* The theorems hold for all values, so the bounds matter only for what is not proved.

### Fairness

* Registry: reactors run timers that are due, the broker delivers or discards,
  `ReconnectingClientFactory` reconnects for ever. Nothing is assumed of who
  powers machines on and off, nor of faults.
* Commands: the same, and processes in a guest end. Clients do what they like.
  There is no fairness on PONG: a ping is settled by its timer at the latest.
* Wrapper: the process is scheduled unless a call hangs, and an application that is
  not stopped ends, though the end of one in a machine may never be reported.
  Requests of the client, crashes, hanging calls and the end of VMmanage are not
  assumed.
* RemoteRun: the wrapper makes its calls and the service answers them. Nothing is
  assumed of the guest.
* Bindings: the timer thread ticks, the client tries again to send what waits in
  its queue (`msg_queue_poll` in its polling loop), and the program keeps calling
  `boinc_get_status`, as the waiting loop of `VMWrapper.py` does every second.
* `VBox` and `Frames` check safety only. `VBox` checks that there is no deadlock.

## 4. Proofs

Assumptions. `TimingAssumption` (positive periods), `BeaconAssumption`
(`2 * (Beacon + Delay) <= 3 * Grace`: the collector's patience of 1.5 grace
periods outlasts a beacon and its delay), `MachinesAssumption`,
`RequestAssumption`, `JobAssumption`, `UseAssumption`, `TriesAssumption`,
`BoundAssumption` and `ArgumentAssumption` (no program can pass
`direct_process_action`, which is not among the six arguments) and `VMsAssumption`
(there is a name for a machine) state what kind of values the constants are. The bounds may be any numbers, so the theorems cover
any number of faults, restarts, crashes, tries and frames.

* **Registry.** `Staleness` is inductive with the types: an entry ages only with
  `Tick`, which also brings the collector nearer, and the collector removes what
  is older than 1.5 periods. Awareness is not inductive: that a guest will be
  heard of in time depends on frames under way and on loops. `SteadyInv` says
  that while everything is connected a frame or a beacon loop comes early
  enough, measured by `Silence`, the time without news. From it follow `Aware` and, with
  `BeaconAssumption`, `NeverFalselyRemoved`. `DetectorImplemented` puts the two
  together: `Staleness` lets time pass in the detector, awareness makes it
  accurate, and what the collector takes out is expelled.
* **Commands.** That results find their request, and are collected once, needs
  that a command leaves at most one trace (CMD_RUN, process or CMD_RESULT):
  `CmdInv`. That an entry of `_pings` always has a timer needs to know that a
  ping which raised before the first connection left an entry no PONG or timer
  can meet: `PingInv`. `TableImplemented`: the state of a request is computed
  from `issued`, `taken`, `epoch` and the two dictionaries, and with `CmdInv` and
  `CmdAccounted` every step is one of `RequestTable` or leaves it alone.
  `PongIsOwn` needs `AddressInv`: PING and PONG travel to and from the guest that
  was pinged. `WaitingIsTimed` is the part of `PingSettles` that is safety: a ping
  that waits has its entry and its timer, unless another one has its timestamp.
  `PongFound` needs `FrameInv`: a ping has at most one frame under way, PING or
  PONG, and none once a PONG has settled it.
* **Wrapper.** `CheckpointSound` needs `ProgressInv`: all tasks before `i` are
  done, and a write under way counts none that is not. `LostWorkBounded` needs
  `LostWorkInv`: until a crash or a failing write leaves the file empty, file and
  loop are at the same task, except within a write.
  `NormalFinish` needs `FinishInv`, which ties a normal exit to the last index.
  `JobImplemented` maps a write under way to the record before it; it needs
  `AlignInv`, that the record is at the task of the loop whether or not a
  checkpoint was torn. `SuspendIsTracked` follows the flag through the steps that
  pause, resume and start a task anew.
* **RemoteRun.** `Charged` needs `ChargeInv`: until a command is reaped the
  counter is at least where it was at the command's start, and exactly there if
  no other was reaped; then it is ahead by at least what the command used. `Cost`
  needs that the machine is registered until it first moves.
* **Frames.** `Loss` is inductive with the types: a frame that is no longer
  unread has its first part in the present read, which is either exactly that
  frame, and handled, or misread. `ChannelImplemented` maps `next` of the channel
  to the first frame that is not begun: a read handles a frame only if it begins
  with it, and then moves on by one at least.
* **Bindings.** `StaysInControl` needs that only `boinc_init` ever sets
  `direct_process_action`; `Truly` needs `ToldInv`: a program that was not told it
  is initialised has no timer thread, and an exception that is left set is that of
  a program misled by `boinc_init_options`. `WishArrives` is the part of
  `RequestSeen` that is safety: the latest request to suspend or resume that
  waits in the queue, or else the one in the mailbox, or else the status, is what
  the client wants, so nothing is lost or overtaken on the way and the program is
  told the truth as soon as nothing is under way.
* **Hypervisor.** `Released` needs that no call uses a session it has not opened
  (`HasSession`, proved with the types), so that what is abandoned was open. `Created` and
  `LeftoverExplained` need to know what a call of `createVM` has left at each of
  its steps (`PhaseInv`), that a machine stays registered while the call that
  registered it accounts for it, since nobody else unregisters it (`OwnInv`), and
  that whoever opens or starts the machine in the meantime is noted, abandoned
  sessions included (`MetInv`), so
  that an unregistration which fails has a witness. `RollbackKeepsComplete` needs
  `RawInv`: up to the step after which nothing raises, the machine has no disk.

Every invariant and every action property of the passing runs is the statement of
a theorem. Only model-checked are the liveness properties, as fairness is beyond
the prover (`AwareKnown`, `DeadDiscarded`, `PingSettles`, `QuitObeyed`, `JobEnds`,
`TriesFail`, `RequestSeen`), and the violations.

## 5. Not modelled

* File transfer (`cpFileToVM`, `cpFileFromVM`) starts a chirp process and
  changes no state of the agent; that it fails is a step of `VMWrapper`.
* The start of the agents (`boinc-host-controller.py`, `boinc-vm-controller.py`):
  one pass that ends in the initial states of `VMRegistry` and `CmdProtocol`.
* Queries of the controller, which change nothing.
* The fraction done, which is reported and not used.
* Logging, JSON encoding, help texts and the reflection that exports controller
  methods.
* Vendored software: `cctools`, the BOINC headers, `uuid.py`,
  `distribute_setup.py`, `share/`. Of the repository's lines of C, all but
  `boincmodule.c` are headers of two foreign libraries, declarations without
  bodies for the most part: there is nothing in them to translate but the
  structures that `BoincModule` uses. The program's own logic is in Python.
* The CONNECTED handshake within `Frames`, and delivery by patterns in the `to`
  header.
* After a crash of the wrapper alone, its former VMmanage processes and
  application may still run; the model starts with neither.

## 6. Plan

1. The safety half of `TriesFail` and of `QuitObeyed`: which steps of the wrapper
   can follow a request to quit.
2. A lock per machine as an abstract specification of the sessions in
   `VBoxController`.
3. `UsageCharged` summed over all commands: how much too much is charged at most.
