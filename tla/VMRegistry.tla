------------------------------ MODULE VMRegistry ------------------------------
(***************************************************************************)
(* How the host agent keeps track of the virtual machines.                 *)
(*                                                                         *)
(* Every guest runs a VMStompEngine that connects to the STOMP broker,     *)
(* says HELLO and then sends a STILL_ALIVE beacon every beacon_interval.   *)
(* The host's HostStompEngine keeps the dictionary _vms of the guests it   *)
(* has heard of, each with the time of its latest beacon, and every        *)
(* vm_gc_grace seconds throws out the ones that were silent for more than  *)
(* 1.5 * vm_gc_grace.  Either side may lose its connection to the broker   *)
(* and reconnect, a guest may be halted, paused, resumed and booted with   *)
(* another address, the host agent may be restarted, and the hypervisor    *)
(* may get new machines while the host agent runs.                         *)
(*                                                                         *)
(* Time is discrete: Tick lets one unit pass.  Instead of absolute beacon  *)
(* times the model keeps ages (now - beacon), the only thing the code      *)
(* compares.  A timer that is due, or a frame that has been under way for  *)
(* Delay units, holds back Tick until it is handled.                       *)
(***************************************************************************)
EXTENDS Integers, Sequences

CONSTANTS
  VMs,        \* guests, named by their id (the MAC address of adapter 1)
  IPs,        \* addresses DHCP may give a guest
  Machines0,  \* the machines the hypervisor has when the host agent starts
  Grace,      \* vm_gc_grace
  Beacon,     \* beacon_interval
  Delay,      \* longest time from a guest's write to the host's read
  MaxFaults   \* bound: number of faults (drops, halts, pauses, restarts,
              \* misread frames)

ASSUME TimingAssumption ==
  /\ Grace \in Nat \ {0}
  /\ Beacon \in Nat \ {0}
  /\ Delay \in Nat
  /\ MaxFaults \in Nat

\* A guest whose connection is up beacons often enough for the collector.
ASSUME BeaconAssumption == 2 * (Beacon + Delay) <= 3 * Grace

ASSUME MachinesAssumption == Machines0 \subseteq VMs

VARIABLES
  \* HostStompEngine
  hostLink,    \* its connection to the broker
  vms,         \* _vms: VMRef of each registered guest
  idsToNames,  \* keys of _idsToNames, read once in __init__
  gcTimer,     \* time until the LoopingCall runs _performVMsGC
  \* the hypervisor
  machines,    \* machines that exist
  power,       \* power state of each guest
  \* VMStompEngine of each guest
  vmLink,      \* its connection to the broker
  vmIp,        \* its _ip, read in _initId
  beacons,     \* countdown of every beacon LoopingCall it has started
  \* the way from a guest through the broker to the host
  chan,        \* frames under way, oldest first
  \* environment and history
  faults,      \* faults so far
  steady       \* time for which guest, host and broker were all connected and
               \* no frame of the guest was misread

hostVars == <<hostLink, vms, idsToNames, gcTimer>>
guestVars == <<power, vmLink, vmIp, beacons>>
vars == <<hostLink, vms, idsToNames, gcTimer, machines, power, vmLink, vmIp,
          beacons, chan, faults, steady>>

Links == {"down", "opened", "connected"}
Powers == {"off", "on", "paused"}
Words == {"HELLO", "STILL_ALIVE"}

VMRef == [ip : IPs, age : Nat]
Frame == [word : Words, ip : IPs, ttl : 0..Delay]

\* History: steady is only told apart up to this value.
SteadyCap == Beacon + Delay + 1

TypeOK ==
  /\ hostLink \in Links
  /\ DOMAIN vms \subseteq VMs
  /\ vms \in [DOMAIN vms -> VMRef]
  /\ idsToNames \subseteq VMs
  /\ gcTimer \in 0..Grace
  /\ machines \subseteq VMs
  /\ power \in [VMs -> Powers]
  /\ vmLink \in [VMs -> Links]
  /\ vmIp \in [VMs -> IPs]
  /\ beacons \in [VMs -> Seq(0..Beacon)]
  /\ chan \in [VMs -> Seq(Frame)]
  /\ faults \in 0..MaxFaults
  /\ steady \in [VMs -> 0..SteadyCap]

\* An empty dictionary.
NoVMs == [v \in {} |-> 0]

Init ==
  /\ hostLink = "down"
  /\ vms = NoVMs
  /\ machines = Machines0
  /\ idsToNames = Machines0
  /\ gcTimer = Grace
  /\ power = [v \in VMs |-> "off"]
  /\ vmLink = [v \in VMs |-> "down"]
  /\ vmIp \in [VMs -> IPs]
  /\ beacons = [v \in VMs |-> <<>>]
  /\ chan = [v \in VMs |-> <<>>]
  /\ faults = 0
  /\ steady = [v \in VMs |-> 0]

-----------------------------------------------------------------------------
(* The host's registry *)

\* self._vms[vmId] = VMRef(...): a new reference, with an implicit beacon.
WithVM(v, addr) ==
  [w \in DOMAIN vms \cup {v} |->
     IF w = v THEN [ip |-> addr, age |-> 0] ELSE vms[w]]

\* self._vms.pop(...) of every guest in S
WithoutVMs(S) == [w \in DOMAIN vms \ S |-> vms[w]]

\* addVM: _getNameForId raises for an id that is not in _idsToNames.  The
\* exception leaves dataReceived, and Twisted closes the connection.
addVM(v, addr) ==
  \/ /\ v \in idsToNames
     /\ vms' = WithVM(v, addr)
     /\ UNCHANGED hostLink
  \/ /\ v \notin idsToNames
     /\ hostLink' = "down"
     /\ UNCHANGED vms

\* Mutant: a beacon of a guest that is not registered is only logged.
keepVMForNow_warnOnly(v, addr) ==
  /\ vms' = IF v \in DOMAIN vms THEN [vms EXCEPT ![v].age = 0] ELSE vms
  /\ UNCHANGED hostLink

\* keepVMForNow: only the beacon of a guest that is registered is updated;
\* one that is not registered is added.
keepVMForNow(v, addr) ==
  \/ /\ v \in DOMAIN vms
     /\ vms' = [vms EXCEPT ![v].age = 0]
     /\ UNCHANGED hostLink
  \/ /\ v \notin DOMAIN vms
     /\ addVM(v, addr)

\* dataReceived of a connection frame: HELLO and STILL_ALIVE.listenAndAct
HostReceive(v) ==
  /\ hostLink = "connected"
  /\ chan[v] # <<>>
  /\ LET m == Head(chan[v])
     IN  \/ m.word = "HELLO" /\ addVM(v, m.ip)
         \/ m.word = "STILL_ALIVE" /\ keepVMForNow(v, m.ip)
  /\ chan' = [chan EXCEPT ![v] = Tail(@)]
  /\ UNCHANGED <<idsToNames, gcTimer, machines, guestVars, faults>>

\* Mutant: hardGrace is twice the grace period.
IsDead_twice(v) == 2 * vms[v].age > 4 * Grace

\* Mutant: a guest is dead when it merely has missed its latest beacon.
IsDead_oneBeacon(v) == vms[v].age >= Beacon

\* now - vm.beacon > hardGrace, with hardGrace = 1.5 * grace
IsDead(v) == 2 * vms[v].age > 3 * Grace

\* Mutant: the collector runs every hardGrace units.
performVMsGC_slow ==
  /\ gcTimer = 0
  /\ vms' = WithoutVMs({v \in DOMAIN vms : IsDead(v)})
  /\ gcTimer' = (3 * Grace) \div 2
  /\ UNCHANGED <<hostLink, idsToNames, machines, guestVars, chan, faults>>

\* Mutant: a dead guest is kept for another round, as if it had beaconed.
performVMsGC_renew ==
  /\ gcTimer = 0
  /\ vms' = [v \in DOMAIN vms |-> IF IsDead(v) THEN [vms[v] EXCEPT !.age = 0]
                                  ELSE vms[v]]
  /\ gcTimer' = Grace
  /\ UNCHANGED <<hostLink, idsToNames, machines, guestVars, chan, faults>>

\* _performVMsGC, run by the LoopingCall every Grace units
performVMsGC ==
  /\ gcTimer = 0
  /\ vms' = WithoutVMs({v \in DOMAIN vms : IsDead(v)})
  /\ gcTimer' = Grace
  /\ UNCHANGED <<hostLink, idsToNames, machines, guestVars, chan, faults>>

-----------------------------------------------------------------------------
(* The host's connection and process *)

\* StompProtocol.connectionMade: the CONNECT frame is written.
HostOpen ==
  /\ hostLink = "down"
  /\ hostLink' = "opened"
  /\ UNCHANGED <<vms, idsToNames, gcTimer, machines, guestVars, chan, faults>>

\* HostStompEngine.connected: subscribe to the connections topic.
HostConnected ==
  /\ hostLink = "opened"
  /\ hostLink' = "connected"
  /\ UNCHANGED <<vms, idsToNames, gcTimer, machines, guestVars, chan, faults>>

\* The connection is lost; ReconnectingClientFactory will open another one.
\* Also when the handler of another frame raises and Twisted closes it: the
\* assertions of processPong and processCmdResult (module CmdProtocol), or a
\* read that is not one frame (module Frames).
HostDrop ==
  /\ faults < MaxFaults
  /\ faults' = faults + 1
  /\ hostLink # "down"
  /\ hostLink' = "down"
  /\ UNCHANGED <<vms, idsToNames, gcTimer, machines, guestVars, chan>>

\* The host agent is started again: HostStompEngine.__init__
HostRestart ==
  /\ faults < MaxFaults
  /\ faults' = faults + 1
  /\ hostLink' = "down"
  /\ vms' = NoVMs
  /\ idsToNames' = machines
  /\ gcTimer' = Grace
  /\ UNCHANGED <<machines, guestVars, chan>>

\* A read does not hold exactly one frame: dataReceived unpacks it as one, and
\* a frame of v that was joined to another or split is misread and lost.
HostMisread(v) ==
  /\ faults < MaxFaults
  /\ faults' = faults + 1
  /\ hostLink = "connected"
  /\ chan[v] # <<>>
  /\ chan' = [chan EXCEPT ![v] = Tail(@)]
  /\ steady' = [steady EXCEPT ![v] = 0]
  /\ UNCHANGED <<hostVars, machines, guestVars>>

\* A frame on a topic without subscriber is lost.
BrokerDiscard(v) ==
  /\ hostLink # "connected"
  /\ chan[v] # <<>>
  /\ chan' = [chan EXCEPT ![v] = Tail(@)]
  /\ UNCHANGED <<hostVars, machines, guestVars, faults>>

-----------------------------------------------------------------------------
(* The guests *)

\* sendStompMessage: a write on a closed transport is silently dropped.
Written(v, w, link) ==
  IF link = "down" THEN chan[v]
  ELSE Append(chan[v], [word |-> w, ip |-> vmIp[v], ttl |-> Delay])

\* StompProtocol.connectionMade in the guest
GuestOpen(v) ==
  /\ power[v] = "on"
  /\ vmLink[v] = "down"
  /\ vmLink' = [vmLink EXCEPT ![v] = "opened"]
  /\ UNCHANGED <<hostVars, machines, power, vmIp, beacons, chan, faults>>

\* VMStompEngine.connected: HELLO is sent and one more beacon LoopingCall is
\* started; the ones started by earlier connections go on.
GuestConnected(v) ==
  /\ power[v] = "on"
  /\ vmLink[v] = "opened"
  /\ vmLink' = [vmLink EXCEPT ![v] = "connected"]
  /\ chan' = [chan EXCEPT ![v] = Written(v, "HELLO", "opened")]
  /\ beacons' = [beacons EXCEPT ![v] = Append(@, Beacon)]
  /\ UNCHANGED <<hostVars, machines, power, vmIp, faults>>

\* _sendBeacon, run by the i-th LoopingCall
sendBeacon(v, i) ==
  /\ power[v] = "on"
  /\ beacons[v][i] = 0
  /\ beacons' = [beacons EXCEPT ![v][i] = Beacon]
  /\ chan' = [chan EXCEPT ![v] = Written(v, "STILL_ALIVE", vmLink[v])]
  /\ UNCHANGED <<hostVars, machines, power, vmLink, vmIp, faults>>

\* The frames that had left the guest survive the end of its connection.
Survivors(v) == {SubSeq(chan[v], 1, n) : n \in 0..Len(chan[v])}

GuestDrop(v) ==
  /\ faults < MaxFaults
  /\ faults' = faults + 1
  /\ vmLink[v] # "down"
  /\ vmLink' = [vmLink EXCEPT ![v] = "down"]
  /\ \E s \in Survivors(v) : chan' = [chan EXCEPT ![v] = s]
  /\ UNCHANGED <<hostVars, machines, power, vmIp, beacons>>

\* VMStompEngine.__init__ in a guest that boots; _initId reads the address.
Boot(v, addr) ==
  /\ v \in machines
  /\ power[v] = "off"
  /\ power' = [power EXCEPT ![v] = "on"]
  /\ vmIp' = [vmIp EXCEPT ![v] = addr]
  /\ UNCHANGED <<hostVars, machines, vmLink, beacons, chan, faults>>

\* The guest is powered off or crashes: no BYE is sent.
Halt(v) ==
  /\ faults < MaxFaults
  /\ faults' = faults + 1
  /\ power[v] # "off"
  /\ power' = [power EXCEPT ![v] = "off"]
  /\ vmLink' = [vmLink EXCEPT ![v] = "down"]
  /\ beacons' = [beacons EXCEPT ![v] = <<>>]
  /\ \E s \in Survivors(v) : chan' = [chan EXCEPT ![v] = s]
  /\ UNCHANGED <<hostVars, machines, vmIp>>

\* VirtualBox.pause and unpause: the guest and its timers stop and go on.
Pause(v) ==
  /\ faults < MaxFaults
  /\ faults' = faults + 1
  /\ power[v] = "on"
  /\ power' = [power EXCEPT ![v] = "paused"]
  /\ UNCHANGED <<hostVars, machines, vmLink, vmIp, beacons, chan>>

Unpause(v) ==
  /\ power[v] = "paused"
  /\ power' = [power EXCEPT ![v] = "on"]
  /\ UNCHANGED <<hostVars, machines, vmLink, vmIp, beacons, chan, faults>>

\* VirtualBox.createVM succeeds; nothing tells the engine.
CreateVM(v) ==
  /\ v \notin machines
  /\ machines' = machines \cup {v}
  /\ UNCHANGED <<hostVars, guestVars, chan, faults>>

-----------------------------------------------------------------------------
(* Time *)

\* Guest, host and broker are all connected.
Up(v) == power[v] = "on" /\ vmLink[v] = "connected" /\ hostLink = "connected"

\* Nothing is due: time may pass.
NothingDue ==
  /\ gcTimer > 0
  /\ \A v \in VMs :
       /\ power[v] = "on" => \A i \in 1..Len(beacons[v]) : beacons[v][i] > 0
       /\ \A i \in 1..Len(chan[v]) : chan[v][i].ttl > 0

Tick ==
  /\ NothingDue
  /\ gcTimer' = gcTimer - 1
  /\ vms' = [v \in DOMAIN vms |-> [vms[v] EXCEPT !.age = @ + 1]]
  /\ beacons' = [v \in VMs |->
                   [i \in 1..Len(beacons[v]) |->
                      IF power[v] = "on" THEN beacons[v][i] - 1
                      ELSE beacons[v][i]]]
  /\ chan' = [v \in VMs |->
                [i \in 1..Len(chan[v]) |-> [chan[v][i] EXCEPT !.ttl = @ - 1]]]
  /\ steady' = [v \in VMs |->
                  IF ~Up(v) THEN 0
                  ELSE IF steady[v] < SteadyCap THEN steady[v] + 1
                  ELSE SteadyCap]
  /\ UNCHANGED <<hostLink, idsToNames, machines, power, vmLink, vmIp, faults>>

\* History kept by every other step
Observe == steady' = [v \in VMs |-> IF Up(v)' THEN steady[v] ELSE 0]

-----------------------------------------------------------------------------
HostStep ==
  \/ performVMsGC
  \/ HostOpen
  \/ HostConnected
  \/ HostDrop
  \/ HostRestart

GuestStep(v) ==
  \/ HostReceive(v)
  \/ BrokerDiscard(v)
  \/ GuestOpen(v)
  \/ GuestConnected(v)
  \/ \E i \in 1..Len(beacons[v]) : sendBeacon(v, i)
  \/ GuestDrop(v)
  \/ \E addr \in IPs : Boot(v, addr)
  \/ Halt(v)
  \/ Pause(v)
  \/ Unpause(v)
  \/ CreateVM(v)

Next ==
  \/ Tick
  \/ HostStep /\ Observe
  \/ \E v \in VMs : GuestStep(v) /\ Observe
  \/ \E v \in VMs : HostMisread(v)

Spec == Init /\ [][Next]_vars

\* The reactors of host and guests run what is due, the broker delivers, and
\* ReconnectingClientFactory reconnects for ever.  Nothing is assumed of the
\* one who powers machines on and off, nor of faults (misread frames among
\* them), except that their number is bounded.
HostFairness ==
  /\ WF_vars(Tick)
  /\ WF_vars(performVMsGC /\ Observe)
  /\ WF_vars(HostOpen /\ Observe)
  /\ WF_vars(HostConnected /\ Observe)

GuestFairness(v) ==
  /\ WF_vars(HostReceive(v) /\ Observe)
  /\ WF_vars(BrokerDiscard(v) /\ Observe)
  /\ WF_vars(GuestOpen(v) /\ Observe)
  /\ WF_vars(GuestConnected(v) /\ Observe)
  /\ WF_vars((\E i \in 1..Len(beacons[v]) : sendBeacon(v, i)) /\ Observe)

FairSpec == Spec /\ HostFairness /\ \A v \in VMs : GuestFairness(v)

-----------------------------------------------------------------------------
(* Properties *)

\* However connections, guests and the collector interleave, a registered
\* guest was heard of less than 1.5 grace periods before the latest run of
\* _performVMsGC: so no entry of _vms is ever more than 2.5 periods old.
BoundedStaleness ==
  \A v \in DOMAIN vms : 2 * vms[v].age <= 3 * Grace + 2 * (Grace - gcTimer)

\* A guest that has been connected (as has the host), with each of its frames
\* in a read of its own, for longer than one beacon and one delay is registered and its beacon is recent: whatever was
\* lost or restarted before, keepVMForNow repairs the registry in that time.
AwareWhenSteady ==
  \A v \in VMs : steady[v] = SteadyCap =>
    /\ v \in DOMAIN vms
    /\ vms[v].age <= Beacon + Delay

\* How long the host has been without news of v, as far as the time during
\* which everything was connected goes.
Silence(v) ==
  IF v \in DOMAIN vms /\ vms[v].age <= steady[v] THEN vms[v].age
  ELSE steady[v]

\* News of v is on its way or will be sent, in time.
NewsComing(v) ==
  \/ \E i \in 1..Len(chan[v]) : Silence(v) + chan[v][i].ttl <= Beacon + Delay
  \/ \E i \in 1..Len(beacons[v]) : Silence(v) + beacons[v][i] <= Beacon

\* The invariant behind AwareWhenSteady, for one guest
SteadyGuest(v) ==
  /\ ~Up(v) => steady[v] = 0
  /\ vmLink[v] = "connected" => beacons[v] # <<>>
  /\ Up(v) => NewsComing(v)

\* Whoever is connected has a beacon loop (LoopingCall of connected), and at
\* each moment a beacon frame or a loop is due early enough: no sequence of
\* drops, pauses, restarts and collections leaves a guest without news.
SteadyInv == \A v \in VMs : SteadyGuest(v)

\* _performVMsGC never removes a guest that has been connected for longer than
\* one beacon and one delay; only a restart of the host agent forgets it.
NoFalseRemoval ==
  [][\A v \in DOMAIN vms \ DOMAIN vms' :
       \/ steady[v] < SteadyCap
       \/ hostLink' # "connected"]_vars

Detector == INSTANCE FailureDetector
  WITH Guests <- VMs, Cap <- SteadyCap, contact <- steady,
       age <- [v \in DOMAIN vms |-> vms[v].age]

\* The host agent implements a failure detector that is complete and accurate:
\* collector, beacons, lost frames and restarts together never keep a silent
\* guest too long nor lose one that is in contact.
ImplementsDetector == Detector!Spec

\* A guest that stays on is known to the host for good from some time on.
AwareOfVMs ==
  \A v \in VMs : <>[](power[v] = "on") => <>[](v \in DOMAIN vms)

\* A guest that stays on and stays in _idsToNames is known to the host for
\* good from some time on, unless guests of unknown machines keep closing the
\* host's connection for ever.
AwareKnown ==
  \A v \in VMs :
    /\ <>[](power[v] = "on" /\ v \in idsToNames)
    /\ <>[][hostLink' = hostLink \/ hostLink' # "down"]_vars
    => <>[](v \in DOMAIN vms)

\* A guest that stays off or paused is gone from the host's registry for good
\* from some time on, though it never says BYE.
DeadDiscarded ==
  \A v \in VMs : <>[](power[v] # "on") => <>[](v \notin DOMAIN vms)
=============================================================================
