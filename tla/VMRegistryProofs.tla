--------------------------- MODULE VMRegistryProofs ---------------------------
(***************************************************************************)
(* Proofs about the registry of guests, for every set of guests, every     *)
(* grace period, beacon interval and delay, and every number of faults.    *)
(***************************************************************************)
EXTENDS VMRegistry, TLAPS

\* The initial state has the right types.
LEMMA InitType == Init => TypeOK
<1> SUFFICES ASSUME Init PROVE TypeOK
  OBVIOUS
<1> USE TimingAssumption DEF SteadyCap
<1>1. vms \in [DOMAIN vms -> VMRef] /\ DOMAIN vms \subseteq VMs
  BY DEF Init, NoVMs
<1>2. machines \subseteq VMs /\ idsToNames \subseteq VMs
  BY MachinesAssumption DEF Init
<1>3. beacons \in [VMs -> Seq(0..Beacon)] /\ chan \in [VMs -> Seq(Frame)]
  BY DEF Init
<1>4. steady \in [VMs -> 0..SteadyCap]
  BY DEF Init
<1> QED
  BY <1>1, <1>2, <1>3, <1>4 DEF Init, TypeOK, Links, Powers

-----------------------------------------------------------------------------
(* What the helpers return *)

\* Registering a guest keeps the type of _vms.
LEMMA WithVMType ==
  ASSUME TypeOK, NEW v \in VMs, NEW addr \in IPs
  PROVE  /\ DOMAIN WithVM(v, addr) = DOMAIN vms \cup {v}
         /\ DOMAIN WithVM(v, addr) \subseteq VMs
         /\ WithVM(v, addr) \in [DOMAIN WithVM(v, addr) -> VMRef]
BY DEF TypeOK, WithVM, VMRef

\* Removing guests keeps the type of _vms.
LEMMA WithoutVMsType ==
  ASSUME TypeOK, NEW S
  PROVE  /\ DOMAIN WithoutVMs(S) = DOMAIN vms \ S
         /\ DOMAIN WithoutVMs(S) \subseteq VMs
         /\ WithoutVMs(S) \in [DOMAIN WithoutVMs(S) -> VMRef]
BY DEF TypeOK, WithoutVMs

\* Writing a frame keeps the type of a channel.
LEMMA WrittenType ==
  ASSUME TypeOK, NEW v \in VMs, NEW w \in Words, NEW link
  PROVE  Written(v, w, link) \in Seq(Frame)
<1>1. [word |-> w, ip |-> vmIp[v], ttl |-> Delay] \in Frame
  BY TimingAssumption DEF TypeOK, Frame
<1>2. chan[v] \in Seq(Frame)
  BY DEF TypeOK
<1> QED
  BY <1>1, <1>2 DEF Written

\* The frames that survive a lost connection still form a channel.
LEMMA SurvivorsType ==
  ASSUME TypeOK, NEW v \in VMs, NEW s \in Survivors(v)
  PROVE  /\ s \in Seq(Frame)
         /\ Len(s) <= Len(chan[v])
         /\ \A i \in 1..Len(s) : s[i] = chan[v][i]
<1>1. chan[v] \in Seq(Frame)
  BY DEF TypeOK
<1>2. PICK n \in 0..Len(chan[v]) : s = SubSeq(chan[v], 1, n)
  BY DEF Survivors
<1>3. \A i \in 1..n : chan[v][i] \in Frame
  BY <1>1
<1> QED
  BY <1>1, <1>2, <1>3

\* The history variable keeps its type in steps other than Tick.
LEMMA ObserveType ==
  ASSUME TypeOK, Observe
  PROVE  steady' \in [VMs -> 0..SteadyCap]
BY TimingAssumption DEF TypeOK, Observe, SteadyCap

-----------------------------------------------------------------------------
(* Type correctness *)

\* Time keeps the types: no timer or frame is overdue.
LEMMA TickType ==
  ASSUME TypeOK, Tick PROVE TypeOK'
<1> USE TimingAssumption
<1>1. gcTimer' \in 0..Grace
  BY DEF Tick, NothingDue, TypeOK
<1>2. DOMAIN vms' = DOMAIN vms /\ vms' \in [DOMAIN vms -> VMRef]
  <2>1. vms \in [DOMAIN vms -> VMRef]
    BY DEF TypeOK
  <2>2. vms' = [v \in DOMAIN vms |-> [vms[v] EXCEPT !.age = @ + 1]]
    BY DEF Tick
  <2>3. ASSUME NEW v \in DOMAIN vms
        PROVE  [vms[v] EXCEPT !.age = @ + 1] \in VMRef
    BY <2>1 DEF VMRef
  <2> QED
    BY <2>2, <2>3
<1>3. beacons' \in [VMs -> Seq(0..Beacon)]
  <2>1. SUFFICES ASSUME NEW v \in VMs
        PROVE  [i \in 1..Len(beacons[v]) |->
                 IF power[v] = "on" THEN beacons[v][i] - 1
                 ELSE beacons[v][i]] \in Seq(0..Beacon)
    BY DEF Tick
  <2>2. beacons[v] \in Seq(0..Beacon)
    BY DEF TypeOK
  <2>3. \A i \in 1..Len(beacons[v]) :
          (IF power[v] = "on" THEN beacons[v][i] - 1 ELSE beacons[v][i])
             \in 0..Beacon
    BY <2>2 DEF Tick, NothingDue
  <2> QED
    BY <2>2, <2>3
<1>4. chan' \in [VMs -> Seq(Frame)]
  <2>1. SUFFICES ASSUME NEW v \in VMs
        PROVE  [i \in 1..Len(chan[v]) |-> [chan[v][i] EXCEPT !.ttl = @ - 1]]
                 \in Seq(Frame)
    BY DEF Tick
  <2>2. chan[v] \in Seq(Frame)
    BY DEF TypeOK
  <2>3. ASSUME NEW i \in 1..Len(chan[v])
        PROVE  [chan[v][i] EXCEPT !.ttl = @ - 1] \in Frame
    <3>1. chan[v][i] \in Frame
      BY <2>2
    <3>2. chan[v][i].ttl > 0
      BY DEF Tick, NothingDue
    <3> QED
      BY <3>1, <3>2 DEF Frame
  <2> QED
    BY <2>2, <2>3
<1>5. steady' \in [VMs -> 0..SteadyCap]
  BY DEF Tick, TypeOK, SteadyCap
<1> QED
  BY <1>1, <1>2, <1>3, <1>4, <1>5 DEF Tick, TypeOK

\* The steps of the host keep the types.
LEMMA HostStepType ==
  ASSUME TypeOK, HostStep, Observe PROVE TypeOK'
<1> USE TimingAssumption
<1>0. steady' \in [VMs -> 0..SteadyCap]
  BY ObserveType
<1>1. CASE performVMsGC
  <2>1. DOMAIN vms' \subseteq VMs /\ vms' \in [DOMAIN vms' -> VMRef]
    BY <1>1, WithoutVMsType DEF performVMsGC
  <2>2. gcTimer' \in 0..Grace
    BY <1>1 DEF performVMsGC
  <2> QED
    BY <1>0, <1>1, <2>1, <2>2 DEF performVMsGC, TypeOK, guestVars
<1>2. CASE HostOpen
  BY <1>0, <1>2 DEF HostOpen, TypeOK, guestVars, Links
<1>3. CASE HostConnected
  BY <1>0, <1>3 DEF HostConnected, TypeOK, guestVars, Links
<1>4. CASE HostDrop
  BY <1>0, <1>4 DEF HostDrop, TypeOK, guestVars, Links
<1>5. CASE HostRestart
  <2>1. DOMAIN vms' = {} /\ vms' \in [DOMAIN vms' -> VMRef]
    BY <1>5 DEF HostRestart, NoVMs
  <2> QED
    BY <1>0, <1>5, <2>1 DEF HostRestart, TypeOK, guestVars, Links
<1> QED
  BY <1>1, <1>2, <1>3, <1>4, <1>5 DEF HostStep

\* HELLO and STILL_ALIVE keep the types.
LEMMA HostReceiveType ==
  ASSUME TypeOK, NEW v \in VMs, HostReceive(v)
  PROVE  /\ hostLink' \in Links
         /\ DOMAIN vms' \subseteq VMs
         /\ vms' \in [DOMAIN vms' -> VMRef]
         /\ chan' \in [VMs -> Seq(Frame)]
<1> DEFINE m == Head(chan[v])
<1>1. chan[v] \in Seq(Frame) /\ chan[v] # <<>>
  BY DEF TypeOK, HostReceive
<1>2. m \in Frame /\ m.ip \in IPs
  <2>1. m \in Frame
    BY <1>1
  <2> QED
    BY <2>1 DEF Frame
<1>3. chan' \in [VMs -> Seq(Frame)]
  BY <1>1 DEF HostReceive, TypeOK
<1>4. ASSUME addVM(v, m.ip)
      PROVE  /\ hostLink' \in Links
             /\ DOMAIN vms' \subseteq VMs
             /\ vms' \in [DOMAIN vms' -> VMRef]
  <2>1. hostLink \in Links /\ DOMAIN vms \subseteq VMs
          /\ vms \in [DOMAIN vms -> VMRef]
    BY DEF TypeOK
  <2>2. CASE v \in idsToNames
    <3>1. vms' = WithVM(v, m.ip) /\ hostLink' = hostLink
      BY <1>4, <2>2 DEF addVM
    <3> QED
      BY <1>2, <2>1, <3>1, WithVMType
  <2>3. CASE v \notin idsToNames
    BY <1>4, <2>1, <2>3 DEF addVM, Links
  <2> QED
    BY <2>2, <2>3
<1>5. ASSUME keepVMForNow(v, m.ip)
      PROVE  /\ hostLink' \in Links
             /\ DOMAIN vms' \subseteq VMs
             /\ vms' \in [DOMAIN vms' -> VMRef]
  <2>1. CASE v \in DOMAIN vms
    <3>1. hostLink \in Links /\ DOMAIN vms \subseteq VMs
            /\ vms \in [DOMAIN vms -> VMRef]
      BY DEF TypeOK
    <3>2. vms' = [vms EXCEPT ![v].age = 0] /\ hostLink' = hostLink
      BY <1>5, <2>1 DEF keepVMForNow
    <3>3. [vms[v] EXCEPT !.age = 0] \in VMRef
      BY <2>1, <3>1 DEF VMRef
    <3> QED
      BY <3>1, <3>2, <3>3
  <2>2. CASE v \notin DOMAIN vms
    BY <1>4, <1>5, <2>2 DEF keepVMForNow
  <2> QED
    BY <2>1, <2>2
<1> QED
  BY <1>3, <1>4, <1>5 DEF HostReceive

\* The steps of a guest keep the types.
LEMMA GuestStepType ==
  ASSUME TypeOK, NEW v \in VMs, GuestStep(v), Observe PROVE TypeOK'
<1> USE TimingAssumption
<1>0. steady' \in [VMs -> 0..SteadyCap]
  BY ObserveType
<1>1. CASE HostReceive(v)
  <2>1. /\ hostLink' \in Links
        /\ DOMAIN vms' \subseteq VMs
        /\ vms' \in [DOMAIN vms' -> VMRef]
        /\ chan' \in [VMs -> Seq(Frame)]
    BY <1>1, HostReceiveType
  <2> QED
    BY <1>0, <1>1, <2>1 DEF HostReceive, TypeOK, guestVars
<1>2. CASE BrokerDiscard(v)
  <2>1. chan' \in [VMs -> Seq(Frame)]
    BY <1>2 DEF BrokerDiscard, TypeOK
  <2> QED
    BY <1>0, <1>2, <2>1 DEF BrokerDiscard, TypeOK, hostVars, guestVars
<1>3. CASE GuestOpen(v)
  BY <1>0, <1>3 DEF GuestOpen, TypeOK, hostVars, Links
<1>4. CASE GuestConnected(v)
  <2>1. chan' \in [VMs -> Seq(Frame)]
    BY <1>4, WrittenType DEF GuestConnected, TypeOK, Words
  <2>2. beacons' \in [VMs -> Seq(0..Beacon)]
    BY <1>4 DEF GuestConnected, TypeOK
  <2> QED
    BY <1>0, <1>4, <2>1, <2>2 DEF GuestConnected, TypeOK, hostVars, Links
<1>5. ASSUME NEW i \in 1..Len(beacons[v]), sendBeacon(v, i) PROVE TypeOK'
  <2>1. chan' \in [VMs -> Seq(Frame)]
    BY <1>5, WrittenType DEF sendBeacon, TypeOK, Words
  <2>2. beacons' \in [VMs -> Seq(0..Beacon)]
    BY <1>5 DEF sendBeacon, TypeOK
  <2> QED
    BY <1>0, <1>5, <2>1, <2>2 DEF sendBeacon, TypeOK, hostVars
<1>6. CASE GuestDrop(v)
  <2>1. chan' \in [VMs -> Seq(Frame)]
    BY <1>6, SurvivorsType DEF GuestDrop, TypeOK
  <2> QED
    BY <1>0, <1>6, <2>1 DEF GuestDrop, TypeOK, hostVars, Links
<1>7. ASSUME NEW addr \in IPs, Boot(v, addr) PROVE TypeOK'
  BY <1>0, <1>7 DEF Boot, TypeOK, hostVars, Powers
<1>8. CASE Halt(v)
  <2>1. chan' \in [VMs -> Seq(Frame)]
    BY <1>8, SurvivorsType DEF Halt, TypeOK
  <2>2. beacons' \in [VMs -> Seq(0..Beacon)]
    BY <1>8 DEF Halt, TypeOK
  <2> QED
    BY <1>0, <1>8, <2>1, <2>2 DEF Halt, TypeOK, hostVars, Links, Powers
<1>9. CASE Pause(v)
  BY <1>0, <1>9 DEF Pause, TypeOK, hostVars, Powers
<1>10. CASE Unpause(v)
  BY <1>0, <1>10 DEF Unpause, TypeOK, hostVars, Powers
<1>11. CASE CreateVM(v)
  BY <1>0, <1>11 DEF CreateVM, TypeOK, hostVars, guestVars
<1> QED
  BY <1>1, <1>2, <1>3, <1>4, <1>5, <1>6, <1>7, <1>8, <1>9, <1>10, <1>11
     DEF GuestStep

\* A misread frame is only lost.
LEMMA MisreadType ==
  ASSUME TypeOK, NEW v \in VMs, HostMisread(v) PROVE TypeOK'
<1> USE TimingAssumption DEF SteadyCap
<1>1. chan[v] \in Seq(Frame) /\ chan[v] # <<>>
  BY DEF TypeOK, HostMisread
<1>2. chan' \in [VMs -> Seq(Frame)]
  BY <1>1 DEF HostMisread, TypeOK
<1>3. steady' \in [VMs -> 0..SteadyCap] /\ faults' \in 0..MaxFaults
  BY DEF HostMisread, TypeOK
<1> QED
  BY <1>2, <1>3 DEF HostMisread, TypeOK, hostVars, guestVars

\* Every step keeps the types.
LEMMA NextType ==
  ASSUME TypeOK, [Next]_vars PROVE TypeOK'
<1>1. CASE UNCHANGED vars
  BY <1>1 DEF vars, TypeOK
<1> QED
  BY <1>1, TickType, HostStepType, GuestStepType, MisreadType DEF Next

\* Every variable of the host, of the guests and of the broker keeps its type:
\* no timer runs below zero and no frame is older than Delay.
THEOREM TypeCorrect == Spec => []TypeOK
BY InitType, NextType, PTL DEF Spec

-----------------------------------------------------------------------------
(* The effect of a frame on the registry *)

\* addVM registers the guest with age 0 or closes the connection.
LEMMA AddEffect ==
  ASSUME TypeOK, NEW v \in VMs, NEW addr \in IPs, addVM(v, addr)
  PROVE  \/ hostLink' = "down" /\ vms' = vms
         \/ /\ hostLink' = hostLink
            /\ DOMAIN vms' = DOMAIN vms \cup {v}
            /\ vms'[v].age = 0
            /\ \A w \in DOMAIN vms \ {v} : vms'[w] = vms[w]
BY DEF addVM, WithVM

\* A frame makes its guest young, or ends the connection.
LEMMA ReceiveEffect ==
  ASSUME TypeOK, NEW v \in VMs, HostReceive(v)
  PROVE  \/ hostLink' = "down" /\ vms' = vms
         \/ /\ hostLink' = hostLink
            /\ DOMAIN vms' = DOMAIN vms \cup {v}
            /\ vms'[v].age = 0
            /\ \A w \in DOMAIN vms \ {v} : vms'[w] = vms[w]
<1> DEFINE m == Head(chan[v])
<1>1. m \in Frame
  BY DEF TypeOK, HostReceive
<1>2. m.ip \in IPs
  BY <1>1 DEF Frame
<1>3. CASE addVM(v, m.ip)
  BY <1>2, <1>3, AddEffect
<1>4. CASE keepVMForNow(v, m.ip)
  <2>1. CASE v \notin DOMAIN vms
    BY <1>3, <1>4, <2>1 DEF keepVMForNow
  <2>2. CASE v \in DOMAIN vms
    <3>1. vms' = [vms EXCEPT ![v].age = 0] /\ hostLink' = hostLink
      BY <1>4, <2>2 DEF keepVMForNow
    <3>2. vms \in [DOMAIN vms -> VMRef]
      BY DEF TypeOK
    <3> QED
      BY <2>2, <3>1, <3>2 DEF VMRef
  <2> QED
    BY <2>1, <2>2
<1> QED
  BY <1>3, <1>4 DEF HostReceive

-----------------------------------------------------------------------------
(* The collector bounds the age of what the registry holds *)

\* Every step preserves BoundedStaleness.
LEMMA StalenessStep ==
  ASSUME TypeOK, BoundedStaleness, [Next]_vars PROVE BoundedStaleness'
<1> USE TimingAssumption
<1>0. /\ gcTimer \in 0..Grace
      /\ \A v \in DOMAIN vms : vms[v].age \in Nat
  BY DEF TypeOK, VMRef
<1>1. CASE UNCHANGED <<vms, gcTimer>>
  BY <1>1 DEF BoundedStaleness
<1>2. CASE Tick
  <2>1. gcTimer' = gcTimer - 1 /\ DOMAIN vms' = DOMAIN vms
    BY <1>2 DEF Tick
  <2>2. \A v \in DOMAIN vms : vms'[v].age = vms[v].age + 1
    BY <1>2 DEF Tick, TypeOK, VMRef
  <2> QED
    BY <1>0, <2>1, <2>2 DEF BoundedStaleness
<1>3. CASE performVMsGC
  <2>1. gcTimer' = Grace
    BY <1>3 DEF performVMsGC
  <2>2. \A v \in DOMAIN vms' :
          v \in DOMAIN vms /\ vms'[v] = vms[v] /\ ~IsDead(v)
    BY <1>3 DEF performVMsGC, WithoutVMs
  <2> QED
    BY <1>0, <2>1, <2>2 DEF BoundedStaleness, IsDead
<1>4. CASE HostRestart
  BY <1>4 DEF HostRestart, NoVMs, BoundedStaleness
<1>5. ASSUME NEW v \in VMs, HostReceive(v) PROVE BoundedStaleness'
  <2>1. gcTimer' = gcTimer
    BY <1>5 DEF HostReceive
  <2>2. \A w \in DOMAIN vms' :
          (w \in DOMAIN vms /\ vms'[w] = vms[w]) \/ vms'[w].age = 0
    BY <1>5, ReceiveEffect
  <2> QED
    BY <1>0, <2>1, <2>2 DEF BoundedStaleness
<1>6. CASE UNCHANGED vars
  BY <1>1, <1>6 DEF vars
<1>7. ASSUME HostStep PROVE BoundedStaleness'
  BY <1>1, <1>3, <1>4, <1>7 DEF HostStep, HostOpen, HostConnected, HostDrop
<1>8. ASSUME NEW v \in VMs, GuestStep(v) PROVE BoundedStaleness'
  BY <1>1, <1>5, <1>8 DEF GuestStep, BrokerDiscard, GuestOpen, GuestConnected,
       sendBeacon, GuestDrop, Boot, Halt, Pause, Unpause, CreateVM, hostVars
<1>9. ASSUME NEW v \in VMs, HostMisread(v) PROVE BoundedStaleness'
  BY <1>1, <1>9 DEF HostMisread, hostVars
<1> QED
  BY <1>2, <1>6, <1>7, <1>8, <1>9 DEF Next

\* For any grace period and any number of faults, no entry of _vms is ever
\* older than 1.5 grace periods at the latest run of _performVMsGC plus the
\* time since.
THEOREM Staleness == Spec => []BoundedStaleness
<1>1. Init => BoundedStaleness
  BY DEF Init, NoVMs, BoundedStaleness
<1> QED
  BY <1>1, TypeCorrect, StalenessStep, PTL DEF Spec

-----------------------------------------------------------------------------
(* A guest that stays connected stays known *)

\* Nothing that concerns w changes.
LEMMA SameGuest ==
  ASSUME SteadyInv, Observe, NEW w \in VMs,
         hostLink' = hostLink, power'[w] = power[w], vmLink'[w] = vmLink[w],
         chan'[w] = chan[w], beacons'[w] = beacons[w],
         w \in DOMAIN vms' <=> w \in DOMAIN vms,
         w \in DOMAIN vms => vms'[w] = vms[w]
  PROVE  SteadyGuest(w)'
<1>1. SteadyGuest(w)
  BY DEF SteadyInv
<1>2. Up(w)' <=> Up(w)
  BY DEF Up
<1>3. steady'[w] = steady[w]
  BY <1>1, <1>2 DEF Observe, SteadyGuest
<1>4. Silence(w)' = Silence(w)
  BY <1>3 DEF Silence
<1> QED
  BY <1>1, <1>2, <1>3, <1>4 DEF SteadyGuest, NewsComing

\* w, the host or the broker is not connected after the step.
LEMMA DownGuest ==
  ASSUME Observe, NEW w \in VMs, ~Up(w)',
         vmLink'[w] = "connected" => beacons'[w] # <<>>
  PROVE  SteadyGuest(w)'
BY DEF Observe, SteadyGuest

\* There is news of w, or everything is connected only now.
LEMMA FreshGuest ==
  ASSUME TypeOK', Observe, NEW w \in VMs, Silence(w)' = 0,
         vmLink'[w] = "connected" => beacons'[w] # <<>>
  PROVE  SteadyGuest(w)'
<1> USE TimingAssumption
<1>1. CASE ~Up(w)'
  BY <1>1, DownGuest
<1>2. CASE Up(w)'
  <2>1. beacons'[w] \in Seq(0..Beacon) /\ beacons'[w] # <<>>
    BY <1>2 DEF TypeOK, Up
  <2>2. 1 \in 1..Len(beacons'[w]) /\ beacons'[w][1] \in 0..Beacon
    BY <2>1
  <2>3. NewsComing(w)'
    BY <2>2 DEF NewsComing
  <2> QED
    BY <1>2, <2>1, <2>3 DEF SteadyGuest
<1> QED
  BY <1>1, <1>2

\* After news, or a new connection, there is no silence.
LEMMA SilenceZero ==
  ASSUME TypeOK, NEW w \in VMs, steady[w] = 0 PROVE Silence(w) = 0
BY DEF TypeOK, Silence, VMRef

\* The silence of a guest whose news is coming is short.
LEMMA SilenceBound ==
  ASSUME TypeOK, NEW w \in VMs, NewsComing(w)
  PROVE  Silence(w) <= Beacon + Delay
<1> USE TimingAssumption
<1>1. Silence(w) \in Nat
  BY DEF TypeOK, Silence, VMRef
<1>2. ASSUME NEW i \in 1..Len(chan[w]) PROVE chan[w][i].ttl \in Nat
  <2>1. chan[w][i] \in Frame
    BY DEF TypeOK
  <2> QED
    BY <2>1 DEF Frame
<1>3. ASSUME NEW i \in 1..Len(beacons[w]) PROVE beacons[w][i] \in Nat
  BY DEF TypeOK
<1> QED
  BY <1>1, <1>2, <1>3 DEF NewsComing

\* Time lengthens the silence and shortens the wait for news alike.
LEMMA SteadyTick ==
  ASSUME TypeOK, SteadyInv, Tick PROVE SteadyInv'
<1> USE TimingAssumption
<1> SUFFICES ASSUME NEW v \in VMs PROVE SteadyGuest(v)'
  BY DEF SteadyInv
<1>1. SteadyGuest(v)
  BY DEF SteadyInv
<1>2. Up(v)' <=> Up(v)
  BY DEF Tick, Up
<1>3. /\ beacons[v] \in Seq(0..Beacon)
      /\ chan[v] \in Seq(Frame)
      /\ steady[v] \in 0..SteadyCap
  BY DEF TypeOK
<1>4. /\ Len(beacons'[v]) = Len(beacons[v])
      /\ Len(chan'[v]) = Len(chan[v])
  BY <1>3 DEF Tick
<1>5. vmLink'[v] = "connected" => beacons'[v] # <<>>
  <2>1. vmLink'[v] = "connected" => beacons[v] # <<>>
    BY <1>1 DEF Tick, SteadyGuest
  <2>2. beacons[v] # <<>> => Len(beacons[v]) # 0
    BY <1>3
  <2> QED
    BY <1>4, <2>1, <2>2
<1>6. CASE ~Up(v)
  <2>1. steady'[v] = 0
    BY <1>6 DEF Tick
  <2> QED
    BY <1>2, <1>5, <1>6, <2>1 DEF SteadyGuest
<1>7. CASE Up(v)
  <2>1. steady'[v] \in Nat /\ steady'[v] <= steady[v] + 1
    BY <1>3, <1>7 DEF Tick, SteadyCap
  <2>2. v \in DOMAIN vms' <=> v \in DOMAIN vms
    BY DEF Tick
  <2>3. v \in DOMAIN vms => /\ vms[v].age \in Nat
                            /\ vms'[v].age = vms[v].age + 1
    BY DEF Tick, TypeOK, VMRef
  <2>4. /\ Silence(v) \in Nat
        /\ Silence(v)' \in Nat
        /\ Silence(v)' <= Silence(v) + 1
    BY <1>3, <2>1, <2>2, <2>3 DEF Silence
  <2>5. ASSUME NEW i \in 1..Len(chan[v])
        PROVE  chan[v][i].ttl \in Nat /\ chan'[v][i].ttl = chan[v][i].ttl - 1
    <3>1. chan[v][i] \in Frame
      BY <1>3
    <3>2. chan'[v][i] = [chan[v][i] EXCEPT !.ttl = @ - 1]
      BY DEF Tick
    <3> QED
      BY <3>1, <3>2 DEF Frame
  <2>6. ASSUME NEW i \in 1..Len(beacons[v])
        PROVE  beacons[v][i] \in Nat /\ beacons'[v][i] = beacons[v][i] - 1
    BY <1>3, <1>7 DEF Tick, Up
  <2>7. NewsComing(v)
    BY <1>1, <1>7 DEF SteadyGuest
  <2>8. NewsComing(v)'
    <3>1. CASE \E i \in 1..Len(chan[v]) :
                 Silence(v) + chan[v][i].ttl <= Beacon + Delay
      <4>1. PICK i \in 1..Len(chan[v]) :
              Silence(v) + chan[v][i].ttl <= Beacon + Delay
        BY <3>1
      <4>2. Silence(v)' + chan'[v][i].ttl <= Beacon + Delay
        BY <2>4, <2>5, <4>1
      <4> QED
        BY <1>4, <4>2 DEF NewsComing
    <3>2. CASE \E i \in 1..Len(beacons[v]) :
                 Silence(v) + beacons[v][i] <= Beacon
      <4>1. PICK i \in 1..Len(beacons[v]) :
              Silence(v) + beacons[v][i] <= Beacon
        BY <3>2
      <4>2. Silence(v)' + beacons'[v][i] <= Beacon
        BY <2>4, <2>6, <4>1
      <4> QED
        BY <1>4, <4>2 DEF NewsComing
    <3> QED
      BY <2>7, <3>1, <3>2 DEF NewsComing
  <2> QED
    BY <1>2, <1>5, <1>7, <2>8 DEF SteadyGuest
<1> QED
  BY <1>6, <1>7

\* _performVMsGC does not touch a guest that has news coming.
LEMMA SteadyCollect ==
  ASSUME TypeOK, SteadyInv, performVMsGC, Observe PROVE SteadyInv'
<1> USE TimingAssumption
<1> SUFFICES ASSUME NEW v \in VMs PROVE SteadyGuest(v)'
  BY DEF SteadyInv
<1>1. SteadyGuest(v)
  BY DEF SteadyInv
<1>2. /\ hostLink' = hostLink /\ power' = power /\ vmLink' = vmLink
      /\ chan' = chan /\ beacons' = beacons
  BY DEF performVMsGC, guestVars
<1>3. /\ DOMAIN vms' \subseteq DOMAIN vms
      /\ \A w \in DOMAIN vms' : vms'[w] = vms[w]
      /\ \A w \in DOMAIN vms \ DOMAIN vms' : IsDead(w)
  BY DEF performVMsGC, WithoutVMs
<1>4. CASE v \in DOMAIN vms' \/ v \notin DOMAIN vms
  BY <1>2, <1>3, <1>4, SameGuest
<1>5. CASE v \in DOMAIN vms \ DOMAIN vms' /\ ~Up(v)
  BY <1>1, <1>2, <1>5, DownGuest DEF Up, SteadyGuest
<1>6. CASE v \in DOMAIN vms \ DOMAIN vms' /\ Up(v)
  <2>1. NewsComing(v)
    BY <1>1, <1>6 DEF SteadyGuest
  <2>2. Silence(v) <= Beacon + Delay
    BY <2>1, SilenceBound
  <2>3. vms[v].age \in Nat /\ steady[v] \in Nat
    BY <1>6 DEF TypeOK, VMRef
  <2>4. vms[v].age > Beacon + Delay
    BY <1>3, <1>6, <2>3, BeaconAssumption DEF IsDead
  <2>5. Silence(v) = steady[v]
    BY <2>2, <2>3, <2>4 DEF Silence
  <2>6. Up(v)'
    BY <1>2, <1>6 DEF Up
  <2>7. steady'[v] = steady[v]
    BY <2>6 DEF Observe
  <2>8. Silence(v)' = Silence(v)
    BY <1>6, <2>5, <2>7 DEF Silence
  <2> QED
    BY <1>1, <1>2, <2>1, <2>6, <2>8 DEF SteadyGuest, NewsComing
<1> QED
  BY <1>4, <1>5, <1>6

\* The steps of the host preserve SteadyInv.
LEMMA SteadyHost ==
  ASSUME TypeOK, TypeOK', SteadyInv, HostStep, Observe PROVE SteadyInv'
<1> SUFFICES ASSUME NEW v \in VMs, ~performVMsGC PROVE SteadyGuest(v)'
  BY SteadyCollect DEF SteadyInv
<1>1. SteadyGuest(v)
  BY DEF SteadyInv
<1>2. /\ power' = power /\ vmLink' = vmLink
      /\ chan' = chan /\ beacons' = beacons
  BY DEF HostStep, HostOpen, HostConnected, HostDrop, HostRestart, guestVars
<1>3. CASE HostConnected
  <2>1. steady[v] = 0
    BY <1>1, <1>3 DEF HostConnected, SteadyGuest, Up
  <2>2. steady'[v] = 0
    BY <2>1 DEF Observe
  <2>3. Silence(v)' = 0
    BY <2>2, <1>3 DEF Silence, TypeOK, VMRef, HostConnected
  <2> QED
    BY <1>1, <1>2, <2>3, FreshGuest DEF SteadyGuest
<1>4. CASE HostOpen \/ HostDrop \/ HostRestart
  <2>1. ~Up(v)'
    BY <1>4 DEF HostOpen, HostDrop, HostRestart, Up
  <2> QED
    BY <1>1, <1>2, <2>1, DownGuest DEF SteadyGuest
<1> QED
  BY <1>3, <1>4 DEF HostStep

\* A received frame ends the silence of its guest.
LEMMA SteadyReceive ==
  ASSUME TypeOK, TypeOK', SteadyInv, NEW v \in VMs, HostReceive(v), Observe
  PROVE  SteadyInv'
<1> SUFFICES ASSUME NEW w \in VMs PROVE SteadyGuest(w)'
  BY DEF SteadyInv
<1>1. SteadyGuest(w)
  BY DEF SteadyInv
<1>2. /\ power' = power /\ vmLink' = vmLink /\ beacons' = beacons
      /\ w # v => chan'[w] = chan[w]
  BY DEF HostReceive, guestVars, TypeOK
<1>3. CASE hostLink' = "down"
  BY <1>1, <1>2, <1>3, DownGuest DEF SteadyGuest, Up
<1>4. CASE /\ hostLink' = hostLink
           /\ DOMAIN vms' = DOMAIN vms \cup {v}
           /\ vms'[v].age = 0
           /\ \A u \in DOMAIN vms \ {v} : vms'[u] = vms[u]
  <2>1. CASE w # v
    BY <1>2, <1>4, <2>1, SameGuest
  <2>2. CASE w = v
    <3>1. steady'[v] \in Nat
      BY DEF TypeOK
    <3>2. Silence(v)' = 0
      BY <1>4, <3>1 DEF Silence
    <3> QED
      BY <1>1, <1>2, <2>2, <3>2, FreshGuest DEF SteadyGuest
  <2> QED
    BY <2>1, <2>2
<1> QED
  BY <1>3, <1>4, ReceiveEffect

\* A beacon turns the countdown of its loop into a frame under way.
LEMMA SteadyBeacon ==
  ASSUME TypeOK, TypeOK', SteadyInv, NEW v \in VMs,
         NEW k \in 1..Len(beacons[v]), sendBeacon(v, k), Observe
  PROVE  SteadyGuest(v)'
<1> USE TimingAssumption
<1>1. SteadyGuest(v)
  BY DEF SteadyInv
<1>2. /\ hostLink' = hostLink /\ power' = power /\ vmLink' = vmLink
      /\ vms' = vms
  BY DEF sendBeacon, hostVars
<1>3. beacons[v] \in Seq(0..Beacon) /\ chan[v] \in Seq(Frame)
  BY DEF TypeOK
<1>4. /\ Len(beacons'[v]) = Len(beacons[v])
      /\ beacons[v][k] = 0
      /\ \A i \in 1..Len(beacons[v]) \ {k} : beacons'[v][i] = beacons[v][i]
  BY <1>3 DEF sendBeacon, TypeOK
<1>5. CASE ~Up(v)
  BY <1>1, <1>2, <1>3, <1>4, <1>5, DownGuest DEF SteadyGuest, Up
<1>6. CASE Up(v)
  <2>1. Up(v)' /\ NewsComing(v)
    BY <1>1, <1>2, <1>6 DEF Up, SteadyGuest
  <2>2. steady'[v] = steady[v] /\ Silence(v)' = Silence(v)
    BY <1>2, <2>1 DEF Observe, Silence
  <2>3. chan'[v] = Append(chan[v], [word |-> "STILL_ALIVE", ip |-> vmIp[v],
                                     ttl |-> Delay])
    BY <1>6 DEF sendBeacon, Written, Up, TypeOK
  <2>4. /\ Len(chan'[v]) = Len(chan[v]) + 1
        /\ \A i \in 1..Len(chan[v]) : chan'[v][i] = chan[v][i]
        /\ chan'[v][Len(chan[v]) + 1].ttl = Delay
    BY <1>3, <2>3
  <2>5. Silence(v) \in Nat /\ Len(chan[v]) \in Nat
    BY <1>3 DEF TypeOK, Silence, VMRef
  <2>6. NewsComing(v)'
    <3>1. CASE \E i \in 1..Len(chan[v]) :
                 Silence(v) + chan[v][i].ttl <= Beacon + Delay
      <4>1. PICK i \in 1..Len(chan[v]) :
              Silence(v) + chan[v][i].ttl <= Beacon + Delay
        BY <3>1
      <4>2. /\ i \in 1..Len(chan'[v])
            /\ Silence(v)' + chan'[v][i].ttl <= Beacon + Delay
        BY <2>2, <2>4, <2>5, <4>1
      <4> QED
        BY <4>2 DEF NewsComing
    <3>2. CASE \E i \in 1..Len(beacons[v]) \ {k} :
                 Silence(v) + beacons[v][i] <= Beacon
      BY <1>4, <2>2, <3>2 DEF NewsComing
    <3>3. CASE Silence(v) + beacons[v][k] <= Beacon
      <4>1. Silence(v)' + chan'[v][Len(chan[v]) + 1].ttl <= Beacon + Delay
        BY <1>4, <2>2, <2>4, <2>5, <3>3
      <4> QED
        BY <2>4, <2>5, <4>1 DEF NewsComing
    <3> QED
      BY <2>1, <3>1, <3>2, <3>3 DEF NewsComing
  <2> QED
    BY <1>1, <1>2, <1>3, <1>4, <2>1, <2>6 DEF SteadyGuest
<1> QED
  BY <1>5, <1>6

\* The steps of a guest preserve SteadyInv.
LEMMA SteadyGuestStep ==
  ASSUME TypeOK, TypeOK', SteadyInv, NEW v \in VMs, GuestStep(v), Observe
  PROVE  SteadyInv'
<1> SUFFICES ASSUME NEW w \in VMs, ~HostReceive(v) PROVE SteadyGuest(w)'
  BY SteadyReceive DEF SteadyInv
<1>1. SteadyGuest(w)
  BY DEF SteadyInv
<1>2. CASE BrokerDiscard(v)
  <2>1. ~Up(w)' /\ vmLink' = vmLink /\ beacons' = beacons
    BY <1>2 DEF BrokerDiscard, Up, hostVars, guestVars
  <2> QED
    BY <1>1, <2>1, DownGuest DEF SteadyGuest
<1> SUFFICES ASSUME ~BrokerDiscard(v) PROVE SteadyGuest(w)'
  BY <1>2
<1>3. hostLink' = hostLink /\ vms' = vms
  BY DEF GuestStep, GuestOpen, GuestConnected, sendBeacon, GuestDrop, Boot,
         Halt, Pause, Unpause, CreateVM, hostVars
<1>4. CASE w # v
  <2>1. /\ power'[w] = power[w] /\ vmLink'[w] = vmLink[w]
        /\ chan'[w] = chan[w] /\ beacons'[w] = beacons[w]
    BY <1>4 DEF GuestStep, GuestOpen, GuestConnected, sendBeacon, GuestDrop,
         Boot, Halt, Pause, Unpause, CreateVM, guestVars, TypeOK
  <2> QED
    BY <1>3, <2>1, SameGuest
<1> SUFFICES ASSUME w = v PROVE SteadyGuest(v)'
  BY <1>4
<1>5. CASE GuestOpen(v) \/ GuestDrop(v) \/ Halt(v)
  <2>1. vmLink'[v] # "connected"
    BY <1>5 DEF GuestOpen, GuestDrop, Halt, TypeOK
  <2> QED
    BY <2>1, DownGuest DEF Up
<1>6. CASE Pause(v)
  <2>1. power'[v] # "on" /\ vmLink' = vmLink /\ beacons' = beacons
    BY <1>6 DEF Pause, TypeOK
  <2> QED
    BY <1>1, <2>1, DownGuest DEF Up, SteadyGuest
<1>7. CASE CreateVM(v)
  BY <1>3, <1>7, SameGuest DEF CreateVM, guestVars
<1>8. ASSUME NEW i \in 1..Len(beacons[v]), sendBeacon(v, i)
      PROVE  SteadyGuest(v)'
  BY <1>8, SteadyBeacon
<1>9. CASE GuestConnected(v) \/ (\E a \in IPs : Boot(v, a)) \/ Unpause(v)
  <2>1. ~Up(v)
    BY <1>9 DEF GuestConnected, Boot, Unpause, Up
  <2>2. steady'[v] = 0
    BY <1>1, <2>1 DEF Observe, SteadyGuest
  <2>3. Silence(v)' = 0
    BY <2>2 DEF TypeOK, Silence, VMRef
  <2>4. vmLink'[v] = "connected" => beacons'[v] # <<>>
    <3>1. CASE GuestConnected(v)
      <4>1. /\ beacons[v] \in Seq(0..Beacon)
            /\ beacons'[v] = Append(beacons[v], Beacon)
        BY <3>1 DEF GuestConnected, TypeOK
      <4> QED
        BY <4>1
    <3>2. CASE (\E a \in IPs : Boot(v, a)) \/ Unpause(v)
      BY <1>1, <3>2 DEF Boot, Unpause, SteadyGuest
    <3> QED
      BY <1>9, <3>1, <3>2
  <2> QED
    BY <2>3, <2>4, FreshGuest
<1> QED
  BY <1>5, <1>6, <1>7, <1>8, <1>9 DEF GuestStep

\* A misread frame begins the contact with its guest anew.
LEMMA SteadyMisread ==
  ASSUME TypeOK, TypeOK', SteadyInv, NEW v \in VMs, HostMisread(v)
  PROVE  SteadyInv'
<1> SUFFICES ASSUME NEW w \in VMs PROVE SteadyGuest(w)'
  BY DEF SteadyInv
<1>1. SteadyGuest(w)
  BY DEF SteadyInv
<1>2. /\ hostLink' = hostLink /\ power' = power /\ vmLink' = vmLink
      /\ beacons' = beacons /\ vms' = vms
      /\ steady' = [steady EXCEPT ![v] = 0]
      /\ chan' = [chan EXCEPT ![v] = Tail(@)]
  BY DEF HostMisread, hostVars, guestVars
<1>3. Up(w)' <=> Up(w)
  BY <1>2 DEF Up
<1>4. CASE w # v
  <2>1. steady'[w] = steady[w] /\ chan'[w] = chan[w]
    BY <1>2, <1>4
  <2>2. Silence(w)' = Silence(w)
    BY <1>2, <2>1 DEF Silence
  <2> QED
    BY <1>1, <1>2, <1>3, <2>1, <2>2 DEF SteadyGuest, NewsComing
<1>5. CASE w = v
  <2>1. steady'[w] = 0
    BY <1>2, <1>5 DEF TypeOK
  <2>2. Silence(w)' = 0
    <3>1. w \in DOMAIN vms' => vms'[w].age \in Nat
      BY DEF TypeOK, VMRef
    <3> QED
      BY <2>1, <3>1 DEF Silence
  <2>3. CASE Up(w)
    <3>1. beacons'[w] \in Seq(0..Beacon) /\ beacons'[w] # <<>>
      BY <1>1, <1>2, <2>3 DEF TypeOK, SteadyGuest, Up
    <3>2. 1 \in 1..Len(beacons'[w]) /\ beacons'[w][1] \in 0..Beacon
      BY <3>1, TimingAssumption
    <3>4. Silence(w)' + beacons'[w][1] <= Beacon
      BY <2>2, <3>2, TimingAssumption
    <3>3. NewsComing(w)'
      BY <3>2, <3>4 DEF NewsComing
    <3> QED
      BY <1>1, <1>2, <1>3, <2>3, <3>3 DEF SteadyGuest
  <2> QED
    BY <1>1, <1>2, <1>3, <2>1, <2>3 DEF SteadyGuest
<1> QED
  BY <1>4, <1>5

\* Every step preserves SteadyInv.
LEMMA SteadyStep ==
  ASSUME TypeOK, TypeOK', SteadyInv, [Next]_vars PROVE SteadyInv'
<1>1. CASE UNCHANGED vars
  BY <1>1 DEF vars, SteadyInv, SteadyGuest, NewsComing, Silence, Up
<1> QED
  BY <1>1, SteadyTick, SteadyHost, SteadyGuestStep, SteadyMisread DEF Next

\* The inductive invariant: at every moment news of each connected guest is
\* due in time.
THEOREM SteadyInvariant == Spec => []SteadyInv
<1>1. Init => SteadyInv
  BY DEF Init, SteadyInv, SteadyGuest, Up
<1> QED
  BY <1>1, TypeCorrect, SteadyStep, PTL DEF Spec

\* SteadyInv and the types give AwareWhenSteady.
LEMMA SteadyAware ==
  ASSUME TypeOK, SteadyInv PROVE AwareWhenSteady
<1> USE TimingAssumption DEF SteadyCap
<1> SUFFICES ASSUME NEW v \in VMs, steady[v] = SteadyCap
    PROVE  v \in DOMAIN vms /\ vms[v].age <= Beacon + Delay
  BY DEF AwareWhenSteady
<1>1. NewsComing(v)
  BY DEF SteadyInv, SteadyGuest
<1>2. Silence(v) <= Beacon + Delay
  BY <1>1, SilenceBound
<1> QED
  BY <1>2 DEF Silence

\* Whatever happened before, once guest, host and broker have been connected
\* for longer than a beacon interval and a delay, the host knows the guest and
\* has heard of it recently: for every number of guests and faults.
THEOREM Aware == Spec => []AwareWhenSteady
BY TypeCorrect, SteadyInvariant, SteadyAware, PTL

\* _performVMsGC never removes such a guest, provided that beacon_interval and
\* delay together are at most 1.5 * vm_gc_grace.
THEOREM NeverFalselyRemoved == Spec => NoFalseRemoval
<1>1. ASSUME TypeOK, SteadyInv, [Next]_vars
      PROVE  [\A v \in DOMAIN vms \ DOMAIN vms' :
                \/ steady[v] < SteadyCap
                \/ hostLink' # "connected"]_vars
  <2> SUFFICES ASSUME NEW v \in DOMAIN vms \ DOMAIN vms', Next
      PROVE  steady[v] < SteadyCap \/ hostLink' # "connected"
    BY <1>1
  <2>1. v \in VMs /\ steady[v] \in 0..SteadyCap /\ vms[v].age \in Nat
    BY <1>1 DEF TypeOK, VMRef
  <2>2. CASE performVMsGC
    <3>1. 2 * vms[v].age > 3 * Grace
      BY <2>2 DEF performVMsGC, WithoutVMs, IsDead
    <3>2. vms[v].age > Beacon + Delay
      BY <2>1, <3>1, BeaconAssumption, TimingAssumption
    <3>3. steady[v] # SteadyCap
      BY <1>1, <2>1, <3>2, SteadyAware, TimingAssumption DEF AwareWhenSteady
    <3> QED
      BY <2>1, <3>3, TimingAssumption DEF SteadyCap
  <2>3. CASE Tick
    BY <2>3 DEF Tick
  <2>4. CASE HostRestart
    BY <2>4 DEF HostRestart
  <2>5. CASE HostOpen \/ HostConnected \/ HostDrop
    BY <2>5 DEF HostOpen, HostConnected, HostDrop
  <2>6. ASSUME NEW w \in VMs, HostReceive(w) PROVE FALSE
    BY <1>1, <2>6, ReceiveEffect
  <2>7. ASSUME NEW w \in VMs, GuestStep(w) PROVE FALSE
    BY <2>6, <2>7 DEF GuestStep, BrokerDiscard, GuestOpen, GuestConnected,
       sendBeacon, GuestDrop, Boot, Halt, Pause, Unpause, CreateVM, hostVars
  <2>8. ASSUME NEW w \in VMs, HostMisread(w) PROVE FALSE
    BY <2>8 DEF HostMisread, hostVars
  <2> QED
    BY <2>2, <2>3, <2>4, <2>5, <2>7, <2>8 DEF Next, HostStep
<1> QED
  BY <1>1, TypeCorrect, SteadyInvariant, PTL DEF Spec, NoFalseRemoval

-----------------------------------------------------------------------------
(* The agent implements a failure detector *)

\* The time since each registered guest was heard of
Ages == [v \in DOMAIN vms |-> vms[v].age]

\* Steps other than Tick may only interrupt the contact.
LEMMA ContactKept ==
  ASSUME TypeOK, Observe
  PROVE  Detector!Interrupted
<1>1. steady' \in [VMs -> 0..SteadyCap]
  BY ObserveType
<1>2. \A v \in VMs : steady'[v] \in {0, steady[v]}
  BY DEF Observe
<1> QED
  BY <1>1, <1>2 DEF Detector!Interrupted

\* Registered guests that are in contact were heard of lately.
LEMMA AwareAccurate ==
  ASSUME TypeOK, AwareWhenSteady
  PROVE  Detector!Accurate
<1> SUFFICES ASSUME NEW v \in VMs, steady[v] = SteadyCap
             PROVE  v \in DOMAIN Ages /\ Ages[v] < SteadyCap
  BY DEF Detector!Accurate, Ages
<1>1. v \in DOMAIN vms /\ vms[v].age <= Beacon + Delay
  BY DEF AwareWhenSteady
<1>2. vms[v].age \in Nat
  BY <1>1 DEF TypeOK, VMRef
<1> QED
  BY <1>1, <1>2, TimingAssumption DEF Ages, SteadyCap

\* Tick is a step of the detector's clock: the collector has not let any entry
\* grow too old.
LEMMA DetectorTick ==
  ASSUME TypeOK, TypeOK', BoundedStaleness, Tick
  PROVE  Detector!Pass
<1>1. ASSUME NEW v \in DOMAIN vms PROVE 2 * (vms[v].age + 1) <= 5 * Grace
  <2>1. vms[v].age \in Nat /\ gcTimer \in 0..Grace /\ gcTimer > 0
    BY DEF TypeOK, VMRef, Tick, NothingDue
  <2>2. 2 * vms[v].age <= 3 * Grace + 2 * (Grace - gcTimer)
    BY DEF BoundedStaleness
  <2> QED
    BY <2>1, <2>2, TimingAssumption
<1>2. Ages' = [v \in DOMAIN vms |-> vms[v].age + 1]
  <2>1. vms' = [v \in DOMAIN vms |-> [vms[v] EXCEPT !.age = @ + 1]]
    BY DEF Tick
  <2>2. ASSUME NEW v \in DOMAIN vms PROVE vms'[v].age = vms[v].age + 1
    BY <2>1 DEF TypeOK, VMRef
  <2> QED
    BY <2>1, <2>2 DEF Ages
<1>3. steady' \in [VMs -> 0..SteadyCap]
  BY DEF TypeOK
<1>4. \A v \in VMs :
        steady'[v] \in {0, IF steady[v] < SteadyCap THEN steady[v] + 1 ELSE SteadyCap}
  BY DEF Tick
<1> QED
  BY <1>1, <1>2, <1>3, <1>4 DEF Detector!Pass, Ages

\* A frame is news of its guest, or interrupts the contact.
LEMMA DetectorReceive ==
  ASSUME TypeOK, NEW v \in VMs, HostReceive(v), Observe
  PROVE  Detector!Hear(v) \/ Detector!Lose
<1>1. CASE hostLink' = "down" /\ vms' = vms
  BY <1>1, ContactKept DEF Detector!Lose
<1>2. CASE /\ DOMAIN vms' = DOMAIN vms \cup {v}
           /\ vms'[v].age = 0
           /\ \A w \in DOMAIN vms \ {v} : vms'[w] = vms[w]
  <2>1. Ages' = [w \in DOMAIN Ages \cup {v} |-> IF w = v THEN 0 ELSE Ages[w]]
    BY <1>2 DEF Ages
  <2> QED
    BY <2>1, ContactKept DEF Detector!Hear, Ages
<1> QED
  BY <1>1, <1>2, ReceiveEffect

\* The collector expels silent guests only, and none that is in contact.
LEMMA DetectorCollect ==
  ASSUME TypeOK, AwareWhenSteady, performVMsGC, Observe
  PROVE  \E S \in SUBSET DOMAIN vms : Detector!Expel(S)
<1> DEFINE S == {v \in DOMAIN vms : IsDead(v)}
<1>1. Ages' = [w \in DOMAIN Ages \ S |-> Ages[w]]
  BY DEF performVMsGC, WithoutVMs, Ages
<1>2. ASSUME NEW v \in S PROVE 2 * Ages[v] > 3 * Grace /\ steady[v] < SteadyCap
  <2>1. 2 * vms[v].age > 3 * Grace /\ v \in VMs
    BY DEF IsDead, TypeOK
  <2>2. vms[v].age \in Nat /\ steady[v] \in 0..SteadyCap
    BY DEF TypeOK, VMRef
  <2>3. vms[v].age > Beacon + Delay
    BY <2>1, <2>2, BeaconAssumption, TimingAssumption
  <2>4. steady[v] # SteadyCap
    BY <2>1, <2>2, <2>3, TimingAssumption DEF AwareWhenSteady
  <2> QED
    BY <2>1, <2>2, <2>4, TimingAssumption DEF Ages, SteadyCap
<1>3. Detector!Expel(S)
  BY <1>1, <1>2, ContactKept DEF Detector!Expel, Ages
<1>4. S \in SUBSET DOMAIN vms
  OBVIOUS
<1> HIDE DEF S
<1> QED
  BY <1>3, <1>4 DEF Detector!Expel

\* A restarted agent knows nobody.
LEMMA DetectorRestart ==
  ASSUME HostRestart, Observe
  PROVE  Detector!Forget
<1>1. DOMAIN vms' = {}
  BY DEF HostRestart, NoVMs
<1>2. \A v \in VMs : ~Up(v)'
  BY DEF HostRestart, Up
<1>3. steady' = [v \in VMs |-> 0]
  BY <1>2 DEF Observe
<1> QED
  BY <1>1, <1>3 DEF Detector!Forget

\* What the agent does, a failure detector may do: it forgets the silent in
\* time, and never a guest that is in contact, whatever is lost, dropped or
\* restarted in between.
THEOREM DetectorImplemented == Spec => ImplementsDetector
<1>1. Init => Detector!Init
  BY DEF Init, NoVMs, Detector!Init
<1>2. ASSUME TypeOK, TypeOK', BoundedStaleness, AwareWhenSteady,
             AwareWhenSteady', [Next]_vars
      PROVE  [Detector!Next]_(Detector!vars)
  <2> DEFINE Step == \/ Detector!Pass \/ Detector!Forget \/ Detector!Lose
                     \/ \E v \in VMs : Detector!Hear(v)
                     \/ \E S \in SUBSET DOMAIN vms : Detector!Expel(S)
  <2>1. CASE UNCHANGED vars
    BY <2>1 DEF vars, Detector!vars
  <2>2. ASSUME Observe, UNCHANGED vms PROVE Step
    BY <1>2, <2>2, ContactKept DEF Detector!Lose
  <2>3. ASSUME Tick PROVE Step
    BY <1>2, <2>3, DetectorTick
  <2>4. ASSUME HostStep, Observe PROVE Step
    BY <1>2, <2>2, <2>4, DetectorCollect, DetectorRestart
       DEF HostStep, HostOpen, HostConnected, HostDrop
  <2>5. ASSUME NEW v \in VMs, GuestStep(v), Observe PROVE Step
    <3>1. CASE HostReceive(v)
      BY <1>2, <2>5, <3>1, DetectorReceive
    <3>2. CASE UNCHANGED vms
      BY <2>2, <2>5, <3>2
    <3> QED
      BY <2>5, <3>1, <3>2 DEF GuestStep, BrokerDiscard, GuestOpen,
         GuestConnected, sendBeacon, GuestDrop, Boot, Halt, Pause, Unpause,
         CreateVM, hostVars
  <2>6. Detector!Accurate'
    BY <1>2, AwareAccurate, PTL
  <2>9. ASSUME NEW v \in VMs, HostMisread(v) PROVE Step
    <3>1. steady' \in [VMs -> 0..SteadyCap]
      BY <1>2 DEF TypeOK
    <3>2. steady' = [steady EXCEPT ![v] = 0] /\ vms' = vms
      BY <2>9 DEF HostMisread, hostVars
    <3>3. \A w \in VMs : steady'[w] \in {0, steady[w]}
      BY <1>2, <3>2 DEF TypeOK
    <3> QED
      BY <3>1, <3>2, <3>3 DEF Detector!Lose, Detector!Interrupted
  <2>7. Next => Step
    BY <2>3, <2>4, <2>5, <2>9 DEF Next
  <2>8. Step => Detector!Next
    BY <2>6 DEF Detector!Next
  <2> QED
    BY <1>2, <2>1, <2>7, <2>8
<1> QED
  BY <1>1, <1>2, TypeCorrect, Staleness, Aware, PTL
     DEF Spec, ImplementsDetector, Detector!Spec
=============================================================================
