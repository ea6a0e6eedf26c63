-------------------------- MODULE CmdProtocolProofs --------------------------
(***************************************************************************)
(* Proofs about commands and pings, for every set of guests, commands and  *)
(* ping calls, every clock and every number of faults and restarts.        *)
(***************************************************************************)
EXTENDS CmdProtocol, TLAPS

-----------------------------------------------------------------------------
(* Frames and dictionaries *)

\* What a frame under way carries: its guest and the fields of its word.
LEMMA MessageShape ==
  ASSUME NEW m \in Messages
  PROVE  /\ m.vm \in VMs
         /\ m.word = "CMD_RUN" => m.id \in CmdIds /\ m.kind \in Kinds
         /\ m.word = "CMD_RESULT" => m.id \in CmdIds /\ m.res \in Result
         /\ m.word \in {"PING", "PONG"} => m.ping \in Pings
BY DEF Messages, Alive, CmdRun, CmdResult, Ping, Pong

\* Every frame that howToSay builds is a message.
LEMMA MessageMade ==
  ASSUME NEW v \in VMs
  PROVE  /\ Alive(v) \in Messages
         /\ \A c \in CmdIds, k \in Kinds : CmdRun(v, c, k) \in Messages
         /\ \A c \in CmdIds, r \in Result : CmdResult(v, c, r) \in Messages
         /\ \A p \in Pings : Ping(v, p) \in Messages /\ Pong(v, p) \in Messages
BY DEF Messages

\* Assignment to and removal from a dictionary change one key only.
LEMMA PutPop ==
  ASSUME NEW d, NEW k, NEW x
  PROVE  /\ DOMAIN Put(d, k, x) = DOMAIN d \cup {k}
         /\ Put(d, k, x)[k] = x
         /\ \A j \in DOMAIN d \ {k} : Put(d, k, x)[j] = d[j]
         /\ DOMAIN Pop(d, k) = DOMAIN d \ {k}
         /\ \A j \in DOMAIN d \ {k} : Pop(d, k)[j] = d[j]
BY DEF Put, Pop

\* Dictionaries keep the type of their values.
LEMMA PutPopType ==
  ASSUME NEW S, NEW d, d \in [DOMAIN d -> S], NEW k, NEW x \in S
  PROVE  /\ Put(d, k, x) \in [DOMAIN Put(d, k, x) -> S]
         /\ Pop(d, k) \in [DOMAIN Pop(d, k) -> S]
BY DEF Put, Pop

-----------------------------------------------------------------------------
(* Type correctness *)

\* The engine starts with empty dictionaries of the right types.
LEMMA InitType == Init => TypeOK
<1> SUFFICES ASSUME Init PROVE TypeOK
  OBVIOUS
<1>1. /\ DOMAIN cmdReqsRcvd = {} /\ cmdReqsRcvd \in [DOMAIN cmdReqsRcvd -> Result]
      /\ DOMAIN pings = {} /\ pings \in [DOMAIN pings -> Pings]
  BY DEF Init, EmptyDict
<1> QED
  BY <1>1, BoundAssumption
     DEF Init, TypeOK, HostLinks, GuestLinks, CallStates

\* The calls of XML-RPC clients keep the types.
LEMMA ClientType ==
  ASSUME TypeOK, ClientStep PROVE TypeOK'
<1>1. ASSUME NEW v \in VMs, NEW c \in CmdIds, NEW k \in Kinds,
             requestCmdExecution(v, c, k)
      PROVE  TypeOK'
  <2>1. net' \subseteq Messages
    BY <1>1, MessageMade DEF requestCmdExecution, Written, TypeOK
  <2>2. issued' \in [CmdIds -> 0..epoch]
    BY <1>1 DEF requestCmdExecution, TypeOK
  <2> QED
    BY <1>1, <2>1, <2>2 DEF requestCmdExecution, TypeOK, linkVars, pingVars
<1>2. ASSUME NEW c \in CmdIds, popCmdResults(c) PROVE TypeOK'
  <2>1. /\ DOMAIN cmdReqsRcvd' \subseteq CmdIds
        /\ cmdReqsRcvd' \in [DOMAIN cmdReqsRcvd' -> Result]
    BY <1>2 DEF popCmdResults, TypeOK, Pop
  <2>2. taken' \in [CmdIds -> Nat]
    BY <1>2 DEF popCmdResults, TypeOK
  <2> QED
    BY <1>2, <2>1, <2>2 DEF popCmdResults, TypeOK, linkVars, pingVars
<1>3. ASSUME NEW p \in Pings, NEW v \in VMs, ping(p, v) PROVE TypeOK'
  <2>1. PICK ts \in Readings : /\ clock' = ts
                               /\ stamp' = [stamp EXCEPT ![p] = ts]
                               /\ pings' = Put(pings, ts, p)
    BY <1>3 DEF ping
  <2>2. ts \in Nat /\ clock \in Nat /\ clock <= ts
    BY DEF Readings, TypeOK
  <2>3. stamp' \in [Pings -> 0..clock']
    BY <2>1, <2>2 DEF TypeOK
  <2>4. DOMAIN pings' \subseteq 0..clock'
    <3>1. DOMAIN pings' = DOMAIN pings \cup {ts}
      BY <2>1, PutPop
    <3> QED
      BY <2>1, <2>2, <3>1 DEF TypeOK
  <2>5. pings' \in [DOMAIN pings' -> Pings]
    BY <2>1, PutPopType DEF TypeOK
  <2>6. /\ call' \in [Pings -> CallStates]
        /\ timers' \subseteq Pings
        /\ pingTo' \in [Pings -> VMs]
    BY <1>3 DEF ping, TypeOK, CallStates
  <2>7. net' \subseteq Messages
    BY <1>3, MessageMade DEF ping, TypeOK, Written
  <2>8. clock' \in Nat
    BY <2>1, <2>2
  <2> QED
    BY <1>3, <2>3, <2>4, <2>5, <2>6, <2>7, <2>8
       DEF ping, TypeOK, linkVars, cmdVars
<1> QED
  BY <1>1, <1>2, <1>3 DEF ClientStep

\* Firing the Deferred under a timestamp keeps the types.
LEMMA FireType ==
  ASSUME TypeOK, NEW ts \in DOMAIN pings, NEW o \in CallStates, Fire(ts, o)
  PROVE  /\ call' \in [Pings -> CallStates]
         /\ DOMAIN pings' \subseteq 0..clock
         /\ pings' \in [DOMAIN pings' -> Pings]
BY DEF Fire, TypeOK, Pop

\* The handlers of frames keep the types.
LEMMA ReceiveType ==
  ASSUME TypeOK, Receive PROVE TypeOK'
<1> PICK m \in net :
      \/ processCmdResult(m) \/ processPong(m) \/ addVM(m)
      \/ listenToCmdRun(m) \/ listenToPing(m) \/ Lose(m)
  BY DEF Receive
<1>0. m \in Messages /\ net \subseteq Messages
  BY DEF TypeOK
<1>1. CASE processCmdResult(m)
  <2>1. m.id \in CmdIds /\ m.res \in Result
    BY <1>0, <1>1, MessageShape DEF processCmdResult
  <2>2. /\ DOMAIN cmdReqsRcvd' \subseteq CmdIds
        /\ cmdReqsRcvd' \in [DOMAIN cmdReqsRcvd' -> Result]
    <3>1. CASE m.id \in cmdReqsSent
      <4>1. cmdReqsRcvd' = Put(cmdReqsRcvd, m.id, m.res)
        BY <1>1, <3>1 DEF processCmdResult
      <4>2. DOMAIN cmdReqsRcvd' = DOMAIN cmdReqsRcvd \cup {m.id}
        BY <4>1, PutPop
      <4>3. cmdReqsRcvd' \in [DOMAIN cmdReqsRcvd' -> Result]
        BY <2>1, <4>1, PutPopType DEF TypeOK
      <4> QED
        BY <2>1, <4>2, <4>3 DEF TypeOK
    <3>2. CASE m.id \notin cmdReqsSent
      BY <1>1, <3>2 DEF processCmdResult, TypeOK
    <3> QED
      BY <3>1, <3>2
  <2>3. /\ cmdReqsSent' \subseteq CmdIds
        /\ cmdReqsRetired' \subseteq CmdIds
        /\ hostLink' \in HostLinks
        /\ net' \subseteq Messages
    BY <1>1, <2>1 DEF processCmdResult, TypeOK, HostLinks
  <2> QED
    BY <1>1, <2>2, <2>3 DEF processCmdResult, TypeOK, pingVars
<1>2. CASE processPong(m)
  <2>1. hostLink' \in HostLinks /\ net' \subseteq Messages
    BY <1>2 DEF processPong, TypeOK, HostLinks
  <2>2. /\ call' \in [Pings -> CallStates]
        /\ DOMAIN pings' \subseteq 0..clock
        /\ pings' \in [DOMAIN pings' -> Pings]
    <3>1. CASE stamp[m.ping] \in DOMAIN pings
      <4>1. Fire(stamp[m.ping], "pong")
        BY <1>2, <3>1 DEF processPong
      <4> QED
        BY <3>1, <4>1, FireType DEF CallStates
    <3>2. CASE stamp[m.ping] \notin DOMAIN pings
      BY <1>2, <3>2 DEF processPong, TypeOK
    <3> QED
      BY <3>1, <3>2
  <2> QED
    BY <1>2, <2>1, <2>2 DEF processPong, TypeOK, cmdVars
<1>3. CASE addVM(m)
  BY <1>0, <1>3, MessageShape
     DEF addVM, TypeOK, linkVars, cmdVars, pingVars
<1>4. CASE listenToCmdRun(m)
  <2>1. m.vm \in VMs /\ m.id \in CmdIds
    BY <1>0, <1>4, MessageShape DEF listenToCmdRun
  <2>2. [finished |-> FALSE, exit |-> "noStdin"] \in Result
    BY DEF Result
  <2>3. CmdResult(m.vm, m.id, [finished |-> FALSE, exit |-> "noStdin"])
          \in Messages
    BY <2>1, <2>2, MessageMade
  <2>4. /\ running' \subseteq CmdIds \X VMs
        /\ net' \subseteq Messages
        /\ vmLink' \in [VMs -> GuestLinks]
    BY <1>4, <2>1, <2>3 DEF listenToCmdRun, TypeOK, GuestLinks
  <2> QED
    BY <1>4, <2>4 DEF listenToCmdRun, TypeOK, pingVars
<1>5. CASE listenToPing(m)
  <2>1. m.vm \in VMs /\ m.ping \in Pings
    BY <1>0, <1>5, MessageShape DEF listenToPing
  <2>2. net' \subseteq Messages
    BY <1>0, <1>5, <2>1, MessageMade DEF listenToPing
  <2> QED
    BY <1>5, <2>2 DEF listenToPing, TypeOK, linkVars, cmdVars, pingVars
<1>6. CASE Lose(m)
  BY <1>6 DEF Lose, TypeOK, linkVars, others, cmdVars, pingVars
<1> QED
  BY <1>1, <1>2, <1>3, <1>4, <1>5, <1>6

\* Timers, the ends of processes, beacons and the collector keep the types.
LEMMA LocalType ==
  ASSUME TypeOK, LocalStep PROVE TypeOK'
<1>1. ASSUME NEW v \in VMs, NEW c \in CmdIds, NEW e \in Exits,
             processEnded(v, c, e)
      PROVE  TypeOK'
  <2>1. [finished |-> e = "zero", exit |-> e] \in Result
    BY RequestAssumption DEF Result
  <2>2. Report(v, c, e) \subseteq Messages
    BY <2>1, MessageMade DEF Report, Written
  <2> QED
    BY <1>1, <2>2 DEF processEnded, TypeOK, linkVars, pingVars
<1>2. ASSUME NEW p \in Pings, timeout(p) PROVE TypeOK'
  <2>1. /\ call' \in [Pings -> CallStates]
        /\ DOMAIN pings' \subseteq 0..clock
        /\ pings' \in [DOMAIN pings' -> Pings]
    <3>1. CASE stamp[p] \in DOMAIN pings
      <4>1. Fire(stamp[p], "timeout")
        BY <1>2, <3>1 DEF timeout
      <4> QED
        BY <3>1, <4>1, FireType DEF CallStates
    <3>2. CASE stamp[p] \notin DOMAIN pings
      BY <1>2, <3>2 DEF timeout, TypeOK
    <3> QED
      BY <3>1, <3>2
  <2> QED
    BY <1>2, <2>1 DEF timeout, TypeOK, linkVars, cmdVars
<1>3. ASSUME NEW v \in VMs, removeVM(v) PROVE TypeOK'
  BY <1>3 DEF removeVM, TypeOK, linkVars, cmdVars, pingVars
<1>4. ASSUME NEW v \in VMs, sendBeacon(v) PROVE TypeOK'
  BY <1>4, MessageMade DEF sendBeacon, TypeOK, linkVars, cmdVars, pingVars
<1> QED
  BY <1>1, <1>2, <1>3, <1>4 DEF LocalStep

\* Connections, faults and restarts keep the types.
LEMMA LinkType ==
  ASSUME TypeOK, LinkStep PROVE TypeOK'
<1> USE BoundAssumption DEF others, cmdVars, pingVars, HostLinks, GuestLinks
<1>1. CASE HostOpen
  BY <1>1 DEF HostOpen, TypeOK
<1>2. CASE HostConnected
  BY <1>2 DEF HostConnected, TypeOK
<1>3. CASE HostDrop
  BY <1>3 DEF HostDrop, TypeOK
<1>4. CASE HostRestart
  <2>1. /\ DOMAIN cmdReqsRcvd' = {}
        /\ cmdReqsRcvd' \in [DOMAIN cmdReqsRcvd' -> Result]
        /\ DOMAIN pings' = {} /\ pings' \in [DOMAIN pings' -> Pings]
    BY <1>4 DEF HostRestart, EmptyDict
  <2>2. call' \in [Pings -> CallStates]
    BY <1>4 DEF HostRestart, TypeOK, CallStates
  <2>3. /\ clock' \in Nat /\ stamp' \in [Pings -> 0..clock']
        /\ epoch' \in 1..(MaxRestarts + 1) /\ issued' \in [CmdIds -> 0..epoch']
    BY <1>4 DEF HostRestart, TypeOK
  <2> QED
    BY <1>4, <2>1, <2>2, <2>3 DEF HostRestart, TypeOK
<1>5. ASSUME NEW v \in VMs, GuestOpen(v) PROVE TypeOK'
  BY <1>5 DEF GuestOpen, TypeOK
<1>6. ASSUME NEW v \in VMs, GuestConnected(v) PROVE TypeOK'
  BY <1>6, MessageMade DEF GuestConnected, TypeOK
<1>7. ASSUME NEW v \in VMs, GuestDrop(v) PROVE TypeOK'
  BY <1>7 DEF GuestDrop, TypeOK
<1>8. ASSUME NEW v \in VMs, GuestHalt(v) PROVE TypeOK'
  BY <1>8 DEF GuestHalt, TypeOK
<1> QED
  BY <1>1, <1>2, <1>3, <1>4, <1>5, <1>6, <1>7, <1>8 DEF LinkStep

\* Every step keeps the types.
LEMMA NextType ==
  ASSUME TypeOK, [Next]_vars PROVE TypeOK'
<1>1. CASE UNCHANGED vars
  BY <1>1 DEF vars, TypeOK, linkVars, cmdVars, pingVars
<1> QED
  BY <1>1, ClientType, ReceiveType, LocalType, LinkType DEF Next

\* Every variable of the host agent, the guests and the network keeps its
\* type; in particular no Deferred is looked up that was never made.
THEOREM TypeCorrect == Spec => []TypeOK
BY InitType, NextType, PTL DEF Spec

-----------------------------------------------------------------------------
(* Commands *)

\* Steps that leave the commands alone and add none of their frames
LEMMA CmdSame ==
  ASSUME CmdInv, CmdAccounted, UNCHANGED <<cmdVars, epoch>>,
         \A m \in net' : m.word \in {"CMD_RUN", "CMD_RESULT"} => m \in net
  PROVE  CmdInv' /\ CmdAccounted'
BY DEF CmdInv, CmdAccounted, cmdVars

\* requestCmdExecution: the id is fresh, so CMD_RUN is its only trace.
LEMMA CmdRequest ==
  ASSUME TypeOK, CmdInv, CmdAccounted,
         NEW v \in VMs, NEW c \in CmdIds, NEW k \in Kinds,
         requestCmdExecution(v, c, k)
  PROVE  CmdInv' /\ CmdAccounted'
<1>1. /\ issued[c] = 0 /\ epoch # 0
      /\ issued' = [issued EXCEPT ![c] = epoch]
      /\ cmdReqsSent' = cmdReqsSent \cup {c}
      /\ UNCHANGED <<cmdReqsRetired, cmdReqsRcvd, running, taken, epoch>>
  BY DEF requestCmdExecution, TypeOK
<1>2. \A m \in net' : m \in net \/ m = CmdRun(v, c, k)
  BY DEF requestCmdExecution, Written
<1>3. /\ CmdRun(v, c, k).id = c
      /\ CmdRun(v, c, k).word = "CMD_RUN"
  BY DEF CmdRun
<1>4. \A m \in net : m.word \in {"CMD_RUN", "CMD_RESULT"} =>
        m.id \in CmdIds /\ m.id # c
  BY <1>1, MessageShape DEF CmdInv, TypeOK
<1>5. \A d \in CmdIds : issued'[d] = IF d = c THEN epoch ELSE issued[d]
  BY <1>1 DEF TypeOK
<1>6. \A w \in VMs : <<c, w>> \notin running
  BY <1>1 DEF CmdInv
<1>7. c \notin cmdReqsRetired /\ c \notin DOMAIN cmdReqsRcvd
  BY <1>1 DEF CmdAccounted
<1>8. CmdAccounted'
  BY <1>1, <1>5, <1>7 DEF CmdAccounted
<1>9. ASSUME NEW m \in net', m.word \in {"CMD_RUN", "CMD_RESULT"}
      PROVE  /\ issued'[m.id] # 0
             /\ issued'[m.id] = epoch' => m.id \in cmdReqsSent'
             /\ \A n \in net' : n.word \in {"CMD_RUN", "CMD_RESULT"}
                                  /\ n.id = m.id => n = m
             /\ \A w \in VMs : <<m.id, w>> \notin running'
  BY <1>1, <1>2, <1>3, <1>4, <1>5, <1>6, <1>9 DEF CmdInv
<1>10. ASSUME NEW d \in CmdIds, NEW w \in VMs, <<d, w>> \in running'
       PROVE  /\ issued'[d] # 0
              /\ issued'[d] = epoch' => d \in cmdReqsSent'
              /\ \A u \in VMs : <<d, u>> \in running' => u = w
  BY <1>1, <1>5, <1>6, <1>10 DEF CmdInv
<1>11. ASSUME NEW d \in CmdIds,
              issued'[d] = 0 \/ d \in cmdReqsSent' \cup DOMAIN cmdReqsRcvd'
       PROVE  taken'[d] = 0
  BY <1>1, <1>5, <1>11 DEF CmdInv
<1> QED
  BY <1>8, <1>9, <1>10, <1>11 DEF CmdInv

\* processCmdResult moves a request from sent to retired, once.
LEMMA CmdAnswer ==
  ASSUME TypeOK, CmdInv, CmdAccounted, NEW m \in net, processCmdResult(m)
  PROVE  CmdInv' /\ CmdAccounted'
<1>1. m.id \in CmdIds /\ m.word = "CMD_RESULT"
  BY MessageShape DEF processCmdResult, TypeOK
<1>2. CASE m.id \notin cmdReqsSent
  <2>1. UNCHANGED <<cmdVars, epoch>> /\ net' \subseteq net
    BY <1>2 DEF processCmdResult, cmdVars
  <2> QED
    BY <2>1, CmdSame
<1>3. CASE m.id \in cmdReqsSent
  <2>1. /\ cmdReqsSent' = cmdReqsSent \ {m.id}
        /\ cmdReqsRetired' = cmdReqsRetired \cup {m.id}
        /\ DOMAIN cmdReqsRcvd' = DOMAIN cmdReqsRcvd \cup {m.id}
        /\ net' = net \ {m}
        /\ UNCHANGED <<running, issued, taken, epoch>>
    <3>1. cmdReqsRcvd' = Put(cmdReqsRcvd, m.id, m.res)
      BY <1>3 DEF processCmdResult
    <3>2. DOMAIN cmdReqsRcvd' = DOMAIN cmdReqsRcvd \cup {m.id}
      BY <3>1, PutPop
    <3> QED
      BY <1>3, <3>2 DEF processCmdResult
  <2>2. CmdAccounted'
    BY <1>1, <1>3, <2>1 DEF CmdAccounted
  <2>3. \A n \in net' : n.word \in {"CMD_RUN", "CMD_RESULT"} => n.id # m.id
    BY <1>1, <2>1 DEF CmdInv
  <2>4. \A w \in VMs : <<m.id, w>> \notin running
    BY <1>1 DEF CmdInv
  <2>5. taken[m.id] = 0
    BY <1>1, <1>3 DEF CmdInv
  <2>6. CmdInv'
    BY <1>1, <1>3, <2>1, <2>3, <2>4, <2>5 DEF CmdInv
  <2> QED
    BY <2>2, <2>6
<1> QED
  BY <1>2, <1>3

\* popCmdResults takes out what was never collected before.
LEMMA CmdCollect ==
  ASSUME TypeOK, CmdInv, CmdAccounted, NEW c \in CmdIds, popCmdResults(c)
  PROVE  CmdInv' /\ CmdAccounted'
<1>1. /\ c \in DOMAIN cmdReqsRcvd
      /\ DOMAIN cmdReqsRcvd' = DOMAIN cmdReqsRcvd \ {c}
      /\ UNCHANGED <<net, cmdReqsSent, cmdReqsRetired, running, issued, epoch>>
      /\ \A d \in CmdIds \ {c} : taken'[d] = taken[d]
  BY PutPop DEF popCmdResults, TypeOK
<1>2. CmdAccounted'
  BY <1>1 DEF CmdAccounted
<1>3. c \notin cmdReqsSent' /\ issued'[c] # 0
  BY <1>1 DEF CmdAccounted, TypeOK
<1> QED
  BY <1>1, <1>2, <1>3 DEF CmdInv

\* CMD_RUN becomes a process, a CMD_RESULT or nothing.
LEMMA CmdStart ==
  ASSUME TypeOK, CmdInv, CmdAccounted, NEW m \in net, listenToCmdRun(m)
  PROVE  CmdInv' /\ CmdAccounted'
<1>1. /\ m.id \in CmdIds /\ m.vm \in VMs /\ m.word = "CMD_RUN"
  BY MessageShape DEF listenToCmdRun, TypeOK
<1>2. UNCHANGED <<cmdReqsSent, cmdReqsRetired, cmdReqsRcvd, issued, taken,
                  epoch>>
  BY DEF listenToCmdRun
<1>3. CmdAccounted'
  BY <1>2 DEF CmdAccounted
<1>4. /\ issued[m.id] # 0
      /\ issued[m.id] = epoch => m.id \in cmdReqsSent
      /\ \A n \in net \ {m} :
           n.word \in {"CMD_RUN", "CMD_RESULT"} => n.id # m.id
      /\ \A w \in VMs : <<m.id, w>> \notin running
  BY <1>1 DEF CmdInv
<1>5. CASE m.kind = "plain"
  <2>1. running' = running \cup {<<m.id, m.vm>>} /\ net' = net \ {m}
    BY <1>5 DEF listenToCmdRun
  <2> QED
    BY <1>1, <1>2, <1>3, <1>4, <2>1 DEF CmdInv
<1>6. CASE m.kind = "noStdin"
  <2> DEFINE r == CmdResult(m.vm, m.id,
                            [finished |-> FALSE, exit |-> "noStdin"])
  <2>1. running' = running /\ net' = (net \ {m}) \cup {r}
    BY <1>6 DEF listenToCmdRun
  <2>2. r.word = "CMD_RESULT" /\ r.id = m.id
    BY DEF CmdResult
  <2> HIDE DEF r
  <2> QED
    BY <1>1, <1>2, <1>3, <1>4, <2>1, <2>2 DEF CmdInv
<1>7. CASE m.kind = "badHeader"
  <2>1. running' = running /\ net' = net \ {m}
    BY <1>7 DEF listenToCmdRun
  <2> QED
    BY <1>2, <1>3, <2>1 DEF CmdInv
<1> QED
  BY <1>5, <1>6, <1>7 DEF listenToCmdRun

\* A process that ends becomes at most one CMD_RESULT.
LEMMA CmdEnd ==
  ASSUME TypeOK, CmdInv, CmdAccounted, NEW v \in VMs, NEW c \in CmdIds,
         NEW e \in Exits, processEnded(v, c, e)
  PROVE  CmdInv' /\ CmdAccounted'
<1> DEFINE r == CmdResult(v, c, [finished |-> e = "zero", exit |-> e])
<1>1. r.word = "CMD_RESULT" /\ r.id = c
  BY DEF CmdResult
<1>2. /\ <<c, v>> \in running
      /\ running' = running \ {<<c, v>>}
      /\ \A m \in net' : m \in net \/ m = r
      /\ UNCHANGED <<cmdReqsSent, cmdReqsRetired, cmdReqsRcvd, issued, taken,
                     epoch>>
  BY DEF processEnded, Report, Written
<1> HIDE DEF r
<1>3. CmdAccounted'
  BY <1>2 DEF CmdAccounted
<1>4. /\ issued[c] # 0
      /\ issued[c] = epoch => c \in cmdReqsSent
      /\ \A m \in net : m.word \in {"CMD_RUN", "CMD_RESULT"} => m.id # c
      /\ \A w \in VMs : <<c, w>> \notin running'
  BY <1>2 DEF CmdInv
<1> QED
  BY <1>1, <1>2, <1>3, <1>4 DEF CmdInv

\* A restarted host agent has sent no command yet.
LEMMA CmdRestart ==
  ASSUME TypeOK, CmdInv, CmdAccounted, HostRestart
  PROVE  CmdInv' /\ CmdAccounted'
<1>1. /\ epoch' = epoch + 1 /\ cmdReqsSent' = {} /\ cmdReqsRetired' = {}
      /\ DOMAIN cmdReqsRcvd' = {}
      /\ UNCHANGED <<running, issued, taken, net>>
  BY DEF HostRestart, EmptyDict
<1>2. \A c \in CmdIds : issued[c] # epoch'
  BY <1>1 DEF TypeOK
<1>3. \A m \in net : m.word \in {"CMD_RUN", "CMD_RESULT"} => m.id \in CmdIds
  BY MessageShape DEF TypeOK
<1>4. CmdAccounted'
  BY <1>1, <1>2 DEF CmdAccounted
<1> QED
  BY <1>1, <1>2, <1>3, <1>4 DEF CmdInv

\* Every step preserves CmdInv and CmdAccounted.
LEMMA CmdStep ==
  ASSUME TypeOK, CmdInv, CmdAccounted, [Next]_vars
  PROVE  CmdInv' /\ CmdAccounted'
<1> USE CmdSame
<1>1. CASE UNCHANGED vars
  BY <1>1 DEF vars
<1>2. CASE ClientStep
  <2>1. ASSUME NEW p \in Pings, NEW v \in VMs, ping(p, v)
        PROVE  CmdInv' /\ CmdAccounted'
    <3>1. \A m \in net' : m \in net \/ m = Ping(v, p)
      BY <2>1 DEF ping, Written
    <3>2. Ping(v, p).word = "PING"
      BY DEF Ping
    <3> QED
      BY <2>1, <3>1, <3>2 DEF ping
  <2> QED
    BY <1>2, <2>1, CmdRequest, CmdCollect DEF ClientStep
<1>3. CASE Receive
  <2> PICK m \in net :
        \/ processCmdResult(m) \/ processPong(m) \/ addVM(m)
        \/ listenToCmdRun(m) \/ listenToPing(m) \/ Lose(m)
    BY <1>3 DEF Receive
  <2>1. CASE processPong(m) \/ addVM(m) \/ Lose(m)
    BY <2>1 DEF processPong, addVM, Lose, others
  <2>2. CASE listenToPing(m)
    BY <2>2 DEF listenToPing, Pong
  <2> QED
    BY <2>1, <2>2, CmdAnswer, CmdStart
<1>4. CASE LocalStep
  <2>1. ASSUME NEW p \in Pings, timeout(p) PROVE CmdInv' /\ CmdAccounted'
    BY <2>1 DEF timeout
  <2>2. ASSUME NEW v \in VMs, removeVM(v) PROVE CmdInv' /\ CmdAccounted'
    BY <2>2 DEF removeVM
  <2>3. ASSUME NEW v \in VMs, sendBeacon(v) PROVE CmdInv' /\ CmdAccounted'
    BY <2>3 DEF sendBeacon, Alive
  <2> QED
    BY <1>4, <2>1, <2>2, <2>3, CmdEnd DEF LocalStep
<1>5. CASE LinkStep
  <2>1. CASE HostOpen \/ HostConnected \/ HostDrop
    BY <2>1 DEF HostOpen, HostConnected, HostDrop, others
  <2>2. ASSUME NEW v \in VMs, GuestOpen(v) \/ GuestDrop(v)
        PROVE  CmdInv' /\ CmdAccounted'
    BY <2>2 DEF GuestOpen, GuestDrop, others
  <2>3. ASSUME NEW v \in VMs, GuestConnected(v)
        PROVE  CmdInv' /\ CmdAccounted'
    BY <2>3 DEF GuestConnected, others, Alive
  <2>4. ASSUME NEW v \in VMs, GuestHalt(v) PROVE CmdInv' /\ CmdAccounted'
    BY <2>4 DEF GuestHalt, CmdInv, CmdAccounted
  <2> QED
    BY <1>5, <2>1, <2>2, <2>3, <2>4, CmdRestart DEF LinkStep
<1> QED
  BY <1>1, <1>2, <1>3, <1>4, <1>5 DEF Next

\* The inductive invariant on commands, with the bookkeeping of the host.
THEOREM CmdInvariant == Spec => [](CmdInv /\ CmdAccounted)
<1>1. Init => CmdInv /\ CmdAccounted
  BY DEF Init, CmdInv, CmdAccounted, EmptyDict
<1> QED
  BY <1>1, TypeCorrect, CmdStep, PTL DEF Spec

\* In one incarnation of the host agent the assertion of processCmdResult
\* cannot fail, whatever is dropped, halted or pinged.
THEOREM ResultExpected == Spec => []CmdResultExpected
<1>1. CmdInv => CmdResultExpected
  BY DEF CmdInv, CmdResultExpected
<1> QED
  BY <1>1, CmdInvariant, PTL

\* Every command that was sent is in exactly one of _cmdReqsSent and
\* _cmdReqsRetired.
THEOREM Accounted == Spec => []CmdAccounted
BY CmdInvariant, PTL

\* No results are handed out twice.
THEOREM Collected == Spec => []CollectedOnce
<1>1. Init => CollectedOnce
  BY DEF Init, CollectedOnce
<1>2. ASSUME TypeOK, CmdInv, CollectedOnce, [Next]_vars PROVE CollectedOnce'
  <2>1. ASSUME NEW c \in CmdIds, popCmdResults(c) PROVE CollectedOnce'
    <3>1. taken[c] = 0
      BY <1>2, <2>1 DEF CmdInv, popCmdResults
    <3>2. taken' = [taken EXCEPT ![c] = 1]
      BY <2>1, <3>1 DEF popCmdResults
    <3> QED
      BY <1>2, <3>2 DEF CollectedOnce, TypeOK
  <2>2. CASE UNCHANGED taken
    BY <1>2, <2>2 DEF CollectedOnce
  <2>3. CASE ClientStep
    BY <2>1, <2>2, <2>3 DEF ClientStep, requestCmdExecution, ping, cmdVars
  <2>4. CASE Receive
    BY <2>2, <2>4 DEF Receive, processCmdResult, processPong, addVM,
       listenToCmdRun, listenToPing, Lose, others, cmdVars
  <2>5. CASE LocalStep
    BY <2>2, <2>5 DEF LocalStep, processEnded, timeout, removeVM, sendBeacon,
       cmdVars
  <2>6. CASE LinkStep
    BY <2>2, <2>6 DEF LinkStep, HostOpen, HostConnected, HostDrop,
       HostRestart, GuestOpen, GuestConnected, GuestDrop, GuestHalt, others,
       cmdVars
  <2>7. CASE UNCHANGED vars
    BY <2>2, <2>7 DEF vars, cmdVars
  <2> QED
    BY <1>2, <2>3, <2>4, <2>5, <2>6, <2>7 DEF Next
<1> QED
  BY <1>1, <1>2, TypeCorrect, CmdInvariant, PTL DEF Spec

-----------------------------------------------------------------------------
(* The table of requests *)

\* What does not touch the requests is a stutter of the table.
LEMMA TableSame ==
  ASSUME UNCHANGED <<issued, taken, epoch, cmdReqsSent>>
  PROVE  requestState' = requestState
BY DEF requestState

\* requestCmdExecution sends a request.
LEMMA TableSend ==
  ASSUME TypeOK, CmdInv, NEW v \in VMs, NEW c \in CmdIds, NEW k \in Kinds,
         requestCmdExecution(v, c, k)
  PROVE  Table!Send(c)
<1>1. /\ issued[c] = 0 /\ taken[c] = 0 /\ epoch # 0
      /\ issued' = [issued EXCEPT ![c] = epoch]
      /\ cmdReqsSent' = cmdReqsSent \cup {c}
      /\ UNCHANGED <<taken, epoch>>
  BY DEF requestCmdExecution, TypeOK, CmdInv
<1>2. \A d \in CmdIds : issued'[d] = IF d = c THEN epoch ELSE issued[d]
  BY <1>1 DEF TypeOK
<1>3. requestState[c] = "new" /\ requestState'[c] = "open"
  BY <1>1, <1>2 DEF requestState
<1>4. \A d \in CmdIds : d # c => requestState'[d] = requestState[d]
  BY <1>1, <1>2 DEF requestState
<1>5. requestState' = [requestState EXCEPT ![c] = "open"]
  BY <1>3, <1>4 DEF requestState
<1> QED
  BY <1>3, <1>5 DEF Table!Send, Table!Move

\* processCmdResult answers an open request, or does nothing to the table.
LEMMA TableAnswer ==
  ASSUME TypeOK, CmdInv, CmdAccounted, NEW m \in net, processCmdResult(m)
  PROVE  requestState' = requestState \/ \E c \in CmdIds : Table!Answer(c)
<1>1. m.id \in CmdIds
  BY MessageShape DEF processCmdResult, TypeOK
<1>2. CASE m.id \notin cmdReqsSent
  BY <1>2, TableSame DEF processCmdResult
<1>3. CASE m.id \in cmdReqsSent
  <2>1. /\ cmdReqsSent' = cmdReqsSent \ {m.id}
        /\ UNCHANGED <<issued, taken, epoch>>
    BY <1>3 DEF processCmdResult
  <2>2. issued[m.id] = epoch /\ epoch # 0 /\ taken[m.id] = 0
    BY <1>1, <1>3 DEF CmdAccounted, CmdInv, TypeOK
  <2>3. requestState[m.id] = "open" /\ requestState'[m.id] = "answered"
    BY <1>1, <1>3, <2>1, <2>2 DEF requestState
  <2>4. \A d \in CmdIds : d # m.id => requestState'[d] = requestState[d]
    BY <2>1 DEF requestState
  <2>5. requestState' = [requestState EXCEPT ![m.id] = "answered"]
    BY <2>3, <2>4 DEF requestState
  <2> QED
    BY <1>1, <2>3, <2>5 DEF Table!Answer, Table!Move
<1> QED
  BY <1>2, <1>3

\* popCmdResults collects an answered request.
LEMMA TableCollect ==
  ASSUME TypeOK, CmdInv, CmdAccounted, NEW c \in CmdIds, popCmdResults(c)
  PROVE  Table!Collect(c)
<1>1. /\ c \in DOMAIN cmdReqsRcvd
      /\ taken' = [taken EXCEPT ![c] = @ + 1]
      /\ UNCHANGED <<issued, epoch, cmdReqsSent>>
  BY DEF popCmdResults
<1>2. issued[c] = epoch /\ epoch # 0 /\ taken[c] = 0 /\ c \notin cmdReqsSent
  BY <1>1 DEF CmdAccounted, CmdInv, TypeOK
<1>3. \A d \in CmdIds : taken'[d] = IF d = c THEN 1 ELSE taken[d]
  BY <1>1, <1>2 DEF TypeOK
<1>4. requestState[c] = "answered" /\ requestState'[c] = "collected"
  BY <1>1, <1>2, <1>3 DEF requestState
<1>5. \A d \in CmdIds : d # c => requestState'[d] = requestState[d]
  BY <1>1, <1>3 DEF requestState
<1>6. requestState' = [requestState EXCEPT ![c] = "collected"]
  BY <1>4, <1>5 DEF requestState
<1> QED
  BY <1>4, <1>6 DEF Table!Collect, Table!Move

\* HostRestart forgets the requests that were not collected.
LEMMA TableRestart ==
  ASSUME TypeOK, HostRestart
  PROVE  Table!Restart
<1>1. epoch' = epoch + 1 /\ UNCHANGED <<issued, taken>>
  BY DEF HostRestart
<1>2. \A c \in CmdIds : issued'[c] # epoch' /\ (issued[c] = epoch => issued[c] # 0)
  BY <1>1 DEF TypeOK
<1>3. \A c \in CmdIds :
        requestState'[c] = IF requestState[c] \in {"open", "answered"}
                           THEN "forgotten" ELSE requestState[c]
  BY <1>1, <1>2 DEF requestState
<1>4. requestState' = [c \in CmdIds |-> requestState'[c]]
  BY DEF requestState
<1> QED
  BY <1>3, <1>4 DEF Table!Restart

\* The agent implements the table of requests, whatever is lost, dropped,
\* halted or restarted.
THEOREM TableImplemented == Spec => ImplementsTable
<1>1. Init => Table!Init
  BY DEF Init, Table!Init, requestState
<1>2. ASSUME TypeOK, CmdInv, CmdAccounted, [Next]_vars
      PROVE  [Table!Next]_requestState
  <2>1. CASE ClientStep
    <3>1. ASSUME NEW p \in Pings, NEW v \in VMs, ping(p, v)
          PROVE  requestState' = requestState
      BY <3>1, TableSame DEF ping, cmdVars
    <3> QED
      BY <1>2, <2>1, <3>1, TableSend, TableCollect DEF ClientStep, Table!Next
  <2>2. CASE Receive
    <3> PICK m \in net :
          \/ processCmdResult(m) \/ processPong(m) \/ addVM(m)
          \/ listenToCmdRun(m) \/ listenToPing(m) \/ Lose(m)
      BY <2>2 DEF Receive
    <3>1. CASE ~processCmdResult(m)
      BY <3>1, TableSame DEF processPong, addVM, listenToCmdRun, listenToPing,
         Lose, others, cmdVars
    <3> QED
      BY <1>2, <3>1, TableAnswer DEF Table!Next
  <2>3. CASE LocalStep
    BY <2>3, TableSame DEF LocalStep, processEnded, timeout, removeVM,
       sendBeacon, cmdVars
  <2>4. CASE LinkStep
    <3>1. CASE HostRestart
      BY <1>2, <3>1, TableRestart DEF Table!Next
    <3>2. CASE ~HostRestart
      BY <2>4, <3>2, TableSame DEF LinkStep, HostOpen, HostConnected, HostDrop,
         GuestOpen, GuestConnected, GuestDrop, GuestHalt, others, cmdVars
    <3> QED
      BY <3>1, <3>2
  <2>5. CASE UNCHANGED vars
    BY <2>5, TableSame DEF vars, cmdVars
  <2> QED
    BY <1>2, <2>1, <2>2, <2>3, <2>4, <2>5 DEF Next
<1> QED
  BY <1>1, <1>2, TypeCorrect, CmdInvariant, PTL
     DEF Spec, ImplementsTable, Table!Spec

-----------------------------------------------------------------------------
(* Pings *)

\* Steps that leave the calls alone and add no frame of another call
LEMMA PingSame ==
  ASSUME PingInv, UNCHANGED pingVars,
         hostLink' = "never" => hostLink = "never",
         \A m \in net' : m.word \in {"PING", "PONG"} =>
           \E n \in net : n.word \in {"PING", "PONG"} /\ n.ping = m.ping
  PROVE  PingInv'
BY DEF PingInv, pingVars

\* ping: a new entry, under a timestamp that may be in use already.
LEMMA PingCall ==
  ASSUME TypeOK, PingInv, NEW p \in Pings, NEW v \in VMs, ping(p, v)
  PROVE  PingInv'
<1>1. PICK ts \in Readings : /\ clock' = ts
                             /\ stamp' = [stamp EXCEPT ![p] = ts]
                             /\ pings' = Put(pings, ts, p)
  BY DEF ping
<1>2. ts \in Nat /\ clock \in Nat /\ clock <= ts
  BY DEF Readings, TypeOK
<1>3. /\ call[p] = "idle" /\ hostLink' = hostLink
      /\ \A q \in Pings \ {p} : call'[q] = call[q] /\ stamp'[q] = stamp[q]
      /\ stamp'[p] = ts
  BY <1>1 DEF ping, TypeOK, linkVars
<1>4. /\ DOMAIN pings' = DOMAIN pings \cup {ts}
      /\ pings'[ts] = p
      /\ \A t \in DOMAIN pings \ {ts} : pings'[t] = pings[t]
  BY <1>1 DEF Put
<1>5. /\ \A t \in DOMAIN pings : pings[t] \in Pings \ {p}
      /\ timers \subseteq Pings \ {p}
      /\ \A m \in net : m.word \in {"PING", "PONG"} => m.ping \in Pings \ {p}
  BY <1>3, MessageShape DEF PingInv, TypeOK
<1>6. CASE hostLink = "never"
  <2>1. timers' = {} /\ timers = {} /\ net' = net /\ call'[p] = "raised"
    BY <1>6 DEF ping, PingInv, TypeOK
  <2>2. \A m \in net : m.word \in {"PING", "PONG"} =>
          /\ stamp'[m.ping] = stamp[m.ping]
          /\ stamp[m.ping] \in Nat
          /\ stamp[m.ping] < clock
    BY <1>3, <1>5, <1>6 DEF PingInv, TypeOK
  <2>3. \A m \in net : m.word \in {"PING", "PONG"} =>
          stamp'[m.ping] < clock' /\ stamp'[m.ping] # ts
    BY <1>1, <1>2, <2>2
  <2>4. ASSUME NEW t \in DOMAIN pings' \ {ts}
        PROVE  /\ stamp'[pings'[t]] = t
               /\ call'[pings'[t]] = "raised"
               /\ \A m \in net' : m.word \in {"PING", "PONG"} =>
                    stamp'[m.ping] # t
    BY <1>3, <1>4, <1>5, <2>1, <2>2 DEF PingInv
  <2> QED
    BY <1>3, <1>4, <1>5, <2>1, <2>3, <2>4 DEF PingInv
<1>7. CASE hostLink # "never"
  <2>1. /\ timers' = timers \cup {p} /\ call'[p] = "waiting"
        /\ \A m \in net' : m \in net \/ m = Ping(v, p)
    BY <1>7 DEF ping, TypeOK, Written
  <2>2. Ping(v, p).ping = p
    BY DEF Ping
  <2>3. ASSUME NEW t \in DOMAIN pings' \ {ts}
        PROVE  /\ stamp'[pings'[t]] = t
               /\ \/ call'[pings'[t]] = "waiting" /\ pings'[t] \in timers'
                  \/ /\ call'[pings'[t]] = "raised"
                     /\ \A q \in timers' : stamp'[q] # t
                     /\ \A m \in net' : m.word \in {"PING", "PONG"} =>
                          stamp'[m.ping] # t
    <3>1. pings'[t] = pings[t] /\ pings[t] \in Pings \ {p} /\ t \in DOMAIN pings
      BY <1>4, <1>5
    <3>2. stamp'[pings'[t]] = t /\ call'[pings'[t]] = call[pings[t]]
      BY <1>3, <3>1 DEF PingInv
    <3>3. CASE call[pings[t]] = "waiting" /\ pings[t] \in timers
      BY <2>1, <3>1, <3>2, <3>3
    <3>4. CASE /\ call[pings[t]] = "raised"
               /\ \A q \in timers : stamp[q] # t
               /\ \A m \in net : m.word \in {"PING", "PONG"} =>
                    stamp[m.ping] # t
      BY <1>3, <1>5, <2>1, <2>2, <3>2, <3>4
    <3> QED
      BY <3>1, <3>2, <3>3, <3>4 DEF PingInv
  <2>4. \A q \in timers' : call'[q] # "idle"
    BY <1>3, <1>5, <2>1 DEF PingInv
  <2>5. \A m \in net' : m.word \in {"PING", "PONG"} => call'[m.ping] # "idle"
    BY <1>3, <1>5, <2>1, <2>2 DEF PingInv
  <2> QED
    BY <1>3, <1>4, <1>7, <2>1, <2>3, <2>4, <2>5 DEF PingInv
<1> QED
  BY <1>6, <1>7

\* A waiting Deferred is fired; its timer, or one with the same timestamp, may
\* be the one that has just fired.
LEMMA PingFire ==
  ASSUME TypeOK, PingInv, NEW ts \in DOMAIN pings,
         call[pings[ts]] = "waiting",
         NEW o \in CallStates \ {"idle"}, Fire(ts, o),
         UNCHANGED <<clock, pingTo, stamp>>, hostLink' = hostLink,
         timers' \subseteq timers,
         \A p \in timers \ timers' : stamp[p] = ts,
         net' \subseteq net
  PROVE  PingInv'
<1>1. /\ DOMAIN pings' = DOMAIN pings \ {ts}
      /\ \A t \in DOMAIN pings' : pings'[t] = pings[t]
  BY DEF Fire, Pop
<1>2. \A q \in Pings \ {pings[ts]} : call'[q] = call[q]
  BY DEF Fire, TypeOK
<1>3. call'[pings[ts]] # "idle"
  BY DEF Fire, TypeOK
<1>4. ASSUME NEW t \in DOMAIN pings'
      PROVE  /\ stamp'[pings'[t]] = t
             /\ \/ call'[pings'[t]] = "waiting" /\ pings'[t] \in timers'
                \/ /\ call'[pings'[t]] = "raised"
                   /\ \A q \in timers' : stamp'[q] # t
                   /\ \A m \in net' : m.word \in {"PING", "PONG"} =>
                        stamp'[m.ping] # t
  <2>1. t \in DOMAIN pings /\ t # ts /\ pings[t] \in Pings
    BY <1>1 DEF TypeOK
  <2>2. stamp[pings[t]] = t /\ stamp[pings[ts]] = ts
    BY <2>1 DEF PingInv
  <2>3. call'[pings[t]] = call[pings[t]] /\ pings'[t] = pings[t]
    BY <1>1, <1>2, <2>1, <2>2
  <2>4. CASE call[pings[t]] = "waiting" /\ pings[t] \in timers
    BY <2>1, <2>2, <2>3, <2>4
  <2>5. CASE /\ call[pings[t]] = "raised"
             /\ \A q \in timers : stamp[q] # t
             /\ \A m \in net : m.word \in {"PING", "PONG"} => stamp[m.ping] # t
    BY <2>2, <2>3, <2>5
  <2> QED
    BY <2>1, <2>4, <2>5 DEF PingInv
<1>5. \A q \in Pings : call[q] # "idle" => call'[q] # "idle"
  BY <1>2, <1>3
<1>6. \A q \in timers' : call'[q] # "idle"
  BY <1>5 DEF PingInv, TypeOK
<1>7. \A m \in net' : m.word \in {"PING", "PONG"} =>
        /\ call'[m.ping] # "idle"
        /\ hostLink' = "never" => stamp'[m.ping] < clock'
  BY <1>5, MessageShape DEF PingInv, TypeOK
<1>8. hostLink' = "never" => timers' = {}
  BY DEF PingInv
<1> QED
  BY <1>4, <1>6, <1>7, <1>8 DEF PingInv

\* _timeout removes the entry it fires.
LEMMA PingTimeout ==
  ASSUME TypeOK, PingInv, NEW p \in Pings, timeout(p)
  PROVE  PingInv'
<1>1. /\ p \in timers /\ timers' = timers \ {p}
      /\ UNCHANGED <<clock, pingTo, stamp, net>> /\ hostLink' = hostLink
  BY DEF timeout, linkVars
<1>2. CASE stamp[p] \in DOMAIN pings
  <2>1. Fire(stamp[p], "timeout")
    BY <1>2 DEF timeout
  <2>2. call[pings[stamp[p]]] = "waiting"
    BY <1>1, <1>2 DEF PingInv
  <2> QED
    BY <1>1, <1>2, <2>1, <2>2, PingFire DEF CallStates
<1>3. CASE stamp[p] \notin DOMAIN pings
  <2>1. UNCHANGED <<call, pings>>
    BY <1>3 DEF timeout
  <2>2. \A ts \in DOMAIN pings : pings[ts] # p
    BY <1>3 DEF PingInv
  <2> QED
    BY <1>1, <2>1, <2>2 DEF PingInv
<1> QED
  BY <1>2, <1>3

\* processPong removes the entry it fires.
LEMMA PingAnswer ==
  ASSUME TypeOK, PingInv, NEW m \in net, processPong(m)
  PROVE  PingInv'
<1>1. /\ m.word = "PONG" /\ net' \subseteq net /\ hostLink = "connected"
      /\ UNCHANGED <<clock, pingTo, stamp, timers>>
  BY DEF processPong
<1>2. CASE stamp[m.ping] \in DOMAIN pings
  <2>1. Fire(stamp[m.ping], "pong") /\ hostLink' = hostLink
    BY <1>2 DEF processPong
  <2>2. call[pings[stamp[m.ping]]] = "waiting"
    BY <1>1, <1>2 DEF PingInv
  <2> QED
    BY <1>1, <1>2, <2>1, <2>2, PingFire DEF CallStates
<1>3. CASE stamp[m.ping] \notin DOMAIN pings
  <2>1. UNCHANGED pingVars /\ hostLink' = "down"
    BY <1>1, <1>3 DEF processPong, pingVars
  <2> QED
    BY <1>1, <2>1, PingSame
<1> QED
  BY <1>2, <1>3

\* No entry, no timer and no later timestamp survives a restart.
LEMMA PingRestart ==
  ASSUME TypeOK, PingInv, HostRestart PROVE PingInv'
<1>1. /\ DOMAIN pings' = {} /\ timers' = {} /\ clock' = clock + 1
      /\ UNCHANGED <<net, stamp>>
  BY DEF HostRestart, EmptyDict
<1>2. \A p \in Pings : call[p] # "idle" => call'[p] # "idle"
  BY DEF HostRestart
<1>3. \A m \in net : m.word \in {"PING", "PONG"} =>
        /\ call'[m.ping] # "idle"
        /\ stamp'[m.ping] < clock'
  BY <1>1, <1>2, MessageShape DEF PingInv, TypeOK
<1> QED
  BY <1>1, <1>3 DEF PingInv

\* Every step preserves PingInv.
LEMMA PingStep ==
  ASSUME TypeOK, PingInv, [Next]_vars PROVE PingInv'
<1> USE PingSame
<1>1. CASE UNCHANGED vars
  BY <1>1 DEF vars, linkVars
<1>2. CASE ClientStep
  <2>1. ASSUME NEW v \in VMs, NEW c \in CmdIds, NEW k \in Kinds,
               requestCmdExecution(v, c, k)
        PROVE  PingInv'
    BY <2>1 DEF requestCmdExecution, Written, CmdRun, linkVars
  <2>2. ASSUME NEW c \in CmdIds, popCmdResults(c) PROVE PingInv'
    BY <2>2 DEF popCmdResults, linkVars
  <2> QED
    BY <1>2, <2>1, <2>2, PingCall DEF ClientStep
<1>3. CASE Receive
  <2> PICK m \in net :
        \/ processCmdResult(m) \/ processPong(m) \/ addVM(m)
        \/ listenToCmdRun(m) \/ listenToPing(m) \/ Lose(m)
    BY <1>3 DEF Receive
  <2>1. CASE processCmdResult(m)
    BY <2>1 DEF processCmdResult
  <2>2. CASE addVM(m) \/ Lose(m)
    BY <2>2 DEF addVM, Lose, others, linkVars
  <2>3. CASE listenToCmdRun(m)
    BY <2>3 DEF listenToCmdRun, CmdResult
  <2>4. CASE listenToPing(m)
    BY <2>4 DEF listenToPing, Pong, linkVars
  <2> QED
    BY <2>1, <2>2, <2>3, <2>4, PingAnswer
<1>4. CASE LocalStep
  <2>1. ASSUME NEW v \in VMs, NEW c \in CmdIds, NEW e \in Exits,
               processEnded(v, c, e)
        PROVE  PingInv'
    BY <2>1 DEF processEnded, Report, Written, CmdResult, linkVars
  <2>2. ASSUME NEW v \in VMs, removeVM(v) \/ sendBeacon(v) PROVE PingInv'
    BY <2>2 DEF removeVM, sendBeacon, Alive, linkVars
  <2> QED
    BY <1>4, <2>1, <2>2, PingTimeout DEF LocalStep
<1>5. CASE LinkStep
  <2>1. CASE HostOpen \/ HostConnected \/ HostDrop
    BY <2>1 DEF HostOpen, HostConnected, HostDrop, others
  <2>2. ASSUME NEW v \in VMs,
               GuestOpen(v) \/ GuestConnected(v) \/ GuestDrop(v) \/ GuestHalt(v)
        PROVE  PingInv'
    BY <2>2 DEF GuestOpen, GuestConnected, GuestDrop, GuestHalt, others, Alive
  <2> QED
    BY <1>5, <2>1, <2>2, PingRestart DEF LinkStep
<1> QED
  BY <1>1, <1>2, <1>3, <1>4, <1>5 DEF Next

\* The inductive invariant on _pings, timers and ping frames
THEOREM PingInvariant == Spec => []PingInv
<1>1. Init => PingInv
  BY DEF Init, PingInv, EmptyDict
<1> QED
  BY <1>1, TypeCorrect, PingStep, PTL DEF Spec

\* No entry of _pings is forgotten by its timer, even when timestamps collide.
THEOREM EntryTimed == Spec => []PingEntryTimed
<1>1. PingInv => PingEntryTimed
  BY DEF PingInv, PingEntryTimed
<1> QED
  BY <1>1, PingInvariant, PTL

\* No Deferred of a ping is fired twice, whatever timers, late answers and
\* equal timestamps do.
THEOREM Settled == Spec => SettledOnce
<1> DEFINE Final == {"pong", "timeout", "raised", "lost"}
           Keep == \A p \in Pings : call[p] \in Final => call'[p] = call[p]
<1>1. ASSUME TypeOK, PingInv, [Next]_vars PROVE Keep
  <2>1. CASE UNCHANGED call
    BY <2>1
  <2>2. ASSUME NEW ts \in DOMAIN pings, NEW o, Fire(ts, o),
               call[pings[ts]] = "waiting"
        PROVE  Keep
    BY <1>1, <2>2 DEF Fire, TypeOK
  <2>3. ASSUME NEW p \in Pings, NEW v \in VMs, ping(p, v) PROVE Keep
    BY <1>1, <2>3 DEF ping, TypeOK
  <2>4. ASSUME NEW p \in Pings, timeout(p) PROVE Keep
    <3>1. CASE stamp[p] \in DOMAIN pings
      <4>1. call[pings[stamp[p]]] = "waiting" /\ Fire(stamp[p], "timeout")
        BY <1>1, <2>4, <3>1 DEF timeout, PingInv
      <4> QED
        BY <2>2, <3>1, <4>1
    <3>2. CASE stamp[p] \notin DOMAIN pings
      BY <2>1, <2>4, <3>2 DEF timeout
    <3> QED
      BY <3>1, <3>2
  <2>5. ASSUME NEW m \in net, processPong(m) PROVE Keep
    <3>1. CASE stamp[m.ping] \in DOMAIN pings
      <4>1. /\ call[pings[stamp[m.ping]]] = "waiting"
            /\ Fire(stamp[m.ping], "pong")
        BY <1>1, <2>5, <3>1 DEF processPong, PingInv
      <4> QED
        BY <2>2, <3>1, <4>1
    <3>2. CASE stamp[m.ping] \notin DOMAIN pings
      BY <2>1, <2>5, <3>2 DEF processPong
    <3> QED
      BY <3>1, <3>2
  <2>6. CASE HostRestart
    BY <2>6 DEF HostRestart
  <2> HIDE DEF Keep
  <2>7. CASE ClientStep
    BY <2>1, <2>3, <2>7 DEF ClientStep, requestCmdExecution, popCmdResults,
       pingVars
  <2>8. CASE Receive
    BY <2>1, <2>5, <2>8 DEF Receive, processCmdResult, addVM, listenToCmdRun,
       listenToPing, Lose, others, pingVars
  <2>9. CASE LocalStep
    BY <2>1, <2>4, <2>9 DEF LocalStep, processEnded, removeVM, sendBeacon,
       pingVars
  <2>10. CASE LinkStep
    BY <2>1, <2>6, <2>10 DEF LinkStep, HostOpen, HostConnected, HostDrop,
       GuestOpen, GuestConnected, GuestDrop, GuestHalt, others, pingVars
  <2>11. CASE UNCHANGED vars
    BY <2>1, <2>11 DEF vars, pingVars
  <2> QED
    BY <1>1, <2>7, <2>8, <2>9, <2>10, <2>11 DEF Next
<1> QED
  BY <1>1, TypeCorrect, PingInvariant, PTL DEF Spec, SettledOnce

-----------------------------------------------------------------------------
(* Whose answer settles a ping *)

\* A ping frame is under way to, or from, the guest that was pinged.
AddressInv ==
  \A m \in net : m.word \in {"PING", "PONG"} => m.vm = pingTo[m.ping]

\* A PONG is determined by its guest and its call.
LEMMA PongShape ==
  ASSUME NEW m \in Messages, m.word = "PONG"
  PROVE  m = Pong(m.vm, m.ping) /\ m.ping \in Pings
BY DEF Messages, Alive, CmdRun, CmdResult, Ping, Pong

\* Steps that leave the targets alone and add no frame for another one
LEMMA AddressSame ==
  ASSUME AddressInv, UNCHANGED pingTo,
         \A m \in net' : m.word \in {"PING", "PONG"} =>
           \E n \in net : n.word \in {"PING", "PONG"} /\ n.ping = m.ping
                          /\ n.vm = m.vm
  PROVE  AddressInv'
BY DEF AddressInv

\* A new call has no frame under way yet.
LEMMA AddressCall ==
  ASSUME TypeOK, PingInv, AddressInv, NEW p \in Pings, NEW v \in VMs, ping(p, v)
  PROVE  AddressInv'
<1>1. pingTo' = [pingTo EXCEPT ![p] = v] /\ pingTo \in [Pings -> VMs]
  BY DEF ping, TypeOK
<1>2. ASSUME NEW m \in net, m.word \in {"PING", "PONG"}
      PROVE  m.ping \in Pings \ {p}
  BY <1>2, MessageShape DEF ping, TypeOK, PingInv
<1>3. net' \subseteq net \cup {Ping(v, p)}
  BY DEF ping, Written
<1> QED
  BY <1>1, <1>2, <1>3 DEF AddressInv, Ping

\* Every step preserves AddressInv.
LEMMA AddressStep ==
  ASSUME TypeOK, PingInv, AddressInv, [Next]_vars PROVE AddressInv'
<1> USE AddressSame DEF pingVars
<1>1. CASE UNCHANGED vars
  BY <1>1 DEF vars
<1>2. CASE ClientStep
  <2>1. ASSUME NEW v \in VMs, NEW c \in CmdIds, NEW k \in Kinds,
               requestCmdExecution(v, c, k)
        PROVE  AddressInv'
    BY <2>1 DEF requestCmdExecution, Written, CmdRun
  <2>2. ASSUME NEW c \in CmdIds, popCmdResults(c) PROVE AddressInv'
    BY <2>2 DEF popCmdResults
  <2> QED
    BY <1>2, <2>1, <2>2, AddressCall DEF ClientStep
<1>3. CASE Receive
  <2> PICK m \in net :
        \/ processCmdResult(m) \/ processPong(m) \/ addVM(m)
        \/ listenToCmdRun(m) \/ listenToPing(m) \/ Lose(m)
    BY <1>3 DEF Receive
  <2>1. CASE processCmdResult(m) \/ processPong(m) \/ addVM(m) \/ Lose(m)
    BY <2>1 DEF processCmdResult, processPong, addVM, Lose, others
  <2>2. CASE listenToCmdRun(m)
    BY <2>2 DEF listenToCmdRun, CmdResult
  <2>3. CASE listenToPing(m)
    BY <2>3 DEF listenToPing, Pong
  <2> QED
    BY <2>1, <2>2, <2>3
<1>4. CASE LocalStep
  <2>1. ASSUME NEW v \in VMs, NEW c \in CmdIds, NEW e \in Exits,
               processEnded(v, c, e)
        PROVE  AddressInv'
    BY <2>1 DEF processEnded, Report, Written, CmdResult
  <2>2. ASSUME NEW v \in VMs, removeVM(v) \/ sendBeacon(v) PROVE AddressInv'
    BY <2>2 DEF removeVM, sendBeacon, Alive
  <2>3. ASSUME NEW p \in Pings, timeout(p) PROVE AddressInv'
    BY <2>3 DEF timeout
  <2> QED
    BY <1>4, <2>1, <2>2, <2>3 DEF LocalStep
<1>5. CASE LinkStep
  <2>1. CASE HostOpen \/ HostConnected \/ HostDrop \/ HostRestart
    BY <2>1 DEF HostOpen, HostConnected, HostDrop, HostRestart, others
  <2>2. ASSUME NEW v \in VMs,
               GuestOpen(v) \/ GuestConnected(v) \/ GuestDrop(v) \/ GuestHalt(v)
        PROVE  AddressInv'
    BY <2>2 DEF GuestOpen, GuestConnected, GuestDrop, GuestHalt, others, Alive
  <2> QED
    BY <1>5, <2>1, <2>2 DEF LinkStep
<1> QED
  BY <1>1, <1>2, <1>3, <1>4, <1>5 DEF Next

\* A step that makes a waiting ping succeed is the receipt of a PONG that bears
\* its timestamp.
LEMMA PongStep ==
  ASSUME TypeOK, PingInv, [Next]_vars, NEW p \in Pings,
         call[p] = "waiting", call'[p] = "pong"
  PROVE  \E m \in net : /\ m.word = "PONG"
                        /\ stamp[m.ping] = stamp[p]
<1>1. call' # call
  OBVIOUS
<1>2. ASSUME NEW q \in Pings, NEW v \in VMs, ping(q, v) PROVE FALSE
  BY <1>2 DEF ping, TypeOK
<1>3. ASSUME NEW q \in Pings, timeout(q) PROVE FALSE
  BY <1>3 DEF timeout, Fire, TypeOK
<1>4. ~HostRestart
  BY DEF HostRestart
<1>5. ~ClientStep
  BY <1>1, <1>2 DEF ClientStep, requestCmdExecution, popCmdResults, pingVars
<1>6. ~LocalStep
  BY <1>1, <1>3 DEF LocalStep, processEnded, removeVM, sendBeacon, pingVars
<1>7. ~LinkStep
  BY <1>1, <1>4 DEF LinkStep, HostOpen, HostConnected, HostDrop, GuestOpen,
     GuestConnected, GuestDrop, GuestHalt, others, pingVars
<1>8. PICK m \in net : processPong(m)
  BY <1>1, <1>5, <1>6, <1>7 DEF Next, vars, Receive, processCmdResult, addVM,
     listenToCmdRun, listenToPing, Lose, others, pingVars
<1>9. stamp[m.ping] \in DOMAIN pings /\ Fire(stamp[m.ping], "pong")
  BY <1>1, <1>8 DEF processPong
<1>10. p = pings[stamp[m.ping]]
  BY <1>9 DEF Fire, TypeOK
<1> QED
  BY <1>8, <1>9, <1>10 DEF processPong, PingInv

\* A ping succeeds by the answer of its own guest to it, or shares its
\* timestamp with another: for every number of guests and pings, however late
\* and out of order the answers come, and over restarts.
THEOREM PongIsOwn == Spec => PongFromTarget
<1>1. ASSUME TypeOK, PingInv, AddressInv, [Next]_vars
      PROVE  [\A p \in Pings : call[p] = "waiting" /\ call'[p] = "pong" =>
                Pong(pingTo[p], p) \in net \/ SharedStamp(p)]_vars
  <2> SUFFICES ASSUME NEW p \in Pings, call[p] = "waiting", call'[p] = "pong"
               PROVE  Pong(pingTo[p], p) \in net \/ SharedStamp(p)
    OBVIOUS
  <2>1. PICK m \in net : m.word = "PONG" /\ stamp[m.ping] = stamp[p]
    BY <1>1, PongStep
  <2>2. m = Pong(m.vm, m.ping) /\ m.ping \in Pings
    BY <1>1, <2>1, PongShape DEF TypeOK
  <2>3. m.vm = pingTo[m.ping] /\ call[m.ping] # "idle"
    BY <1>1, <2>1 DEF AddressInv, PingInv
  <2>4. CASE m.ping = p
    BY <2>2, <2>3, <2>4
  <2>5. CASE m.ping # p
    BY <2>1, <2>2, <2>3, <2>5 DEF SharedStamp
  <2> QED
    BY <2>4, <2>5
<1>2. Init => AddressInv
  BY DEF Init, AddressInv
<1> QED
  BY <1>1, <1>2, TypeCorrect, PingInvariant, AddressStep, PTL
     DEF Spec, PongFromTarget

-----------------------------------------------------------------------------
(* Every waiting ping can still be settled *)

\* A ping that waits has its entry and its timer, unless another call has read
\* the same time: what PingSettles rests on, besides that timers fire.
WaitingTimed ==
  \A p \in Pings : call[p] = "waiting" =>
    \/ /\ p \in timers
       /\ stamp[p] \in DOMAIN pings
       /\ pings[stamp[p]] = p
    \/ SharedStamp(p)

\* The deferred of an entry is fired by its own call, or by one that shares the
\* timestamp.
LEMMA WaitingFire ==
  ASSUME TypeOK, WaitingTimed, NEW q \in Pings, NEW o,
         call[q] # "idle", o # "idle", o # "waiting",
         stamp[q] \in DOMAIN pings, Fire(stamp[q], o),
         \A p \in timers : p # q => p \in timers',
         UNCHANGED stamp
  PROVE  WaitingTimed'
<1>1. \A p \in Pings : call'[p] = "waiting" => call[p] = "waiting" /\ p # pings[stamp[q]]
  BY DEF Fire, TypeOK
<1>2. \A p \in Pings : call[p] # "idle" => call'[p] # "idle"
  BY DEF Fire, TypeOK
<1>3. \A p \in Pings : SharedStamp(p) => SharedStamp(p)'
  BY <1>2 DEF SharedStamp
<1>4. /\ DOMAIN pings' = DOMAIN pings \ {stamp[q]}
      /\ \A ts \in DOMAIN pings \ {stamp[q]} : pings'[ts] = pings[ts]
  BY DEF Fire, Pop
<1> SUFFICES ASSUME NEW p \in Pings, call'[p] = "waiting", ~SharedStamp(p)
             PROVE  \/ /\ p \in timers'
                       /\ stamp[p] \in DOMAIN pings'
                       /\ pings'[stamp[p]] = p
                    \/ SharedStamp(p)'
  BY <1>3 DEF WaitingTimed
<1>5. p \in timers /\ stamp[p] \in DOMAIN pings /\ pings[stamp[p]] = p
  BY <1>1 DEF WaitingTimed
<1>6. stamp[p] # stamp[q] /\ p # q
  BY <1>1, <1>5 DEF SharedStamp
<1> QED
  BY <1>4, <1>5, <1>6

\* A new call takes the entry of those that have read the same time, and no
\* other.
LEMMA WaitingCall ==
  ASSUME TypeOK, WaitingTimed, NEW q \in Pings, NEW v \in VMs, ping(q, v)
  PROVE  WaitingTimed'
<1>1. PICK ts \in Readings : /\ stamp' = [stamp EXCEPT ![q] = ts]
                             /\ pings' = Put(pings, ts, q)
  BY DEF ping
<1>2. /\ stamp'[q] = ts
      /\ \A p \in Pings \ {q} : stamp'[p] = stamp[p] /\ call'[p] = call[p]
      /\ call[q] = "idle" /\ call'[q] # "idle"
      /\ timers \subseteq timers'
      /\ call'[q] = "waiting" => q \in timers'
  BY <1>1 DEF ping, TypeOK
<1>3. /\ ts \in DOMAIN pings' /\ pings'[ts] = q
      /\ \A x \in DOMAIN pings \ {ts} : x \in DOMAIN pings' /\ pings'[x] = pings[x]
  BY <1>1, Zenon DEF Put
<1>4. SUFFICES ASSUME NEW p \in Pings \ {q}, call'[p] = "waiting"
               PROVE  \/ /\ p \in timers'
                         /\ stamp'[p] \in DOMAIN pings'
                         /\ pings'[stamp'[p]] = p
                      \/ SharedStamp(p)'
  BY <1>2, <1>3 DEF WaitingTimed
<1>5. CASE SharedStamp(p)
  BY <1>2, <1>5 DEF SharedStamp
<1>6. CASE stamp[p] = ts
  BY <1>2, <1>6 DEF SharedStamp
<1> QED
  BY <1>2, <1>3, <1>4, <1>5, <1>6 DEF WaitingTimed

\* Every step preserves WaitingTimed.
LEMMA WaitingStep ==
  ASSUME TypeOK, PingInv, WaitingTimed, [Next]_vars PROVE WaitingTimed'
<1>1. CASE UNCHANGED <<call, pings, timers, stamp>>
  BY <1>1 DEF WaitingTimed, SharedStamp
<1>2. ASSUME NEW q \in Pings, timeout(q) PROVE WaitingTimed'
  <2>1. CASE stamp[q] \in DOMAIN pings
    BY <1>2, <2>1, WaitingFire DEF timeout, PingInv
  <2>2. CASE stamp[q] \notin DOMAIN pings
    BY <1>2, <2>2 DEF timeout, WaitingTimed, SharedStamp
  <2> QED
    BY <2>1, <2>2
<1>3. ASSUME NEW m \in net, processPong(m) PROVE WaitingTimed'
  <2>1. m.ping \in Pings /\ call[m.ping] # "idle" /\ UNCHANGED <<stamp, timers>>
    BY <1>3, MessageShape DEF processPong, PingInv, TypeOK
  <2>2. CASE stamp[m.ping] \in DOMAIN pings
    BY <1>3, <2>1, <2>2, WaitingFire DEF processPong
  <2>3. CASE stamp[m.ping] \notin DOMAIN pings
    BY <1>1, <1>3, <2>1, <2>3 DEF processPong
  <2> QED
    BY <2>2, <2>3
<1>4. CASE HostRestart
  BY <1>4 DEF HostRestart, WaitingTimed
<1>5. CASE ClientStep
  BY <1>1, <1>5, WaitingCall DEF ClientStep, requestCmdExecution, popCmdResults,
     pingVars
<1>6. CASE Receive
  BY <1>1, <1>3, <1>6 DEF Receive, processCmdResult, addVM, listenToCmdRun,
     listenToPing, Lose, others, pingVars
<1>7. CASE LocalStep
  BY <1>1, <1>2, <1>7 DEF LocalStep, processEnded, removeVM, sendBeacon, pingVars
<1>8. CASE LinkStep
  BY <1>1, <1>4, <1>8 DEF LinkStep, HostOpen, HostConnected, HostDrop,
     GuestOpen, GuestConnected, GuestDrop, GuestHalt, others, pingVars
<1>9. CASE UNCHANGED vars
  BY <1>1, <1>9 DEF vars, pingVars
<1> QED
  BY <1>5, <1>6, <1>7, <1>8, <1>9 DEF Next

\* No ping waits without the timer that will settle it, save those whose
\* timestamp another ping has taken: the safety half of PingSettles.
THEOREM WaitingIsTimed == Spec => []WaitingTimed
<1>1. Init => WaitingTimed
  BY DEF Init, WaitingTimed
<1> QED
  BY <1>1, TypeCorrect, PingInvariant, WaitingStep, PTL DEF Spec

-----------------------------------------------------------------------------
(* Which PONGs find their entry *)

\* A call has one frame under way, until it is settled by it.
FrameInv ==
  \A m \in net : m.word \in {"PING", "PONG"} =>
    /\ \A n \in net :
         n.word \in {"PING", "PONG"} /\ n.ping = m.ping => n = m
    /\ call[m.ping] \in {"waiting", "timeout", "lost"} \/ SharedStamp(m.ping)

\* Steps that leave the calls alone and add no frame of a ping
LEMMA FrameSame ==
  ASSUME FrameInv, UNCHANGED <<call, stamp>>,
         \A m \in net' : m.word \in {"PING", "PONG"} => m \in net
  PROVE  FrameInv'
BY DEF FrameInv, SharedStamp

\* A new call has one frame, and takes nothing from the others.
LEMMA FrameCall ==
  ASSUME TypeOK, PingInv, FrameInv, NEW p \in Pings, NEW v \in VMs, ping(p, v)
  PROVE  FrameInv'
<1>1. /\ call[p] = "idle" /\ call'[p] # "idle"
      /\ \A q \in Pings \ {p} : call'[q] = call[q] /\ stamp'[q] = stamp[q]
      /\ net' # net => call'[p] = "waiting"
      /\ net' \subseteq net \cup {Ping(v, p)}
  BY DEF ping, TypeOK, Written
<1>2. ASSUME NEW m \in net, m.word \in {"PING", "PONG"}
      PROVE  m.ping \in Pings \ {p}
  BY <1>1, <1>2, MessageShape DEF TypeOK, PingInv
<1>3. \A q \in Pings \ {p} : SharedStamp(q) => SharedStamp(q)'
  BY <1>1 DEF SharedStamp
<1>4. Ping(v, p).ping = p
  BY DEF Ping
<1> SUFFICES ASSUME NEW m \in net', m.word \in {"PING", "PONG"}
             PROVE  /\ \A n \in net' :
                         n.word \in {"PING", "PONG"} /\ n.ping = m.ping => n = m
                    /\ \/ call'[m.ping] \in {"waiting", "timeout", "lost"}
                       \/ SharedStamp(m.ping)'
  BY DEF FrameInv
<1>5. CASE m \in net
  BY <1>1, <1>2, <1>3, <1>4, <1>5 DEF FrameInv
<1>6. CASE m \notin net
  BY <1>1, <1>2, <1>4, <1>6
<1> QED
  BY <1>5, <1>6

\* A PONG that fires the entry of its own call was the call's last frame; one
\* that fires another entry shares its timestamp.
LEMMA FrameAnswer ==
  ASSUME TypeOK, PingInv, FrameInv, NEW m \in net, processPong(m)
  PROVE  FrameInv'
<1>1. /\ m.word = "PONG" /\ net' = net \ {m} /\ UNCHANGED stamp
      /\ m.ping \in Pings /\ call[m.ping] # "idle"
  BY MessageShape DEF processPong, PingInv, TypeOK
<1>2. CASE stamp[m.ping] \in DOMAIN pings
  <2>0. PICK q \in Pings : q = pings[stamp[m.ping]]
    BY <1>2 DEF TypeOK
  <2>1. /\ stamp[q] = stamp[m.ping]
        /\ call' = [call EXCEPT ![q] = "pong"]
    BY <1>2, <2>0 DEF processPong, Fire, PingInv
  <2>2. /\ \A p \in Pings \ {q} : call'[p] = call[p]
        /\ \A p \in Pings : call[p] # "idle" => call'[p] # "idle"
    BY <2>1 DEF TypeOK
  <2>3. \A p \in Pings : SharedStamp(p) => SharedStamp(p)'
    BY <1>1, <2>2 DEF SharedStamp
  <2>4. q # m.ping => SharedStamp(q)'
    BY <1>1, <2>1, <2>2 DEF SharedStamp
  <2>5. ASSUME NEW n \in net', n.word \in {"PING", "PONG"}
        PROVE  /\ n \in net /\ n.ping \in Pings /\ n.ping # m.ping
               /\ \/ call[n.ping] \in {"waiting", "timeout", "lost"}
                  \/ SharedStamp(n.ping)
    BY <1>1, <2>5, MessageShape DEF FrameInv, TypeOK
  <2>6. ASSUME NEW n \in net', n.word \in {"PING", "PONG"}
        PROVE  \/ call'[n.ping] \in {"waiting", "timeout", "lost"}
               \/ SharedStamp(n.ping)'
    <3>1. CASE n.ping = q
      BY <2>4, <2>5, <2>6, <3>1
    <3>2. CASE n.ping # q
      BY <2>2, <2>3, <2>5, <2>6, <3>2
    <3> QED
      BY <3>1, <3>2
  <2> QED
    BY <1>1, <2>6 DEF FrameInv
<1>3. CASE stamp[m.ping] \notin DOMAIN pings
  BY <1>1, <1>3, FrameSame DEF processPong
<1> QED
  BY <1>2, <1>3

\* A timer, or a restart, settles calls in a way that allows for late answers.
LEMMA FrameLate ==
  ASSUME TypeOK, FrameInv, UNCHANGED <<net, stamp>>,
         \A p \in Pings : call'[p] = call[p] \/ call'[p] \in {"timeout", "lost"}
  PROVE  FrameInv'
<1>1. \A p \in Pings : SharedStamp(p) => SharedStamp(p)'
  BY DEF SharedStamp
<1>2. \A m \in net : m.word \in {"PING", "PONG"} => m.ping \in Pings
  BY MessageShape DEF TypeOK
<1> QED
  BY <1>1, <1>2 DEF FrameInv

\* Every step preserves FrameInv.
LEMMA FrameStep ==
  ASSUME TypeOK, PingInv, FrameInv, [Next]_vars PROVE FrameInv'
<1> USE FrameSame DEF pingVars
<1>1. CASE UNCHANGED vars
  BY <1>1 DEF vars
<1>2. CASE ClientStep
  <2>1. ASSUME NEW v \in VMs, NEW c \in CmdIds, NEW k \in Kinds,
               requestCmdExecution(v, c, k)
        PROVE  FrameInv'
    BY <2>1 DEF requestCmdExecution, Written, CmdRun
  <2>2. ASSUME NEW c \in CmdIds, popCmdResults(c) PROVE FrameInv'
    BY <2>2 DEF popCmdResults
  <2> QED
    BY <1>2, <2>1, <2>2, FrameCall DEF ClientStep
<1>3. CASE Receive
  <2> PICK m \in net :
        \/ processCmdResult(m) \/ processPong(m) \/ addVM(m)
        \/ listenToCmdRun(m) \/ listenToPing(m) \/ Lose(m)
    BY <1>3 DEF Receive
  <2>1. CASE processCmdResult(m) \/ addVM(m) \/ Lose(m)
    BY <2>1 DEF processCmdResult, addVM, Lose, others
  <2>2. CASE listenToCmdRun(m)
    BY <2>2 DEF listenToCmdRun, CmdResult
  <2>3. CASE listenToPing(m)
    <3>1. /\ m.word = "PING" /\ net' = (net \ {m}) \cup {Pong(m.vm, m.ping)}
          /\ UNCHANGED <<call, stamp>>
      BY <2>3 DEF listenToPing
    <3>2. Pong(m.vm, m.ping).ping = m.ping
      BY DEF Pong
    <3>3. \A n \in net \ {m} : n.word \in {"PING", "PONG"} => n.ping # m.ping
      BY <3>1 DEF FrameInv
    <3>4. \A p : SharedStamp(p)' <=> SharedStamp(p)
      BY <3>1 DEF SharedStamp
    <3>5. ASSUME NEW n \in net', n.word \in {"PING", "PONG"}
          PROVE  /\ \A l \in net' :
                      l.word \in {"PING", "PONG"} /\ l.ping = n.ping => l = n
                 /\ \/ call[n.ping] \in {"waiting", "timeout", "lost"}
                    \/ SharedStamp(n.ping)
      BY <3>1, <3>2, <3>3, <3>5 DEF FrameInv
    <3> QED
      BY <3>1, <3>4, <3>5 DEF FrameInv
  <2> QED
    BY <2>1, <2>2, <2>3, FrameAnswer
<1>4. CASE LocalStep
  <2>1. ASSUME NEW v \in VMs, NEW c \in CmdIds, NEW e \in Exits,
               processEnded(v, c, e)
        PROVE  FrameInv'
    BY <2>1 DEF processEnded, Report, Written, CmdResult
  <2>2. ASSUME NEW v \in VMs, removeVM(v) \/ sendBeacon(v) PROVE FrameInv'
    BY <2>2 DEF removeVM, sendBeacon, Alive
  <2>3. ASSUME NEW p \in Pings, timeout(p) PROVE FrameInv'
    BY <2>3, FrameLate DEF timeout, Fire, TypeOK
  <2> QED
    BY <1>4, <2>1, <2>2, <2>3 DEF LocalStep
<1>5. CASE LinkStep
  <2>1. CASE HostOpen \/ HostConnected \/ HostDrop
    BY <2>1 DEF HostOpen, HostConnected, HostDrop, others
  <2>2. CASE HostRestart
    BY <2>2, FrameLate DEF HostRestart, TypeOK
  <2>3. ASSUME NEW v \in VMs,
               GuestOpen(v) \/ GuestConnected(v) \/ GuestDrop(v) \/ GuestHalt(v)
        PROVE  FrameInv'
    BY <2>3 DEF GuestOpen, GuestConnected, GuestDrop, GuestHalt, others, Alive
  <2> QED
    BY <1>5, <2>1, <2>2, <2>3 DEF LinkStep
<1> QED
  BY <1>1, <1>2, <1>3, <1>4, <1>5 DEF Next

\* A PONG closes the host's connection only if it comes after its timer, after
\* a restart, or with a timestamp that two pings share: for every number of
\* guests and pings, lost connections and restarts.
THEOREM PongFound == Spec => []PongExpected
<1>1. ASSUME TypeOK, FrameInv, WaitingTimed PROVE PongExpected
  <2> SUFFICES ASSUME NEW m \in net, m.word = "PONG"
               PROVE  \/ stamp[m.ping] \in DOMAIN pings
                      \/ call[m.ping] \in {"timeout", "lost"}
                      \/ SharedStamp(m.ping)
    BY DEF PongExpected
  <2>1. m.ping \in Pings
    BY <1>1, MessageShape DEF TypeOK
  <2> QED
    BY <1>1, <2>1 DEF FrameInv, WaitingTimed
<1>2. Init => FrameInv
  BY DEF Init, FrameInv
<1> QED
  BY <1>1, <1>2, TypeCorrect, PingInvariant, WaitingIsTimed, FrameStep, PTL DEF Spec
=============================================================================
