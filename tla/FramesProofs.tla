----------------------------- MODULE FramesProofs -----------------------------
(***************************************************************************)
(* Proofs about Frames: its types, that a frame is lost only by a read     *)
(* that cuts or joins it or with its connection, and that the connection   *)
(* implements LossyChannel; for any number of frames and lost connections, *)
(* and any division of the stream into reads.                              *)
(***************************************************************************)
EXTENDS Frames, TLAPS

\* The first frame of which no part was read
NextFrame == (pos + Parts - 1) \div Parts

\* Frames and their parts
LEMMA PartsOfFrame ==
  /\ \A p \in Nat : /\ FrameOf(p) \in Nat
                    /\ Parts * FrameOf(p) <= p
                    /\ p < Parts * FrameOf(p) + Parts
  /\ \A f \in Nat : FrameOf(f * Parts) = f
  /\ \A p \in Nat : p % Parts = 0 => p = Parts * FrameOf(p)
BY DEF Parts, FrameOf

\* What a read of k parts holds: parts of frames that were sent, among them
\* every frame that it is the first to touch.
LEMMA ReadFrames ==
  ASSUME TypeOK, NEW k \in 1..(sent * Parts - pos)
  PROVE  LET read == {FrameOf(p) : p \in pos..(pos + k - 1)}
         IN  /\ read \subseteq 0..(sent - 1)
             /\ \A f \in Unread : f * Parts < pos + k => f \in read
             /\ FrameOf(pos) \in read
<1> DEFINE read == {FrameOf(p) : p \in pos..(pos + k - 1)}
<1>1. sent \in Nat /\ pos \in Nat /\ pos + k <= sent * Parts /\ k \in Nat \ {0}
  BY BoundAssumption DEF TypeOK, Parts
<1>2. \A p \in pos..(pos + k - 1) : FrameOf(p) \in 0..(sent - 1)
  BY <1>1 DEF FrameOf, Parts
<1>3. ASSUME NEW f \in Unread, f * Parts < pos + k
      PROVE  f \in read
  <2>1. f \in Nat /\ f * Parts \in pos..(pos + k - 1)
    BY <1>1, <1>3 DEF Unread, Parts
  <2>2. FrameOf(f * Parts) = f
    BY <2>1, PartsOfFrame
  <2> QED
    BY <2>1, <2>2
<1>4. FrameOf(pos) \in read
  BY <1>1
<1> QED
  BY <1>2, <1>3, <1>4

\* A read of exactly one frame is one that begins with its headers.
LEMMA WholeFrame ==
  ASSUME TypeOK, pos % Parts = 0, NEW p \in pos..(pos + Parts - 1)
  PROVE  FrameOf(p) = FrameOf(pos)
<1>1. pos \in Nat
  BY BoundAssumption DEF TypeOK, Parts
<1> QED
  BY <1>1 DEF FrameOf, Parts

\* The types are an invariant by themselves.
LEMMA TypeNext == TypeOK /\ [Next]_vars => TypeOK'
<1> SUFFICES ASSUME TypeOK, [Next]_vars
             PROVE  TypeOK'
  OBVIOUS
<1> USE BoundAssumption
<1>0. sent \in Nat /\ pos \in Nat /\ pos <= sent * Parts
  BY DEF TypeOK, Parts
<1>1. CASE dataReceived
  <2>1. PICK k \in 1..(sent * Parts - pos), handles \in BOOLEAN, raises \in Raises :
          LET read == {FrameOf(p) : p \in pos..(pos + k - 1)} IN
          /\ handles \in Handles(k)
          /\ handled' = IF handles THEN handled \cup {FrameOf(pos)} ELSE handled
          /\ misread' = IF pos % Parts = 0 /\ k = Parts THEN misread
                        ELSE misread \cup read
          /\ IF raises THEN Close /\ dropped' = dropped \cup (Unread \ read)
                       ELSE pos' = pos + k /\ UNCHANGED <<up, dropped>>
    BY <1>1 DEF dataReceived
  <2> DEFINE read == {FrameOf(p) : p \in pos..(pos + k - 1)}
  <2>2. read \subseteq 0..(sent - 1) /\ FrameOf(pos) \in read
    BY ReadFrames
  <2>3. UNCHANGED <<sent, drops>>
    BY <1>1 DEF dataReceived
  <2>4. pos' \in 0..(sent * Parts)
    BY <1>0, <2>1 DEF Close, Parts
  <2>5. up' \in BOOLEAN
    BY <2>1, Zenon DEF Close, TypeOK
  <2>6. handled' \subseteq 0..(sent - 1) /\ misread' \subseteq 0..(sent - 1)
    <3> HIDE DEF read
    <3>1. handled \subseteq 0..(sent - 1) /\ misread \subseteq 0..(sent - 1)
      BY DEF TypeOK
    <3>2. handled' \in {handled, handled \cup {FrameOf(pos)}}
      BY <2>1, Zenon
    <3>3. misread' \in {misread, misread \cup read}
      BY <2>1, Zenon DEF read
    <3> QED
      BY <2>2, <3>1, <3>2, <3>3
  <2>7. dropped' \subseteq 0..(sent - 1)
    <3>1. dropped \subseteq 0..(sent - 1) /\ Unread \subseteq 0..(sent - 1)
      BY DEF TypeOK, Unread
    <3>2. dropped' \in {dropped, dropped \cup (Unread \ read)}
      BY <2>1, Zenon
    <3> QED
      BY <3>1, <3>2
  <2> QED
    BY <2>3, <2>4, <2>5, <2>6, <2>7 DEF TypeOK
<1>2. CASE send
  BY <1>0, <1>2 DEF send, TypeOK, Parts
<1>3. CASE connectionLost
  <2>1. Unread \subseteq 0..(sent - 1)
    BY DEF Unread
  <2>2. pos' \in 0..(sent * Parts) /\ drops' \in 0..MaxDrops
    BY <1>0, <1>3 DEF connectionLost, Close, TypeOK, Parts
  <2>3. /\ up' \in BOOLEAN /\ UNCHANGED <<sent, handled, misread>>
        /\ dropped' = dropped \cup Unread
    BY <1>3 DEF connectionLost, Close
  <2> QED
    BY <2>1, <2>2, <2>3 DEF TypeOK
<1>4. CASE connectionMade
  BY <1>4 DEF connectionMade, TypeOK
<1>5. CASE UNCHANGED vars
  BY <1>5 DEF vars, TypeOK
<1> QED
  BY <1>1, <1>2, <1>3, <1>4, <1>5 DEF Next

\* The variables keep their types: nothing that was not sent is read, and only
\* frames that were sent are handled, misread or dropped.
THEOREM TypeCorrect == Spec => []TypeOK
<1>1. Init => TypeOK
  BY BoundAssumption DEF Init, TypeOK, Parts
<1> QED
  BY <1>1, TypeNext, PTL DEF Spec

-----------------------------------------------------------------------------

\* Every step keeps LossExplained: a frame that is no longer unread was in the
\* read, and if that was misread it is in misread, else it was handled.
LEMMA LossNext == TypeOK /\ LossExplained /\ [Next]_vars => LossExplained'
<1> SUFFICES ASSUME TypeOK, LossExplained, [Next]_vars
             PROVE  LossExplained'
  OBVIOUS
<1> USE BoundAssumption
<1>0. sent \in Nat /\ pos \in Nat /\ pos <= sent * Parts
  BY DEF TypeOK, Parts
<1>T. TypeOK'
  BY TypeNext
<1>U. Unread' \subseteq 0..(sent' - 1)
  BY DEF Unread
\* Only one inclusion needs an argument.
<1> SUFFICES 0..(sent' - 1) \subseteq handled' \cup Unread' \cup misread' \cup dropped'
  BY <1>T, <1>U DEF TypeOK, LossExplained
<1>1. CASE dataReceived
  <2>1. PICK k \in 1..(sent * Parts - pos), handles \in BOOLEAN, raises \in Raises :
          LET read == {FrameOf(p) : p \in pos..(pos + k - 1)} IN
          /\ handles \in Handles(k)
          /\ handled' = IF handles THEN handled \cup {FrameOf(pos)} ELSE handled
          /\ misread' = IF pos % Parts = 0 /\ k = Parts THEN misread
                        ELSE misread \cup read
          /\ IF raises THEN Close /\ dropped' = dropped \cup (Unread \ read)
                       ELSE pos' = pos + k /\ UNCHANGED <<up, dropped>>
    BY <1>1 DEF dataReceived
  <2> DEFINE read == {FrameOf(p) : p \in pos..(pos + k - 1)}
  <2>2. \A f \in Unread : f * Parts < pos + k => f \in read
    BY ReadFrames
  <2>3. sent' = sent
    BY <1>1 DEF dataReceived
  <2>4. handled \subseteq handled' /\ misread \subseteq misread' /\ dropped \subseteq dropped'
    BY <2>1, Zenon
  <2>5. read \subseteq handled' \cup misread'
    <3>1. CASE pos % Parts = 0 /\ k = Parts
      <4>k. k # 1
        BY <3>1 DEF Parts
      <4>0. Handles(k) = {TRUE}
        BY <3>1, <4>k, Zenon DEF Handles
      <4>1. handles = TRUE
        BY <2>1, <4>0, Zenon
      <4>2. FrameOf(pos) \in handled'
        BY <2>1, <4>1, Zenon
      <4>3. \A p \in pos..(pos + k - 1) : FrameOf(p) = FrameOf(pos)
        BY <3>1, WholeFrame
      <4> QED
        BY <4>2, <4>3
    <3>2. CASE ~(pos % Parts = 0 /\ k = Parts)
      <4>1. misread' = misread \cup read
        BY <2>1, <3>2, Zenon
      <4> QED
        BY <4>1
    <3> QED
      BY <3>1, <3>2
  <2>6. \A f \in Unread : f \in read \cup Unread' \cup dropped'
    <3> SUFFICES ASSUME NEW f \in Unread, f \notin read
                 PROVE  f \in Unread' \cup dropped'
      OBVIOUS
    <3>1. CASE raises
      BY <2>1, <3>1, Zenon
    <3>2. CASE ~raises
      <4>1. pos' = pos + k
        BY <2>1, <3>2, Zenon
      <4>2. f \in 0..(sent - 1) /\ ~(f * Parts < pos + k)
        BY <2>2 DEF Unread
      <4>3. f * Parts >= pos'
        BY <1>0, <4>1, <4>2 DEF Parts
      <4> QED
        BY <2>3, <4>2, <4>3 DEF Unread
    <3> QED
      BY <3>1, <3>2
  <2> HIDE DEF read
  <2>7. 0..(sent - 1) = handled \cup Unread \cup misread \cup dropped
    BY DEF LossExplained
  <2> QED
    BY <2>3, <2>4, <2>5, <2>6, <2>7
<1>2. CASE send
  <2>1. /\ sent' = sent + 1 /\ pos' = pos
        /\ UNCHANGED <<handled, misread, dropped>>
    BY <1>2 DEF send
  <2>2. sent \in Unread'
    BY <1>0, <2>1 DEF Unread, Parts
  <2>3. Unread \subseteq Unread'
    BY <1>0, <2>1 DEF Unread, Parts
  <2>4. 0..(sent' - 1) = 0..(sent - 1) \cup {sent}
    BY <1>0, <2>1
  <2> QED
    BY <2>1, <2>2, <2>3, <2>4 DEF LossExplained
<1>3. CASE connectionLost
  BY <1>3 DEF connectionLost, LossExplained
<1>4. CASE connectionMade
  BY <1>4 DEF connectionMade, LossExplained, Unread
<1>5. CASE UNCHANGED vars
  BY <1>5 DEF vars, LossExplained, Unread
<1> QED
  BY <1>1, <1>2, <1>3, <1>4, <1>5 DEF Next

\* dataReceived loses no frame that comes in a read of its own, whatever was
\* misread before; all other losses are those of a connection.
THEOREM Loss == Spec => []LossExplained
<1>1. Init => LossExplained
  BY DEF Init, LossExplained, Unread
<1> QED
  BY <1>1, TypeCorrect, LossNext, PTL DEF Spec

-----------------------------------------------------------------------------

\* The first frame that is not begun is one that was sent, or the next one.
LEMMA FirstWhole ==
  \A s \in 0..MaxFrames : \A p \in 0..(s * 3) : (p + 3 - 1) \div 3 \in 0..s
<1> SUFFICES ASSUME NEW s \in Nat, NEW p \in Nat, p <= s * 3
             PROVE  (p + 3 - 1) \div 3 \in 0..s
  BY BoundAssumption
<1> QED
  OBVIOUS

\* Every step of the connection is one of the channel, or none.
LEMMA ChannelStep ==
  TypeOK /\ [Next]_vars => [Channel!Next]_(Channel!vars)
<1> SUFFICES ASSUME TypeOK, [Next]_vars
             PROVE  [Channel!Next]_(Channel!vars)
  OBVIOUS
<1> USE BoundAssumption
<1>0. sent \in Nat /\ pos \in Nat /\ pos <= sent * Parts
  BY DEF TypeOK, Parts
<1>T. TypeOK'
  BY TypeNext
<1>N. NextFrame \in 0..sent /\ NextFrame' \in 0..sent'
  <2>1. sent' \in 0..MaxFrames /\ pos' \in 0..(sent' * 3)
    BY <1>T DEF TypeOK, Parts
  <2>2. NextFrame = (pos + 3 - 1) \div 3 /\ NextFrame' = (pos' + 3 - 1) \div 3
    BY DEF NextFrame, Parts
  <2>3. sent \in 0..MaxFrames /\ pos \in 0..(sent * 3)
    BY DEF TypeOK, Parts
  <2>4. NextFrame \in 0..sent
    BY <2>2, <2>3, FirstWhole
  <2>5. NextFrame' \in 0..sent'
    BY <2>1, <2>2, FirstWhole
  <2> QED
    BY <2>4, <2>5
<1>S. ASSUME sent' = sent, NextFrame' >= NextFrame,
             \/ handled' = handled
             \/ NextFrame' # NextFrame /\ handled' = handled \cup {NextFrame}
      PROVE  [Channel!Next]_(Channel!vars)
  <2>1. CASE NextFrame' = NextFrame
    BY <1>S, <2>1 DEF Channel!vars, NextFrame
  <2>2. CASE NextFrame' # NextFrame
    <3>1. NextFrame' \in (NextFrame + 1)..sent
      BY <1>N, <1>S, <2>2
    <3>2. handled' \in {handled, handled \cup {NextFrame}}
      BY <1>S
    <3> QED
      BY <1>S, <3>1, <3>2 DEF Channel!Next, Channel!Take, NextFrame
  <2> QED
    BY <2>1, <2>2
<1>1. CASE dataReceived
  <2>1. PICK k \in 1..(sent * Parts - pos), handles \in BOOLEAN, raises \in Raises :
          LET read == {FrameOf(p) : p \in pos..(pos + k - 1)} IN
          /\ handles \in Handles(k)
          /\ handled' = IF handles THEN handled \cup {FrameOf(pos)} ELSE handled
          /\ misread' = IF pos % Parts = 0 /\ k = Parts THEN misread
                        ELSE misread \cup read
          /\ IF raises THEN Close /\ dropped' = dropped \cup (Unread \ read)
                       ELSE pos' = pos + k /\ UNCHANGED <<up, dropped>>
    BY <1>1 DEF dataReceived
  <2>2. sent' = sent
    BY <1>1 DEF dataReceived
  <2>3. pos' \in Nat /\ pos' >= pos + k
    BY <1>0, <2>1 DEF Close, Parts
  <2>4. NextFrame' >= NextFrame
    BY <1>0, <2>3 DEF NextFrame, Parts
  <2>5. CASE handled' = handled
    BY <1>S, <2>2, <2>4, <2>5
  <2>6. CASE handled' # handled
    <3>1. handles
      BY <2>1, <2>6, Zenon
    <3>2. pos % Parts = 0
      BY <2>1, <3>1 DEF Handles
    <3>3. FrameOf(pos) = NextFrame
      BY <1>0, <3>2 DEF FrameOf, NextFrame, Parts
    <3>4. NextFrame' # NextFrame
      BY <1>0, <2>3, <3>2 DEF NextFrame, Parts
    <3>5. handled' = handled \cup {NextFrame}
      BY <2>1, <3>1, <3>3, Zenon
    <3> QED
      BY <1>S, <2>2, <2>4, <3>4, <3>5
  <2> QED
    BY <2>5, <2>6
<1>2. CASE send
  BY <1>2 DEF send, Channel!Next, Channel!Send
<1>3. CASE connectionLost
  <2>1. sent' = sent /\ handled' = handled /\ pos' = sent * Parts
    BY <1>3 DEF connectionLost, Close
  <2>2. NextFrame' >= NextFrame
    BY <1>0, <2>1 DEF NextFrame, Parts
  <2> QED
    BY <1>S, <2>1, <2>2
<1>4. CASE connectionMade
  BY <1>4 DEF connectionMade, Channel!vars
<1>5. CASE UNCHANGED vars
  BY <1>5 DEF vars, Channel!vars
<1> QED
  BY <1>1, <1>2, <1>3, <1>4, <1>5 DEF Next

\* The connection implements a lossy channel: frames are handled in their order
\* and at most once, however dataReceived finds the stream divided.
THEOREM ChannelImplemented == Spec => ImplementsChannel
<1>1. Init => Channel!Init
  BY DEF Init, Channel!Init, Parts
<1> QED
  BY <1>1, TypeCorrect, ChannelStep, PTL DEF Spec, ImplementsChannel, Channel!Spec
=============================================================================
