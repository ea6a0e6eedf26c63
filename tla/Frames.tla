--------------------------------- MODULE Frames ---------------------------------
(***************************************************************************)
(* How an agent gets STOMP frames out of its connection: dataReceived of   *)
(* StompProtocol takes what one read of the socket returns for one frame.  *)
(*                                                                         *)
(* Nothing is kept from one read to the next.  A read that holds a part of *)
(* a frame, or more than one frame, is misread: it is handled as the frame *)
(* it begins with, ignored, or raises, and then the connection is closed.  *)
(*                                                                         *)
(* The broker's stream is a sequence of parts, numbered from 0, Parts of   *)
(* them for each frame: its headers, the first word of its body, the rest. *)
(***************************************************************************)
EXTENDS Naturals

CONSTANTS
  MaxFrames,  \* bound: frames the broker sends
  MaxDrops    \* bound: times the connection is lost

ASSUME BoundAssumption == MaxFrames \in Nat /\ MaxDrops \in Nat

Parts == 3

VARIABLES
  sent,     \* frames that the broker has written to the connection
  pos,      \* parts that were read, or lost with a connection
  up,       \* is there a connection?
  handled,  \* frames that MsgInterpreter has got
  drops,
  misread,  \* history: frames in reads that were not exactly one frame
  dropped   \* history: frames that were lost with a connection

vars == <<sent, pos, up, handled, drops, misread, dropped>>

\* The frame of which part p is a part
FrameOf(p) == p \div Parts

\* The frames of which the first part is still unread
Unread == {f \in 0..(sent - 1) : f * Parts >= pos}

TypeOK ==
  /\ sent \in 0..MaxFrames
  /\ pos \in 0..(sent * Parts)
  /\ up \in BOOLEAN
  /\ drops \in 0..MaxDrops
  /\ \A s \in {handled, misread, dropped} : s \subseteq 0..(sent - 1)

Init ==
  /\ sent = 0 /\ pos = 0 /\ up = TRUE /\ drops = 0
  /\ handled = {} /\ misread = {} /\ dropped = {}

\* Mutant: the body is taken for a frame even if the headers are in an earlier
\* read.
Handles_body(k) ==
  IF k = Parts THEN {TRUE} ELSE BOOLEAN

\* Mutant: a whole frame behind a misread one is ignored.
Handles_poisoned(k) ==
  IF pos % Parts # 0 \/ k = 1 \/ misread # {} THEN {FALSE}
  ELSE IF k = Parts THEN {TRUE} ELSE BOOLEAN

\* What react does with a read of k parts: is the frame that it begins with
\* handled, and may it raise?  A read that does not begin with headers has no
\* known command and is ignored.  One that has a command but no body raises, if
\* the command is whole.  Behind a whole body, more parts can make the first
\* word, or what is deserialized, another one.  The action of a word may raise.
Handles(k) ==
  IF pos % Parts # 0 \/ k = 1 THEN {FALSE}
  ELSE IF k = Parts THEN {TRUE} ELSE BOOLEAN

Raises == IF pos % Parts # 0 THEN {FALSE} ELSE BOOLEAN

\* Mutant: the next frame of the broker is lost as well.
Close_next ==
  /\ up' = FALSE
  /\ pos' = (sent + 1) * Parts

\* The connection is closed: what was not read is lost.
Close ==
  /\ up' = FALSE
  /\ pos' = sent * Parts

dataReceived ==
  /\ up
  /\ \E k \in 1..(sent * Parts - pos), handles \in BOOLEAN, raises \in Raises :
       LET read == {FrameOf(p) : p \in pos..(pos + k - 1)} IN
       /\ handles \in Handles(k)
       /\ handled' = IF handles THEN handled \cup {FrameOf(pos)} ELSE handled
       /\ misread' = IF pos % Parts = 0 /\ k = Parts THEN misread
                     ELSE misread \cup read
       /\ IF raises THEN Close /\ dropped' = dropped \cup (Unread \ read)
                    ELSE pos' = pos + k /\ UNCHANGED <<up, dropped>>
  /\ UNCHANGED <<sent, drops>>

\* The broker sends a frame.
send ==
  /\ up
  /\ sent < MaxFrames /\ sent' = sent + 1
  /\ UNCHANGED <<pos, up, handled, drops, misread, dropped>>

connectionLost ==
  /\ up
  /\ drops < MaxDrops /\ drops' = drops + 1
  /\ Close
  /\ dropped' = dropped \cup Unread
  /\ UNCHANGED <<sent, handled, misread>>

\* ReconnectingClientFactory connects again, with a new StompProtocol.
connectionMade ==
  /\ ~up /\ up' = TRUE
  /\ UNCHANGED <<sent, pos, handled, drops, misread, dropped>>

Next == dataReceived \/ send \/ connectionLost \/ connectionMade

Spec == Init /\ [][Next]_vars

-----------------------------------------------------------------------------
(* Properties *)

Channel == INSTANCE LossyChannel WITH next <- (pos + Parts - 1) \div Parts

\* However the stream is cut into reads, and however often the connection is
\* lost, the agent handles frames in the order they were sent in, none twice and
\* none that was not sent.
ImplementsChannel == Channel!Spec

\* A frame is lost only by a read that cuts or joins it, or with its connection:
\* a misread frame does no harm to one that comes in a read of its own.
LossExplained ==
  0..(sent - 1) = handled \cup Unread \cup misread \cup dropped
=============================================================================
