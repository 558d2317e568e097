------------------------------- MODULE MCWire -------------------------------
(***************************************************************************)
(* What a message takes on its way between client and server, one at a     *)
(* time: an order id (SlotIdPool), a buffer to write into (BufferPool), a  *)
(* frame in the stream (StreamFraming: fixed or dummy framer) and an       *)
(* encoding (DomainSerializer: fbs or sbe).  part says which of them runs. *)
(***************************************************************************)
EXTENDS SlotIdPool, BufferPool

CONSTANT
    MAX_MESSAGES    \* bound: messages sent over the stream

VARIABLES
    part,
    sent, stream, buffer, bhead, btail, posted, error,
    msg, wire, thrown, decoded, got

streamVars == <<sent, stream, buffer, bhead, btail, posted, error>>
codecVars == <<msg, wire, thrown, decoded, got>>
allVars == <<part, vars, poolVars, streamVars, codecVars>>

Stream(Framer) == INSTANCE StreamFraming WITH
    HEADER_SIZE <- 2, Sizes <- {1, 3}, MAX_BODY <- 3, CAPACITY <- 9, MIN_READ_CAPACITY <- 3,
    wire <- stream, head <- bhead, tail <- btail

\* A full ticker and a shorter one; texts around the width of their field.
Codec(Format) == INSTANCE DomainSerializer WITH
    Numbers <- {0, 7}, Texts <- {0, 4, 32, 33}, Tickers <- {<<1, 2, 3, 4>>, <<1, 2, 0, 0>>}

Framer == {"fixed", "dummy"}
Format == {"fbs", "sbe"}

WireInit ==
    /\ part \in {"ids", "buffers"} \cup Framer \cup Format
    /\ Init /\ PoolInit /\ Stream("fixed")!Init
    /\ \/ \E f \in Format : part = f /\ Codec(f)!Init
       \/ part \notin Format /\ msg = {} /\ wire = {} /\ thrown = FALSE /\ decoded = FALSE /\ got = {}

Pool(A) == part = "buffers" /\ A /\ UNCHANGED <<part, vars, streamVars, codecVars>>
Framing(f, A) == part = f /\ A /\ UNCHANGED <<part, vars, poolVars, codecVars>>

WireNext ==
    \/ part = "ids" /\ Next /\ UNCHANGED <<part, poolVars, streamVars, codecVars>>
    \/ Pool(PoolNext)
    \/ \E f \in Framer : Framing(f, Stream(f)!Next)
    \/ \E f \in Format : part = f /\ Codec(f)!Next /\ UNCHANGED <<part, vars, poolVars, streamVars>>

\* A thread inside an operation of the buffer pool goes on, and TCP delivers
\* what was sent.
WireSpec ==
    /\ WireInit /\ [][WireNext]_allVars
    /\ \A th \in Thread : WF_allVars(Pool(Step(th)))
    /\ WF_allVars(Framing("fixed", \E n \in 1..9 : Stream("fixed")!readHandler(n)))

-----------------------------------------------------------------------------
\* Channel and its framer: however the stream is cut into reads, messages are
\* posted once each, in the order they were sent, the next read has room to go
\* to, and FixedSizeFramer reports no error.
FramingInv == \A f \in Framer : part = f => Stream(f)!Inv

\* Serializers: deserialize posts the message that was serialized, every field
\* of it, or nothing when only a part of the bytes arrived; a message that
\* arrived whole is posted, and FlatBuffers refuses only texts too long for
\* their field.
CodecInv == \A f \in Format : part = f => Codec(f)!Inv

\* What was begun ends: of the threads in the buffer pool one at a time, although
\* VyukovMPMC retries in a loop, and the way of a message through
\* FixedSizeFramer.
BegunEnds == SomeOperationEnds /\ (part = "fixed" => Stream("fixed")!EverythingPosted)
=============================================================================
