--------------------------- MODULE StreamFraming ----------------------------
(***************************************************************************)
(* A stream of messages over TCP as Channel reads it: the SlidingBuffer    *)
(* (common/src/containers/sliding_buffer.hpp), which receives the stream in*)
(* chunks of any size, and the framer that cuts the messages out of it:    *)
(* FixedSizeFramer with FlatBuffers, DummyFramer with SBE (transport/      *)
(* framing).  A byte is <<k, j>>: the j-th byte of the k-th message's      *)
(* frame, so that a byte out of place cannot be taken for another.         *)
(***************************************************************************)
EXTENDS Naturals, Sequences, FiniteSets

CONSTANTS
  Framer,             \* "fixed" or "dummy"
  HEADER_SIZE,        \* of the frame, or of the SBE message
  Sizes,              \* body sizes of the messages
  MAX_BODY,           \* 1024 in the program
  CAPACITY,           \* of the buffer, 128 K in the program
  MIN_READ_CAPACITY,  \* 512 in the program
  MAX_MESSAGES        \* bound: messages sent

VARIABLES
  sent,         \* body sizes of the messages sent
  wire,         \* bytes on their way
  buffer, head, tail,
  posted,       \* messages handed to the bus, by number
  error         \* the channel reported ConnectionStatus::Error

vars == <<sent, wire, buffer, head, tail, posted, error>>

NoByte == <<0, 0>>

TypeOK ==
  /\ sent \in Seq(Sizes) /\ tail <= head /\ head <= CAPACITY
  /\ Len(posted) <= Len(sent) /\ error \in BOOLEAN

Init ==
  /\ sent = <<>> /\ wire = <<>> /\ buffer = [i \in 1..CAPACITY |-> NoByte]
  /\ head = 0 /\ tail = 0 /\ posted = <<>> /\ error = FALSE

\* frame(): the size, then the body.  An SBE message carries its own header.
write(size) ==
  /\ Len(sent) < MAX_MESSAGES
  /\ sent' = Append(sent, size)
  /\ wire' = wire \o [j \in 1..(HEADER_SIZE + size) |-> <<Len(sent) + 1, j>>]
  /\ UNCHANGED <<buffer, head, tail, posted, error>>

-----------------------------------------------------------------------------
(* unframe(): the messages posted and where the cursor ends, or an error *)

\* What the reader finds at the cursor c of the data d: the number of a message
\* if its header is there and aligned.
HeaderAt(d, c) ==
  IF \A j \in 1..HEADER_SIZE : d[c + j] = <<d[c + 1][1], j>> THEN d[c + 1][1] ELSE 0
BodyAt(d, c, k) == \A j \in 1..sent[k] : d[c + HEADER_SIZE + j] = <<k, HEADER_SIZE + j>>
Failed == [ok |-> FALSE, posted |-> <<>>, cursor |-> 0]

FixedUnframe(d) ==
  LET from[c \in 0..Len(d)] ==
        IF c + HEADER_SIZE >= Len(d) THEN [ok |-> TRUE, posted |-> <<>>, cursor |-> c]
        ELSE LET k == HeaderAt(d, c)
             IN  IF k = 0 \/ sent[k] > MAX_BODY THEN Failed
                 ELSE IF c + HEADER_SIZE + sent[k] > Len(d) THEN [ok |-> TRUE, posted |-> <<>>, cursor |-> c]
                 ELSE IF ~BodyAt(d, c, k) THEN Failed
                 ELSE LET r == from[c + HEADER_SIZE + sent[k]]
                      IN  [r EXCEPT !.posted = <<k>> \o @]
  IN  from[0]

\* Every deserialize() needs a whole message; the ones before are posted already.
DummyUnframe(d) ==
  LET from[c \in 0..Len(d)] ==
        IF c = Len(d) THEN [ok |-> TRUE, posted |-> <<>>, cursor |-> c]
        ELSE IF c + HEADER_SIZE > Len(d) THEN Failed
        ELSE LET k == HeaderAt(d, c)
             IN  IF k = 0 THEN Failed
                 ELSE IF c + HEADER_SIZE + sent[k] > Len(d) THEN Failed
                 ELSE LET r == from[c + HEADER_SIZE + sent[k]]
                      IN  [r EXCEPT !.posted = <<k>> \o @]
  IN  from[0]

unframe(d) == IF Framer = "fixed" THEN FixedUnframe(d) ELSE DummyUnframe(d)

-----------------------------------------------------------------------------
(* The sliding buffer, as functions of its contents and its two positions *)

FaultyCommitRead(b, n) == IF b.tail + n = b.head THEN [b EXCEPT !.tail = 0, !.head = 0] ELSE b

\* commitRead(): an empty buffer starts over.
commitRead(b, n) ==
  IF b.tail + n = b.head THEN [b EXCEPT !.tail = 0, !.head = 0] ELSE [b EXCEPT !.tail = @ + n]

\* rotate(): what was not consumed moves to the front.
rotate(b) ==
  IF b.tail = 0 THEN b
  ELSE [bytes |-> SubSeq(b.bytes, b.tail + 1, b.head) \o SubSeq(b.bytes, b.head - b.tail + 1, CAPACITY),
        head |-> b.head - b.tail, tail |-> 0]

\* buffer(): rotate when little room is left behind head_.
room(b) == IF CAPACITY - b.head < MIN_READ_CAPACITY THEN rotate(b) ELSE b

-----------------------------------------------------------------------------
\* readHandler(): n bytes arrived behind head_; whole messages are posted; then
\* read() asks the buffer for room again.
readHandler(n) ==
  /\ ~error /\ n <= Len(wire) /\ n <= CAPACITY - head
  /\ wire' = SubSeq(wire, n + 1, Len(wire))
  /\ LET filled == SubSeq(buffer, 1, head) \o SubSeq(wire, 1, n) \o SubSeq(buffer, head + n + 1, CAPACITY)
         u == unframe(SubSeq(filled, tail + 1, head + n))
         b == room(commitRead([bytes |-> filled, head |-> head + n, tail |-> tail], u.cursor))
     IN  /\ posted' = posted \o u.posted
         /\ error' = ~u.ok
         /\ buffer' = IF u.ok THEN b.bytes ELSE filled
         /\ head' = IF u.ok THEN b.head ELSE 0
         /\ tail' = IF u.ok THEN b.tail ELSE 0
  /\ UNCHANGED sent

Next == (\E s \in Sizes : write(s)) \/ (\E n \in 1..CAPACITY : readHandler(n))

\* TCP delivers what was sent, in chunks of its own choice.
Spec == Init /\ [][Next]_vars /\ WF_vars(\E n \in 1..CAPACITY : readHandler(n))

-----------------------------------------------------------------------------
(* However the stream is cut into reads, the messages are posted once each,   *)
(* in the order they were sent.                                               *)
PostedInOrder == posted = [k \in 1..Len(posted) |-> k]

(* The next read always has at least MIN_READ_CAPACITY bytes to go to: a      *)
(* partial message never wedges the channel with an empty read.               *)
AlwaysRoomToRead == CAPACITY - head >= MIN_READ_CAPACITY

(* Everything sent is posted in the end.                                      *)
EverythingPosted == \A k \in 1..MAX_MESSAGES : Len(sent) >= k ~> Len(posted) >= k

(* No cut of the stream makes the channel report an error.                    *)
CutsAreHarmless == ~error

\* Safety: no cut of the stream disturbs the order of messages or leaves no room
\* for the next read; the fixed framer reports no error either.
Inv == TypeOK /\ PostedInOrder /\ AlwaysRoomToRead /\ (Framer = "fixed" => CutsAreHarmless)
=============================================================================
