------------------------------ MODULE Channel ------------------------------
(***************************************************************************)
(* Channel over BoostTcpTransport (common/src/transport/channel.hpp,       *)
(* boost/boost_tcp_transport.hpp): both ends of a TCP connection run it.   *)
(* A handler may work on several channels, so the operations are functions *)
(* on ch, the state of all ends.  Messages are whole here; the framing of  *)
(* the byte stream is in StreamFraming.                                    *)
(***************************************************************************)
EXTENDS Naturals, Sequences, SequencesExt

CONSTANT Connections

VARIABLES
    ch,         \* the two ends of every connection
    poolFull    \* BufferPool of the server process is exhausted

Ends == {"server", "client"} \X Connections
Peer(e) == <<IF e[1] = "server" THEN "client" ELSE "server", e[2]>>

ChannelState == [status: {"None", "Connected", "Disconnected", "Error"},   \* status_
                 open: BOOLEAN,       \* the socket
                 reading: BOOLEAN,    \* async_read_some is pending
                 broken: BOOLEAN]     \* an async_write will report an error

NoChannel == [status |-> "None", open |-> FALSE, reading |-> FALSE,
              broken |-> FALSE, wire |-> <<>>]   \* wire: messages to this end

\* The constructor followed by read().
NewChannel(c, e) == [c EXCEPT ![e].status = "Connected", ![e].reading = TRUE]

\* write(): dropped unless connected, or when no buffer is left.
Write(c, e, m) ==
    IF c[e].status # "Connected" \/ (e[1] = "server" /\ poolFull) THEN c
    ELSE IF c[Peer(e)].open THEN [c EXCEPT ![Peer(e)].wire = Append(@, m)]
    ELSE [c EXCEPT ![e].broken = TRUE]

\* close(): a pending read will complete with operation_aborted.
Close(c, e) == [c EXCEPT ![e].open = FALSE, ![e].wire = <<>>, ![e].status = "Disconnected"]

CloseAll(c, S) == FoldSet(LAMBDA e, d : Close(d, e), c, S)

\* The destructor: the handlers hold a weak pointer and do nothing any more.
Destroy(c, e) == [c EXCEPT ![e] = NoChannel]

DestroyAll(c, S) == [e \in Ends |-> IF e \in S THEN NoChannel ELSE c[e]]

FaultyReadOnce(c, e) == [c EXCEPT ![e].wire = Tail(@), ![e].reading = FALSE]
\* readHandler() with a message: after it was posted, read() again.
Received(c, e) ==
    [c EXCEPT ![e].wire = Tail(@), ![e].reading = c[e].status = "Connected"]

CanReceive(e) == ch[e].reading /\ ch[e].open /\ ch[e].wire # <<>>

\* readHandler() without one: end of file from the peer, or the own close().
ReadEnds(e) ==
    /\ ch[e].reading
    /\ ~ch[e].open \/ (~ch[Peer(e)].open /\ ch[e].wire = <<>>)

\* onStatus(Error) after a failed read or unframe, or after a failed write.
ReadFailed(c, e) == [c EXCEPT ![e].status = "Error", ![e].reading = FALSE]
WriteFailed(c, e) == [c EXCEPT ![e].status = "Error", ![e].broken = FALSE]

ChannelInit == ch = [e \in Ends |-> NoChannel] /\ poolFull = FALSE
=============================================================================
