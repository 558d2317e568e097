----------------------------- MODULE TurboSPSC -----------------------------
(***************************************************************************)
(* The byte queue of common/src/containers/turbo_spsc.hpp: one writer, one *)
(* reader, messages of one type copied into a ring of bytes.  Each side    *)
(* keeps a copy of the other's index and loads the index only when the     *)
(* copy says full or empty; the reader stores its own at that moment too.  *)
(* An action accesses shared memory once.                                  *)
(***************************************************************************)
EXTENDS Naturals, Sequences

CONSTANTS
  BUFFER_SIZE,    \* bytes of the ring; a multiple of SIZE, so that no message straddles its end
  SIZE,           \* sizeof(T)
  TurboMessage,        \* messages; SIZE equal bytes each
  MAX_TURBO_WRITES      \* bound: messages written

\* turbo_spsc.hpp itself does not check that BUFFER_SIZE is a multiple of SIZE;
\* it is so for the one type that is sent through such a queue.
TurboConstants ==
  /\ SIZE \in Nat \ {0} /\ BUFFER_SIZE \in Nat \ {0} /\ BUFFER_SIZE % SIZE = 0
  /\ MAX_TURBO_WRITES \in Nat

ASSUME TurboAssumption == TurboConstants

VARIABLES
  thead, ttail, buffer,       \* shared
  headCache, twpc, twmsg,     \* write(): idle, reload, fill, publish
  tailCache, readCursor, trpc,   \* read(): idle, load, copy
  twritten, tgot              \* history: messages accepted, and the bytes read

turboWriter == <<headCache, twpc, twmsg, twritten>>
turboReader == <<tailCache, readCursor, trpc, tgot>>
turboVars == <<thead, ttail, buffer, turboWriter, turboReader>>

\* The bytes of the message at index i.
Bytes(i) == [k \in 1..SIZE |-> (i % BUFFER_SIZE) + k - 1]

TurboInit ==
  /\ thead = 0 /\ ttail = 0 /\ buffer = [b \in 0..(BUFFER_SIZE - 1) |-> 0]
  /\ headCache = 0 /\ twpc = "idle" /\ twmsg = 0
  /\ tailCache = 0 /\ readCursor = 0 /\ trpc = "idle" /\ twritten = <<>> /\ tgot = <<>>

-----------------------------------------------------------------------------
FaultyFits(h) == ttail <= h + BUFFER_SIZE

Fits(h) == ttail + SIZE <= h + BUFFER_SIZE

TurboWriteCheck(m) ==
  /\ twpc = "idle" /\ Len(twritten) < MAX_TURBO_WRITES /\ twmsg' = m
  /\ twpc' = IF Fits(headCache) THEN "fill" ELSE "reload"
  /\ UNCHANGED <<thead, ttail, buffer, headCache, twritten, turboReader>>

\* The index is loaded; write() returns false when the ring is still full.
TurboWriteReload ==
  /\ twpc = "reload" /\ headCache' = thead
  /\ twpc' = IF Fits(thead) THEN "fill" ELSE "idle"
  /\ UNCHANGED <<thead, ttail, buffer, twmsg, twritten, turboReader>>

TurboWriteCopy ==
  /\ twpc = "fill" /\ twpc' = "publish"
  /\ buffer' = [b \in DOMAIN buffer |->
                  IF \E k \in 1..SIZE : Bytes(ttail)[k] = b THEN twmsg ELSE buffer[b]]
  /\ UNCHANGED <<thead, ttail, headCache, twmsg, twritten, turboReader>>

TurboWritePublish ==
  /\ twpc = "publish" /\ twpc' = "idle" /\ ttail' = ttail + SIZE /\ twritten' = Append(twritten, twmsg)
  /\ UNCHANGED <<thead, buffer, headCache, twmsg, turboReader>>

-----------------------------------------------------------------------------
FaultyReadCheck ==
  /\ trpc = "idle" /\ trpc' = IF readCursor = tailCache THEN "load" ELSE "copy"
  /\ UNCHANGED <<thead, ttail, buffer, turboWriter, tailCache, readCursor, tgot>>

\* What was seen of the writer's messages is read: the reader's index is
\* stored before the writer's is loaded.
TurboReadCheck ==
  /\ trpc = "idle" /\ trpc' = IF readCursor = tailCache THEN "load" ELSE "copy"
  /\ thead' = IF readCursor = tailCache THEN readCursor ELSE thead
  /\ UNCHANGED <<ttail, buffer, turboWriter, tailCache, readCursor, tgot>>

FaultyReadLoad ==
  /\ trpc = "load" /\ tailCache' = ttail /\ trpc' = "copy"
  /\ UNCHANGED <<thead, ttail, buffer, turboWriter, readCursor, tgot>>

\* read() returns false when there is nothing new.
TurboReadLoad ==
  /\ trpc = "load" /\ tailCache' = ttail /\ trpc' = IF readCursor = ttail THEN "idle" ELSE "copy"
  /\ UNCHANGED <<thead, ttail, buffer, turboWriter, readCursor, tgot>>

TurboReadCopy ==
  /\ trpc = "copy" /\ trpc' = "idle" /\ readCursor' = readCursor + SIZE
  /\ tgot' = Append(tgot, [k \in 1..SIZE |-> buffer[Bytes(readCursor)[k]]])
  /\ UNCHANGED <<thead, ttail, buffer, turboWriter, tailCache>>

TurboWrite == TurboWriteReload \/ TurboWriteCopy \/ TurboWritePublish \/ \E m \in TurboMessage : TurboWriteCheck(m)
TurboRead == TurboReadCheck \/ TurboReadLoad \/ TurboReadCopy
TurboNext == TurboWrite \/ TurboRead

\* Both threads run, and a writer that was refused tries again.
TurboSpec == TurboInit /\ [][TurboNext]_turboVars /\ WF_turboVars(TurboWrite) /\ WF_turboVars(TurboRead)

-----------------------------------------------------------------------------
\* Every variable has its type, and each copy of an index lags behind it.
TurboTypeOK ==
  /\ {thead, headCache, tailCache} \subseteq Nat
  /\ headCache <= thead /\ thead <= readCursor /\ readCursor <= tailCache /\ tailCache <= ttail
  /\ twpc \in {"idle", "reload", "fill", "publish"} /\ trpc \in {"idle", "load", "copy"}
  /\ twpc # "idle" => twmsg \in TurboMessage
  /\ buffer \in [0..(BUFFER_SIZE - 1) -> TurboMessage \cup {0}]
  /\ twritten \in Seq(TurboMessage) /\ tgot \in Seq([1..SIZE -> TurboMessage])

\* The memcpy of write() and that of read() never share a byte.
TurboCopiesDoNotOverlap ==
  twpc \in {"fill", "publish"} /\ trpc = "copy" =>
    \A k, l \in 1..SIZE : Bytes(ttail)[k] # Bytes(readCursor)[l]

\* The n-th message fills its bytes of the ring.
Filled(n, m) == \A k \in 1..SIZE : buffer[Bytes((n - 1) * SIZE)[k]] = m

\* The indices count whole messages; there is room for what the writer is about
\* to copy, something to take for the reader, and the bytes between the indices
\* are those of the messages written and not read yet.
BytesInv ==
  /\ ttail = Len(twritten) * SIZE /\ readCursor = Len(tgot) * SIZE
  /\ twpc \in {"fill", "publish"} => Fits(headCache)
  /\ tailCache % SIZE = 0 /\ (trpc = "copy" => readCursor < tailCache)
  /\ \A n \in (Len(tgot) + 1)..Len(twritten) : Filled(n, twritten[n])
  /\ twpc = "publish" => Filled(Len(twritten) + 1, twmsg)

\* The messages between the indices, each by its first byte.
TurboQueue == [k \in 1..((ttail - readCursor) \div SIZE) |-> buffer[Bytes(readCursor + (k - 1) * SIZE)[1]]]

TurboFifo == INSTANCE Fifo WITH
    Message <- TurboMessage, Capacity <- BUFFER_SIZE \div SIZE, queue <- TurboQueue

\* The bytes between the two indices are a bounded FIFO queue.
TurboImplementsFifo == TurboFifo!FifoSpec

\* read() hands out the messages accepted, whole and in order.
TurboReadsInOrder ==
  Len(tgot) <= Len(twritten) /\ \A i \in DOMAIN tgot : tgot[i] = [k \in 1..SIZE |-> twritten[i]]

\* A writer that keeps trying is not refused for ever: the reader stores its
\* index once it has read what it knew of.
WriterGoesOn == \A n \in 1..MAX_TURBO_WRITES : <>(Len(twritten) >= n)

\* Safety: copies of an index lag behind it, so the memcpys stay apart and the
\* messages come out whole and in order.
TurboInv == TurboTypeOK /\ BytesInv /\ TurboCopiesDoNotOverlap /\ TurboReadsInOrder
=============================================================================
