--------------------------- MODULE TrustedSession ---------------------------
(***************************************************************************)
(* The session over shared memory: how the server and the client map the   *)
(* upstream and the downstream segment by name (ShmUPtr, mapFileHuge), use *)
(* them (TrustedSessionManager, TrustedConnectionManager over ShmTransport)*)
(* and drop them, the last one unlinking the file.                         *)
(*                                                                         *)
(* A file is a number, its content the reference count and the messages of *)
(* its ShmQueue; a message is the session it was written in.  A session    *)
(* begins when a process starts and none is running.                       *)
(***************************************************************************)
EXTENDS Naturals, Sequences, FiniteSets

CONSTANTS
  Capacity,      \* messages a queue holds
  MaxFiles,      \* bound on the files ever created
  MaxSessions,   \* bound on the sessions
  MaxCrashes     \* bound on the processes killed

Procs == {"server", "client"}
Segments == <<"up", "down">>
None == 0

VARIABLES
  path,      \* the file a segment's name denotes, None if there is none
  file,      \* ref and data of every file
  mapped,    \* the file each process maps for each segment
  place,     \* where each process is: off, up, closing, or a step on a segment
  own,       \* the local own/existed of each process's mapFileHuge
  work,      \* orders in the server's gateway
  session,   \* the number of the session
  crashes,   \* processes killed so far
  stale,     \* whether a client was given a status of an earlier session
  underflow, \* whether decrement() found the count at 0
  raced      \* history: a process was in one of the windows below

vars == <<path, file, mapped, place, own, work, session, crashes, stale, underflow, raced>>

Seg(p) == Segments[place[p][2]]
At(p, step) == place[p] \in {<<step, i>> : i \in 1..2}
Steps == {"off", "stat", "open", "construct", "increment", "up", "closing", "decrement", "unlink"}

TypeOK ==
  /\ path \in [{"up", "down"} -> 0..MaxFiles]
  /\ \A f \in DOMAIN file : file[f].ref \in 0..(2 + MaxCrashes) /\ Len(file[f].data) <= Capacity
  /\ mapped \in [Procs -> [{"up", "down"} -> 0..MaxFiles]]
  /\ place \in [Procs -> Steps \X (1..2)]
  /\ own \in [Procs -> BOOLEAN]
  /\ Len(work) <= 2 * Capacity /\ session \in 0..MaxSessions /\ crashes \in 0..MaxCrashes

Init ==
  /\ path = [s \in {"up", "down"} |-> None]
  /\ file = <<>>
  /\ mapped = [p \in Procs |-> [s \in {"up", "down"} |-> None]]
  /\ place = [p \in Procs |-> <<"off", 1>>]
  /\ own = [p \in Procs |-> FALSE]
  /\ work = <<>> /\ session = 0 /\ crashes = 0 /\ stale = FALSE /\ underflow = FALSE /\ raced = FALSE

Goto(p, step, i) == place' = [place EXCEPT ![p] = <<step, i>>]

\* Process p has looked for the segment's file and is not counted in it yet.
Opening(p, s) == place[p][1] \in {"open", "construct", "increment"} /\ Seg(p) = s

\* The windows in which the count does not say who uses the segment: a process
\* looks for its file while another is about to construct, or to unlink it; or it
\* leaves as the last one counted while another has the file open.
LooksTooEarly(p, s) ==
  \E q \in Procs \ {p} : (Opening(q, s) /\ own[q]) \/ (At(q, "unlink") /\ Seg(q) = s)
LeavesAnother(p, s) ==
  file[mapped[p][s]].ref = 1 /\ \E q \in Procs \ {p} : Opening(q, s)

-----------------------------------------------------------------------------
(* Start: both segments are mapped, upstream first *)

\* The ControlCenter of process p starts its ipc, which initializes.
Start(p) ==
  /\ At(p, "off")
  /\ IF \A q \in Procs : place[q][1] = "off"
       THEN session < MaxSessions /\ session' = session + 1
       ELSE UNCHANGED session
  /\ Goto(p, "stat", 1)
  /\ UNCHANGED <<path, file, mapped, own, work, crashes, stale, underflow, raced>>

\* ShmServer::start: a reader of the upstream and a writer of the downstream segment.
StartServer == Start("server")

\* ShmClient::start: a writer of the upstream and a reader of the downstream segment.
StartClient == Start("client")

\* mapFileHuge asks whether the file exists, and opens or creates it.
Stat(p) ==
  /\ At(p, "stat")
  /\ own' = [own EXCEPT ![p] = path[Seg(p)] = None]
  /\ Goto(p, "open", place[p][2])
  /\ raced' = (raced \/ LooksTooEarly(p, Seg(p)))
  /\ UNCHANGED <<path, file, mapped, work, session, crashes, stale, underflow>>

Open(p) ==
  /\ At(p, "open")
  /\ IF path[Seg(p)] # None
       THEN /\ mapped' = [mapped EXCEPT ![p][Seg(p)] = path[Seg(p)]]
            /\ UNCHANGED <<path, file>>
       ELSE /\ Len(file) < MaxFiles
            /\ file' = Append(file, [ref |-> 0, data |-> <<>>])
            /\ path' = [path EXCEPT ![Seg(p)] = Len(file')]
            /\ mapped' = [mapped EXCEPT ![p][Seg(p)] = Len(file')]
  /\ Goto(p, "construct", place[p][2])
  /\ UNCHANGED <<own, work, session, crashes, stale, underflow, raced>>

\* ShmUPtr: the process that found no file constructs the queue in it.
Construct(p) ==
  /\ At(p, "construct")
  /\ file' = IF own[p] THEN [file EXCEPT ![mapped[p][Seg(p)]] = [ref |-> 0, data |-> <<>>]]
                       ELSE file
  /\ Goto(p, "increment", place[p][2])
  /\ UNCHANGED <<path, mapped, own, work, session, crashes, stale, underflow, raced>>

\* The callback of the connection manager takes the channel: the next segment
\* follows, or both are there and the client is Connected.
TakeChannel(p) == IF place[p][2] = 1 THEN Goto(p, "stat", 2) ELSE Goto(p, "up", 1)

FaultyNoIncrement(p) ==
  /\ At(p, "increment")
  /\ TakeChannel(p)
  /\ file' = IF own[p] THEN [file EXCEPT ![mapped[p][Seg(p)]].ref = 1] ELSE file
  /\ UNCHANGED <<path, mapped, own, work, session, crashes, stale, underflow, raced>>

Increment(p) ==
  /\ At(p, "increment")
  /\ file' = [file EXCEPT ![mapped[p][Seg(p)]].ref = @ + 1]
  /\ TakeChannel(p)
  /\ UNCHANGED <<path, mapped, own, work, session, crashes, stale, underflow, raced>>

-----------------------------------------------------------------------------
(* Traffic *)

Data(p, s) == file[mapped[p][s]].data

\* ShmWriter::syncTx: FALSE when the queue stays full, whatever the count says.
Written(p, s, msg) ==
  /\ Len(Data(p, s)) < Capacity
  /\ file' = [file EXCEPT ![mapped[p][s]].data = Append(@, msg)]

TxFails(p, s) == Len(Data(p, s)) = Capacity /\ UNCHANGED file

\* TrustedConnectionManager::post(Order); a failed write resets the connection,
\* and the Disconnected state makes the client's ControlCenter stop.
PostOrder ==
  /\ At("client", "up")
  /\ \/ Written("client", "up", session) /\ UNCHANGED place
     \/ TxFails("client", "up") /\ Goto("client", "closing", 1)
  /\ UNCHANGED <<path, mapped, own, work, session, crashes, stale, underflow, raced>>

\* The server's reactor reads an order: post(IoResult) hands it to the gateway.
ServerReads ==
  /\ At("server", "up") /\ Data("server", "up") # <<>> /\ Len(work) < 2 * Capacity
  /\ work' = Append(work, Head(Data("server", "up")))
  /\ file' = [file EXCEPT ![mapped["server"]["up"]].data = Tail(@)]
  /\ UNCHANGED <<path, mapped, place, own, session, crashes, stale, underflow, raced>>

\* The gateway answers: TrustedSessionManager::post(ServerOrderStatus); a failed
\* write posts InternalError, and the server's ControlCenter stops.
PostStatus ==
  /\ At("server", "up") /\ work # <<>>
  /\ work' = Tail(work)
  /\ \/ Written("server", "down", Head(work)) /\ UNCHANGED place
     \/ TxFails("server", "down") /\ Goto("server", "closing", 1)
  /\ UNCHANGED <<path, mapped, own, session, crashes, stale, underflow, raced>>

\* The client's reactor reads a status: TrustedConnectionManager::post(IoResult).
ClientReads ==
  /\ At("client", "up") /\ Data("client", "down") # <<>>
  /\ stale' = (stale \/ Head(Data("client", "down")) # session)
  /\ file' = [file EXCEPT ![mapped["client"]["down"]].data = Tail(@)]
  /\ UNCHANGED <<path, mapped, place, own, work, session, crashes, underflow, raced>>

-----------------------------------------------------------------------------
(* Exit: the segments are dropped, downstream first *)

\* The process stops (shutdown command, signal, or a failed write).
Exit(p) ==
  /\ At(p, "up") \/ At(p, "closing")
  /\ Goto(p, "decrement", 2)
  /\ work' = IF p = "server" THEN <<>> ELSE work
  /\ UNCHANGED <<path, file, mapped, own, session, crashes, stale, underflow, raced>>

Dropped(p) == IF place[p][2] = 2 THEN Goto(p, "decrement", 1) ELSE Goto(p, "off", 1)

\* ~ShmUPtr with ShmQueue::decrement: the count at 0 is reported and left alone.
Decrement(p) ==
  /\ At(p, "decrement")
  /\ LET f == mapped[p][Seg(p)]
     IN  /\ underflow' = (underflow \/ file[f].ref = 0)
         /\ file' = IF file[f].ref = 0 THEN file ELSE [file EXCEPT ![f].ref = @ - 1]
         /\ IF file[f].ref = 1 THEN Goto(p, "unlink", place[p][2]) ELSE Dropped(p)
  /\ mapped' = [mapped EXCEPT ![p][Seg(p)] = None]
  /\ raced' = (raced \/ LeavesAnother(p, Seg(p)))
  /\ UNCHANGED <<path, own, work, session, crashes, stale>>

Unlink(p) ==
  /\ At(p, "unlink")
  /\ path' = [path EXCEPT ![Seg(p)] = None]
  /\ Dropped(p)
  /\ UNCHANGED <<file, mapped, own, work, session, crashes, stale, underflow, raced>>

\* A process is killed while it runs or exits: its mappings go, its references
\* stay counted.
Crash(p) ==
  /\ place[p][1] \in {"up", "closing", "decrement", "unlink"} /\ crashes < MaxCrashes
  /\ crashes' = crashes + 1
  /\ mapped' = [mapped EXCEPT ![p] = [s \in {"up", "down"} |-> None]]
  /\ Goto(p, "off", 1)
  /\ work' = IF p = "server" THEN <<>> ELSE work
  /\ UNCHANGED <<path, file, own, session, stale, underflow, raced>>

Next ==
  \/ StartServer \/ StartClient
  \/ \E p \in Procs : \/ Stat(p) \/ Open(p) \/ Construct(p) \/ Increment(p)
                      \/ Exit(p) \/ Decrement(p) \/ Unlink(p) \/ Crash(p)
  \/ PostOrder \/ ServerReads \/ PostStatus \/ ClientReads

Spec == Init /\ [][Next]_vars

-----------------------------------------------------------------------------
(* A process that is up maps the files the two names denote, so server and    *)
(* client talk over the same queues: a leaving process does not unlink a file *)
(* the other one uses, and a restarted one finds it again.                    *)
MappedIsNamed == \A p \in Procs : At(p, "up") => mapped[p] = path

(* The reference count does what it is for: with no process running, no file  *)
(* is left, so the next session starts from empty queues.  A killed process   *)
(* leaves its references behind.                                              *)
CleanSlate ==
  crashes = 0 /\ (\A p \in Procs : At(p, "off")) => path = [s \in {"up", "down"} |-> None]

(* Unless one was killed, a client is never given the status of an order of   *)
(* an earlier session.                                                        *)
NoStaleStatus == crashes = 0 => ~stale

(* ShmQueue::decrement reports "Attempted to decrement refCount already at    *)
(* 0" as an error of its caller: every mapping is counted until it is dropped.*)
CountedUntilDropped == ~underflow

\* Safety of the reference count: what is mapped is named, what is unused is
\* removed, and so nothing reaches a later session, unless a start met the other
\* process's start or exit in a window that the count leaves open.
Inv == TypeOK /\ (raced \/ (MappedIsNamed /\ CleanSlate /\ NoStaleStatus /\ CountedUntilDropped))
=============================================================================
