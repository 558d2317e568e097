------------------------------ MODULE MCQueues ------------------------------
(***************************************************************************)
(* The single-producer queues for TLC, one at a time: SequencedSPSC (with  *)
(* the bounds of the configuration), TurboSPSC, and the session over a     *)
(* pair of shared-memory queues, TrustedSession.                           *)
(***************************************************************************)
EXTENDS SequencedSPSC, TurboSPSC

VARIABLES
    part,
    path, file, mapped, place, own, work, session, crashes, stale, underflow, raced

sessionVars == <<path, file, mapped, place, own, work, session, crashes, stale, underflow, raced>>
allVars == <<part, vars, turboVars, sessionVars>>

\* Two sessions, each with two files of its own, and one process killed.  A
\* session that has met one of the open windows goes no further.
Trusted == INSTANCE TrustedSession WITH
    Capacity <- 1, MaxFiles <- 4, MaxSessions <- 2, MaxCrashes <- 1

QueuesInit ==
    /\ part \in {"sequenced", "turbo", "session"}
    /\ Init /\ TurboInit /\ Trusted!Init

Sequenced(A) == part = "sequenced" /\ A /\ UNCHANGED <<part, turboVars, sessionVars>>
Ring(A) == part = "turbo" /\ A /\ UNCHANGED <<part, vars, sessionVars>>
Session(A) == part = "session" /\ ~raced /\ A /\ UNCHANGED <<part, vars, turboVars>>

QueuesNext == Sequenced(Next) \/ Ring(TurboNext) \/ Session(Trusted!Next)

\* Writer and reader finish the calls they are in and the reader polls; the
\* writer of the byte queue tries again.
QueuesSpec ==
    /\ QueuesInit /\ [][QueuesNext]_allVars
    /\ WF_allVars(Sequenced(WriteData \/ WritePublish))
    /\ WF_allVars(Sequenced(ReadCopy \/ ReadRelease \/ ReadReturn))
    /\ \A n \in BufferSize : WF_allVars(Sequenced(ReadCheck(n)))
    /\ WF_allVars(Ring(TurboWrite)) /\ WF_allVars(Ring(TurboRead))

-----------------------------------------------------------------------------
\* Session: a process that is up maps the files the two names denote, so server
\* and client talk over the same queues, kills and restarts included; the count
\* never falls below 0; and unless a process was killed no file outlives the
\* last of them, nor does a status reach a client of a later session.  Starts and
\* exits overlap freely; excepted are the windows in which a process that has the
\* file is not counted in it yet, or the file no longer counted is still named.
SessionInv == Trusted!Inv

\* The queues go on: a polling reader gets every message written, and a
\* writer of the byte queue that keeps trying is not refused for ever.
QueuesGoOn ==
    /\ EveryMessageRead
    /\ part = "turbo" => WriterGoesOn
=============================================================================
