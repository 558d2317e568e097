--------------------------- MODULE MCNetworkLogin ---------------------------
(***************************************************************************)
(* NetworkLogin for TLC, one situation at a time.  restart: the client of  *)
(* a user ends and is started again.  users: two users, of whom one        *)
(* trades.  alone: one client whose process, like the server's, keeps      *)
(* running.  faults: one client, with failures of the network, the         *)
(* database and the buffer pool.  stranger: a user without credentials.    *)
(***************************************************************************)
EXTENDS Naturals, Sequences

CONSTANTS p1, p2, alice, bob

VARIABLES
    part,
    ch, poolFull, backlog, accepting, unauthorized, auth, sessions, tokens, sysQ, doing, owed, stopped, crashed, faults,
    state, chans, dialed, token, clientQ, online, sent, got, ended

loginVars == <<ch, poolFull, backlog, accepting, unauthorized, auth, sessions, tokens, sysQ, doing, owed, stopped, crashed,
               faults, state, chans, dialed, token, clientQ, online, sent, got, ended>>
allVars == <<part, loginVars>>

Alice(p) == alice
Bob(p) == bob
Either(p) == IF p = p1 THEN alice ELSE bob

Restart == INSTANCE NetworkLogin WITH
    Processes <- {p1, p2}, Connections <- {p1, p2} \X {"up", "down"}, User <- Alice, Clients <- {alice},
    MAX_CONNECTIONS <- 1, MAX_FAULTS <- 0, MAX_ORDERS <- 1
Users == INSTANCE NetworkLogin WITH
    Processes <- {p1, p2}, Connections <- {p1, p2} \X {"up", "down"}, User <- Either, Clients <- {alice, bob},
    MAX_CONNECTIONS <- 1, MAX_FAULTS <- 0, MAX_ORDERS <- 1
Alone == INSTANCE NetworkLogin WITH
    Processes <- {p1}, Connections <- {p1} \X {"up", "down"}, User <- Alice, Clients <- {alice},
    MAX_CONNECTIONS <- 1, MAX_FAULTS <- 0, MAX_ORDERS <- 1
Faults == INSTANCE NetworkLogin WITH
    Processes <- {p1}, Connections <- {p1} \X {"up", "down"}, User <- Alice, Clients <- {alice},
    MAX_CONNECTIONS <- 1, MAX_FAULTS <- 2, MAX_ORDERS <- 1
Stranger == INSTANCE NetworkLogin WITH
    Processes <- {p1}, Connections <- {p1} \X {"up", "down"}, User <- Bob, Clients <- {alice},
    MAX_CONNECTIONS <- 1, MAX_FAULTS <- 0, MAX_ORDERS <- 1

Dials(p) == dialed[p] = Restart!NotDialed /\ dialed'[p] # dialed[p]

LoginInit ==
    \/ part = "restart" /\ Restart!Init
    \/ part = "users" /\ Users!Init
    \/ part = "alone" /\ Alone!Init
    \/ part = "faults" /\ Faults!Init
    \/ part = "stranger" /\ Stranger!Init

LoginNext ==
    /\ UNCHANGED part
    /\ \/ part = "restart" /\ Restart!Next /\ sent'[p1] = 0 /\ (Dials(p2) => ended[p1])
       \/ part = "users" /\ Users!Next /\ sent'[p2] = 0 /\ ~stopped'
       \/ part = "alone" /\ Alone!Next
       \/ part = "faults" /\ Faults!Next
       \/ part = "stranger" /\ Stranger!Next

Lone(A) == part = "alone" /\ A /\ UNCHANGED part

\* The io contexts run their handlers, and a process that was started connects.
LoginSpec ==
    /\ LoginInit /\ [][LoginNext]_allVars
    /\ WF_allVars(Lone(Alone!ServerHandles))
    /\ WF_allVars(Lone(Alone!ClientHandles(p1)))

\* The user's client alone, first or again.
RestartSpec == LoginInit /\ part = "restart" /\ [][LoginNext]_allVars

-----------------------------------------------------------------------------
\* A session holds channels of one client process only, both authenticated as
\* its client: the token that binds the downstream channel came from the login
\* on the upstream channel.  So order statuses of a client are only written to a
\* process of that client, and a user without credentials has no session.
SessionsDoNotMix ==
    /\ part = "restart" => Restart!TypeOK /\ Restart!SessionIsOneProcess /\ Restart!StatusReachesOwner
    /\ part = "users" => Users!TypeOK /\ Users!SessionIsOneProcess /\ Users!StatusReachesOwner
    /\ part = "faults" => Faults!TypeOK /\ Faults!SessionIsOneProcess /\ Faults!StatusReachesOwner
    /\ part = "stranger" => Stranger!TypeOK /\ Stranger!SessionIsOneProcess

\* A client that believes itself authenticated was bound on both channels, and
\* as long as the server has not closed or lost one of them it has the session:
\* no order it sends is refused as unauthenticated by SessionBus.
AuthenticatedIsBound ==
    /\ part = "restart" => Restart!AuthenticatedIsBound /\ Restart!OrdersAreAuthenticated
    /\ part = "users" => Users!AuthenticatedIsBound /\ Users!OrdersAreAuthenticated
    /\ part = "faults" => Faults!AuthenticatedIsBound /\ Faults!OrdersAreAuthenticated

\* No client hangs: one that connected ends up authenticated or stops, and one
\* whose session the server has ended, or whose server is gone, notices and
\* stops.  The server notices the loss of an authenticated channel and ends the
\* session, so that the user is not locked out.
NoClientHangs == part = "alone" => Alone!LoginCompletes /\ Alone!LossIsNoticed /\ Alone!LostSessionEnds

\* "cleanup session if it was started" (network_session_manager.hpp:229): a
\* disconnect never ends in a null pointer.
CleanupIsSafe == ~crashed
=============================================================================
