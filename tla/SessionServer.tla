--------------------------- MODULE SessionServer ---------------------------
(***************************************************************************)
(* The server's end of the network connections: BoostIpcServer accepts,    *)
(* SessionChannel/SessionBus gate what an unauthenticated channel may post,*)
(* Authenticator and NetworkSessionManager handle logins, token binds and  *)
(* disconnects.  Reads run on the network thread, the handlers of the      *)
(* system bus one at a time on the system thread, order statuses on the    *)
(* gateway thread.                                                         *)
(***************************************************************************)
EXTENDS Channel, FiniteSets

CONSTANTS
    Clients,            \* client ids with valid credentials
    MAX_CONNECTIONS,
    MAX_FAULTS          \* bound: failures of the environment

VARIABLES
    backlog,            \* established connections the acceptors have not taken
    accepting,          \* acceptors that are armed
    unauthorized,       \* unauthorizedUpstreamMap_ and unauthorizedDownstreamMap_
    auth,               \* SessionBus::clientId_ of each server end, {} or {client}
    sessions,           \* sessionsMap_
    tokens,             \* genToken()
    sysQ,               \* the queue of the system bus
    doing,              \* calls the handler that is running has still to make
    owed,               \* statuses the gateway will post for each client
    stopped, crashed,   \* the stop token; a null pointer was dereferenced
    faults

serverVars == <<ch, poolFull, backlog, accepting, unauthorized, auth, sessions,
                tokens, sysQ, doing, owed, stopped, crashed, faults>>

S(c) == <<"server", c>>
Kind(c) == c[2]                              \* upstream or downstream port
Running == ~stopped /\ ~crashed
Fault == faults < MAX_FAULTS /\ faults' = faults + 1

Session == [token: Nat, up: SUBSET Connections, down: SUBSET Connections]   \* pointers: {} is null

Status(c) == [type |-> "status", conn |-> c, client |-> auth[c]]
-----------------------------------------------------------------------------
(* The network thread.                                                     *)

\* acceptUpstream(), acceptDownstream() of the manager: over the limit the
\* transport is destroyed, which closes the socket.
NewSession(c) ==
    IF Cardinality(DOMAIN sessions) >= MAX_CONNECTIONS
    THEN ch' = Destroy(ch, S(c)) /\ UNCHANGED unauthorized
    ELSE ch' = NewChannel(ch, S(c)) /\ unauthorized' = unauthorized \union {c}

\* async_accept() completes: the callback, then the next accept.
Accept(c) ==
    /\ Running /\ c \in backlog /\ Kind(c) \in accepting
    /\ backlog' = backlog \ {c}
    /\ NewSession(c)
    /\ UNCHANGED <<poolFull, accepting, auth, sessions, tokens, sysQ, doing, owed, stopped, crashed, faults>>

\* A failed accept is not followed by another one.
AcceptFails(c) ==
    /\ Running /\ Fault /\ c \in backlog /\ Kind(c) \in accepting
    /\ accepting' = accepting \ {Kind(c)}
    /\ backlog' = backlog \ {c}
    /\ ch' = Destroy(ch, S(c))
    /\ UNCHANGED <<poolFull, unauthorized, auth, sessions, tokens, sysQ, doing, owed, stopped, crashed>>

\* UpstreamBus and DownstreamBus: what passes the BusRestrictor of a channel.
Allowed(c) == IF Kind(c) = "up" THEN {"Order", "Login"} ELSE {"Bind"}

\* SessionBus::post(): requests only before, orders only after authentication.
SessionPost(c, m) ==
    LET refused == (m.type = "Order") = (auth[c] = {}) IN
    /\ sysQ' = IF m.type \notin Allowed(c) THEN sysQ
               ELSE IF refused THEN Append(sysQ, Status(c))
               ELSE IF m.type = "Order" THEN sysQ
               ELSE Append(sysQ, [m EXCEPT !.conn = c])
    /\ owed' = IF m.type = "Order" /\ m.type \in Allowed(c) /\ ~refused
               THEN [k \in Clients |-> owed[k] + IF k \in auth[c] THEN 1 ELSE 0] ELSE owed

Receive(c) ==
    /\ Running /\ CanReceive(S(c))
    /\ SessionPost(c, Head(ch[S(c)].wire))
    /\ ch' = Received(ch, S(c))
    /\ UNCHANGED <<poolFull, backlog, accepting, unauthorized, auth, sessions, tokens, doing, stopped, crashed, faults>>

\* The read completes with an error; readHandler() posts the status event.
ReadError(c) ==
    /\ Running
    /\ \/ ReadEnds(S(c)) /\ UNCHANGED faults
       \/ ch[S(c)].reading /\ Fault               \* reset, or a frame that does not parse
    /\ ch' = ReadFailed(ch, S(c))
    /\ sysQ' = Append(sysQ, Status(c))
    /\ UNCHANGED <<poolFull, backlog, accepting, unauthorized, auth, sessions, tokens, doing, owed, stopped, crashed>>

WriteError(c) ==
    /\ Running /\ ch[S(c)].broken /\ ch[S(c)].open
    /\ ch' = WriteFailed(ch, S(c))
    /\ sysQ' = Append(sysQ, Status(c))
    /\ UNCHANGED <<poolFull, backlog, accepting, unauthorized, auth, sessions, tokens, doing, owed, stopped, crashed, faults>>

\* acquire() of the pool fails for a while.
PoolChanges ==
    /\ Running /\ Fault /\ poolFull' = ~poolFull
    /\ UNCHANGED <<ch, backlog, accepting, unauthorized, auth, sessions, tokens, sysQ, doing, owed, stopped, crashed>>
-----------------------------------------------------------------------------
(* The system thread: each operator handles the event ev at the head of    *)
(* the queue.                                                              *)

LoginReply(ok, token) == [type |-> "LoginResponse", ok |-> ok, token |-> token]

\* checkCredentials() of the database adapter.
HasCredentials(user) == user \in Clients

\* Authenticator::post(): the database may fail.
OnLoginRequest(ev) ==
    \E ok \in {HasCredentials(ev.client), FALSE} :
        /\ IF ok = HasCredentials(ev.client) THEN UNCHANGED faults ELSE Fault
        /\ sysQ' = Append(Tail(sysQ), [ev EXCEPT !.type = "response", !.ok = ok])
        /\ UNCHANGED <<ch, unauthorized, sessions, tokens, doing, crashed>>

FaultyOverwrite(client) == TRUE
\* AtomicHashMap::insert() succeeds.
CanInsert(client) == client \notin DOMAIN sessions

\* SessionChannel::authenticate()
Authenticated(c, client) == [auth EXCEPT ![c] = IF @ = {} THEN {client} ELSE @]

\* post(ServerLoginResponse): the channel is authenticated after the reply went out.
OnLoginResponse(ev) ==
    LET c == ev.conn
        new == [token |-> tokens, up |-> {c}, down |-> {}]
    IN
    /\ sysQ' = Tail(sysQ)
    /\ unauthorized' = unauthorized \ {c}
    /\ IF c \notin unauthorized THEN UNCHANGED <<ch, sessions, tokens, doing>>
       ELSE IF ~ev.ok \/ ~CanInsert(ev.client)
       THEN /\ ch' = Write(ch, S(c), LoginReply(FALSE, 0))
            /\ tokens' = IF ev.ok THEN tokens + 1 ELSE tokens
            /\ UNCHANGED <<sessions, doing>>
       ELSE /\ tokens' = tokens + 1
            /\ sessions' = [k \in DOMAIN sessions \union {ev.client} |-> IF k = ev.client THEN new ELSE sessions[k]]
            /\ ch' = Write(ch, S(c), LoginReply(TRUE, tokens))
            /\ doing' = <<[call |-> "authenticate", conn |-> c, client |-> ev.client]>>
    /\ UNCHANGED <<crashed, faults>>

FaultyAnyToken(token) == DOMAIN sessions
\* The token lookup of post(ServerTokenBindRequest).
WithToken(token) == {k \in DOMAIN sessions : sessions[k].token = token}

\* post(ServerTokenBindRequest): the session has the channel before it is
\* authenticated, and the reply follows.
OnTokenBind(ev) ==
    LET c == ev.conn
        found == WithToken(ev.token)
        client == CHOOSE k \in found : TRUE
    IN
    /\ sysQ' = Tail(sysQ)
    /\ unauthorized' = unauthorized \ {c}
    /\ IF c \notin unauthorized THEN UNCHANGED <<ch, sessions, doing>>
       ELSE IF found = {}
       THEN ch' = Write(ch, S(c), LoginReply(FALSE, 0)) /\ UNCHANGED <<sessions, doing>>
       ELSE IF sessions[client].down = {}
       THEN /\ sessions' = [sessions EXCEPT ![client].down = {c}]
            /\ doing' = <<[call |-> "authenticate", conn |-> c, client |-> client],
                          [call |-> "write", conn |-> c, reply |-> LoginReply(TRUE, ev.token)]>>
            /\ UNCHANGED ch
       ELSE /\ ch' = Close(Write(ch, S(c), LoginReply(FALSE, 0)), S(c))
            /\ UNCHANGED <<sessions, doing>>
    /\ UNCHANGED <<tokens, crashed, faults>>

\* The process is gone and its sockets are closed.
Die == ch' = DestroyAll(ch, {e \in Ends : e[1] = "server"})

\* post(ChannelStatusEvent): the session of the client is ended.
OnStatus(ev) ==
    LET mine == ev.client \intersect DOMAIN sessions
        client == CHOOSE k \in mine : TRUE
        ends == {S(c) : c \in sessions[client].up \union sessions[client].down}
    IN
    /\ sysQ' = Tail(sysQ)
    /\ unauthorized' = unauthorized \ {ev.conn}
    /\ IF mine = {} THEN UNCHANGED <<ch, sessions, crashed>>
       ELSE IF sessions[client].down = {} THEN crashed' = TRUE /\ Die /\ UNCHANGED sessions
       ELSE /\ ch' = CloseAll(ch, ends)
            /\ sessions' = [k \in DOMAIN sessions \ {client} |-> sessions[k]]
            /\ UNCHANGED crashed
    /\ UNCHANGED <<tokens, doing, faults>>

HandleEvent ==
    /\ Running /\ doing = <<>> /\ sysQ # <<>>
    /\ LET ev == Head(sysQ) IN
        \/ ev.type = "Login" /\ OnLoginRequest(ev)
        \/ ev.type = "response" /\ OnLoginResponse(ev)
        \/ ev.type = "Bind" /\ OnTokenBind(ev)
        \/ ev.type = "status" /\ OnStatus(ev)
    /\ UNCHANGED <<poolFull, backlog, accepting, auth, owed, stopped>>

\* The handler goes on; the network and the gateway threads may have run meanwhile.
HandlerGoesOn ==
    /\ Running /\ doing # <<>>
    /\ doing' = Tail(doing)
    /\ LET d == Head(doing) IN
        \/ d.call = "authenticate" /\ auth' = Authenticated(d.conn, d.client) /\ UNCHANGED ch
        \/ d.call = "write" /\ ch' = Write(ch, S(d.conn), d.reply) /\ UNCHANGED auth
    /\ UNCHANGED <<poolFull, backlog, accepting, unauthorized, sessions, tokens, sysQ, owed, stopped, crashed, faults>>

\* ControlCenter::stop(): the network thread is joined, then close().
Stop ==
    /\ Running /\ doing = <<>>
    /\ stopped' = TRUE
    /\ sessions' = << >> /\ unauthorized' = {}
    /\ Die
    /\ UNCHANGED <<poolFull, backlog, accepting, auth, tokens, sysQ, doing, owed, crashed, faults>>
-----------------------------------------------------------------------------
(* The gateway thread: post(ServerOrderStatus).                            *)

\* The downstream channel, {} if the client is offline or not bound yet.
StatusChannel(client) == IF client \in DOMAIN sessions THEN sessions[client].down ELSE {}

\* SessionChannel::write(OrderStatus): not before authentication.
MayWrite(c) == auth[c] # {}

SendStatus(client) ==
    /\ Running /\ owed[client] > 0
    /\ owed' = [owed EXCEPT ![client] = @ - 1]
    /\ LET to == {c \in StatusChannel(client) : MayWrite(c)} IN
       ch' = IF to = {} THEN ch
             ELSE Write(ch, S(CHOOSE c \in to : TRUE), [type |-> "OrderStatus", client |-> client])
    /\ UNCHANGED <<poolFull, backlog, accepting, unauthorized, auth, sessions, tokens, sysQ, doing, stopped, crashed, faults>>
-----------------------------------------------------------------------------
ServerInit ==
    /\ ChannelInit
    /\ backlog = {} /\ accepting = {"up", "down"}
    /\ unauthorized = {} /\ auth = [c \in Connections |-> {}]
    /\ sessions = << >> /\ tokens = 0 /\ sysQ = <<>> /\ doing = <<>>
    /\ owed = [k \in Clients |-> 0]
    /\ stopped = FALSE /\ crashed = FALSE /\ faults = 0

NetworkThread(c) == Accept(c) \/ Receive(c) \/ ReadError(c) \/ WriteError(c)

ServerNext ==
    \/ \E c \in Connections : NetworkThread(c) \/ AcceptFails(c)
    \/ HandleEvent \/ HandlerGoesOn \/ PoolChanges \/ Stop
    \/ \E k \in Clients : SendStatus(k)
=============================================================================
