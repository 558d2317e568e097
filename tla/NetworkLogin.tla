---------------------------- MODULE NetworkLogin ----------------------------
(***************************************************************************)
(* The client's end of the network connections, composed with the server:  *)
(* BoostIpcClient connects, NetworkConnectionManager logs in on the        *)
(* upstream channel and binds the downstream channel with the token,       *)
(* ControlCenter stops the process when the connection is lost.  A client  *)
(* that is started again is another process with the same user.            *)
(***************************************************************************)
EXTENDS SessionServer

CONSTANTS
    Processes,      \* runs of the client program; Connections is Processes \X {"up", "down"}
    User(_),        \* the name in the configuration of the process
    MAX_ORDERS      \* bound: orders a process sends

VARIABLES
    state,          \* state_
    chans,          \* non-null upstreamChannel_, downstreamChannel_
    dialed,         \* connects of asyncConnect(): asked, done or failed
    token,          \* token_
    clientQ,        \* the client's system bus
    online,         \* ControlCenter::state_ is Connected
    sent, got,      \* orders sent and statuses received
    ended           \* the process has stopped

clientVars == <<state, chans, dialed, token, clientQ, online, sent, got, ended>>
vars == <<serverVars, clientVars>>

NotDialed == [kind \in {"up", "down"} |-> "no"]
C(p, kind) == <<"client", <<p, kind>>>>
ServerKept == UNCHANGED <<poolFull, accepting, unauthorized, auth, sessions, tokens, sysQ, doing, owed, stopped, crashed, faults>>
-----------------------------------------------------------------------------
(* The network thread of the client.                                       *)

\* BoostIpcClient::start(): asyncConnect() on both ports.
Start(p) ==
    /\ dialed[p] = NotDialed /\ ~ended[p] /\ Running
    /\ dialed' = [dialed EXCEPT ![p] = [kind \in {"up", "down"} |-> "asked"]]
    /\ backlog' = backlog \union {<<p, "up">>, <<p, "down">>}
    /\ ch' = [e \in Ends |-> IF e[2][1] = p THEN [ch[e] EXCEPT !.open = TRUE] ELSE ch[e]]
    /\ UNCHANGED <<state, chans, token, clientQ, online, sent, got, ended>> /\ ServerKept

\* tryAuthenticate() does something.
BothChannels(has) == has = {"up", "down"}

\* onUpstream(), onDownstream()
Connected(p, kind) ==
    /\ dialed[p][kind] = "asked" /\ ~ended[p]
    /\ dialed' = [dialed EXCEPT ![p][kind] = "done"]
    /\ LET has == chans[p] \union {kind}
           opened == NewChannel(ch, C(p, kind))
       IN
       /\ chans' = [chans EXCEPT ![p] = has]
       /\ IF BothChannels(has)
          THEN /\ state' = [state EXCEPT ![p] = "Connected"]
               /\ ch' = Write(opened, C(p, "up"), [type |-> "Login", conn |-> <<p, "up">>, client |-> User(p), ok |-> FALSE])
          ELSE ch' = opened /\ UNCHANGED state
    /\ UNCHANGED <<backlog, token, clientQ, online, sent, got, ended>> /\ ServerKept

\* asyncConnect() fails: a log line.
ConnectFails(p, kind) ==
    /\ dialed[p][kind] = "asked" /\ ~ended[p]
    /\ Fault \/ (~ch[S(<<p, kind>>)].open /\ UNCHANGED faults)
    /\ dialed' = [dialed EXCEPT ![p][kind] = "failed"]
    /\ ch' = Destroy(ch, C(p, kind))
    /\ UNCHANGED <<backlog, state, chans, token, clientQ, online, sent, got, ended>>
    /\ UNCHANGED <<poolFull, accepting, unauthorized, auth, sessions, tokens, sysQ, doing, owed, stopped, crashed>>

\* A message: order statuses go to the engine, login responses to the bus.
ClientReceive(p, kind) ==
    /\ ~ended[p] /\ CanReceive(C(p, kind))
    /\ LET m == Head(ch[C(p, kind)].wire) IN
       IF m.type = "OrderStatus"
       THEN got' = [got EXCEPT ![p] = @ + 1] /\ UNCHANGED clientQ
       ELSE clientQ' = [clientQ EXCEPT ![p] = Append(@, m)] /\ UNCHANGED got
    /\ ch' = Received(ch, C(p, kind))
    /\ UNCHANGED <<backlog, state, chans, dialed, token, online, sent, ended>> /\ ServerKept

ClientIoError(p, kind) ==
    /\ ~ended[p]
    /\ \/ ReadEnds(C(p, kind)) /\ ch' = ReadFailed(ch, C(p, kind))
       \/ ch[C(p, kind)].broken /\ ch' = WriteFailed(ch, C(p, kind))
    /\ clientQ' = [clientQ EXCEPT ![p] = Append(@, [type |-> "lost"])]
    /\ UNCHANGED <<backlog, state, chans, dialed, token, online, sent, got, ended>> /\ ServerKept
-----------------------------------------------------------------------------
(* The system thread of the client.                                        *)

ClientEnds(p) == {C(p, "up"), C(p, "down")}

\* reset(): the posted Disconnected event will stop the process.
Reset(p) ==
    /\ token' = [token EXCEPT ![p] = {}]
    /\ chans' = [chans EXCEPT ![p] = {}]
    /\ state' = [state EXCEPT ![p] = "Disconnected"]
    /\ ch' = DestroyAll(ch, {e \in ClientEnds(p) : e[2][2] \in chans[p]})
    /\ clientQ' = [clientQ EXCEPT ![p] = Append(Tail(@), [type |-> "Disconnected"])]
    /\ UNCHANGED <<online, ended>>

\* post(LoginResponse)
OnReply(p, m) ==
    IF ~m.ok THEN Reset(p)
    ELSE /\ token' = [token EXCEPT ![p] = {m.token}]
         /\ state' = [state EXCEPT ![p] = CASE @ = "Connected" -> "TokenReceived"
                                            [] @ = "TokenReceived" -> "Authenticated"
                                            [] OTHER -> @]
         /\ ch' = IF state[p] = "Connected"
                  THEN Write(ch, C(p, "down"), [type |-> "Bind", conn |-> <<p, "down">>, token |-> m.token])
                  ELSE ch
         /\ clientQ' = [clientQ EXCEPT ![p] = Tail(@) \o
                IF state[p] = "TokenReceived" THEN <<[type |-> "Connected"]>> ELSE <<>>]
         /\ UNCHANGED <<chans, online, ended>>

\* ControlCenter::stop(): the process ends and its sockets are closed.
Exit(p) ==
    /\ ended' = [ended EXCEPT ![p] = TRUE]
    /\ online' = [online EXCEPT ![p] = FALSE]
    /\ chans' = [chans EXCEPT ![p] = {}] /\ state' = [state EXCEPT ![p] = "Disconnected"]
    /\ token' = [token EXCEPT ![p] = {}] /\ clientQ' = [clientQ EXCEPT ![p] = <<>>]
    /\ ch' = DestroyAll(ch, ClientEnds(p))

\* ControlCenter::post(ServerConnectionState)
OnServerState(p, m) ==
    IF m.type = "Disconnected" THEN Exit(p)
    ELSE /\ online' = [online EXCEPT ![p] = TRUE]
         /\ clientQ' = [clientQ EXCEPT ![p] = Tail(@)]
         /\ UNCHANGED <<ch, state, chans, token, ended>>

ClientHandle(p) ==
    /\ ~ended[p] /\ clientQ[p] # <<>>
    /\ LET m == Head(clientQ[p]) IN
       \/ m.type = "LoginResponse" /\ OnReply(p, m)
       \/ m.type = "lost" /\ Reset(p)               \* post(ConnectionStatusEvent)
       \/ m.type \in {"Connected", "Disconnected"} /\ OnServerState(p, m)
    /\ UNCHANGED <<backlog, dialed, sent, got>> /\ ServerKept

\* Shutdown command, signal, or the end of the process for another reason.
Shutdown(p) ==
    /\ ~ended[p] /\ dialed[p] # NotDialed /\ Exit(p)
    /\ UNCHANGED <<backlog, dialed, sent, got>> /\ ServerKept

\* ControlCenter::tradeStart()
MayTrade(p) == online[p]

\* The trade thread: post(Order).
SendOrder(p) ==
    /\ ~ended[p] /\ MayTrade(p) /\ "up" \in chans[p] /\ sent[p] < MAX_ORDERS
    /\ sent' = [sent EXCEPT ![p] = @ + 1]
    /\ ch' = Write(ch, C(p, "up"), [type |-> "Order", conn |-> <<p, "up">>, client |-> User(p)])
    /\ UNCHANGED <<backlog, state, chans, dialed, token, clientQ, online, got, ended>> /\ ServerKept
-----------------------------------------------------------------------------
Init ==
    /\ ServerInit
    /\ state = [p \in Processes |-> "Disconnected"]
    /\ chans = [p \in Processes |-> {}] /\ dialed = [p \in Processes |-> NotDialed]
    /\ token = [p \in Processes |-> {}] /\ clientQ = [p \in Processes |-> <<>>]
    /\ online = [p \in Processes |-> FALSE]
    /\ sent = [p \in Processes |-> 0] /\ got = [p \in Processes |-> 0]
    /\ ended = [p \in Processes |-> FALSE]

ClientNetwork(p, kind) == Connected(p, kind) \/ ClientReceive(p, kind) \/ ClientIoError(p, kind)

ClientNext ==
    \E p \in Processes :
        \/ Start(p) \/ ClientHandle(p) \/ Shutdown(p) \/ SendOrder(p)
        \/ \E kind \in {"up", "down"} : ClientNetwork(p, kind) \/ ConnectFails(p, kind)

Next == (ServerNext /\ UNCHANGED clientVars) \/ ClientNext

Spec == Init /\ [][Next]_vars

\* What the io contexts of the server and of a client process run.
ServerHandles == (HandleEvent \/ HandlerGoesOn \/ \E c \in Connections : NetworkThread(c)) /\ UNCHANGED clientVars
ClientHandles(p) ==
    ClientHandle(p) \/ \E kind \in {"up", "down"} : ClientNetwork(p, kind) \/ ConnectFails(p, kind)
-----------------------------------------------------------------------------
\* Channels, sessions and the state of a client have their types; only users
\* with credentials get a session.
TypeOK ==
    /\ \A e \in Ends : [f \in {"status", "open", "reading", "broken"} |-> ch[e][f]] \in ChannelState
    /\ backlog \subseteq Connections /\ unauthorized \subseteq Connections
    /\ auth \in [Connections -> SUBSET Clients]
    /\ DOMAIN sessions \subseteq Clients /\ \A k \in DOMAIN sessions : sessions[k] \in Session
    /\ state \in [Processes -> {"Disconnected", "Connected", "TokenReceived", "Authenticated"}]

\* A session holds channels of one client process only, authenticated as its
\* client, or about to be by the handler that is running: the token that binds the downstream channel came from the login
\* on the upstream channel (network_session_manager.hpp:194-209).
SessionIsOneProcess ==
    \A k \in DOMAIN sessions : \E p \in Processes :
        \A c \in sessions[k].up \union sessions[k].down :
            /\ c[1] = p /\ User(p) = k /\ c \notin unauthorized
            /\ auth[c] = {k} \/ (auth[c] = {} /\ doing # <<>> /\ Head(doing).conn = c)

\* A client that believes itself authenticated was bound on both channels, and
\* as long as the server has not closed or lost one of them it has the session
\* (network_connection_manager.hpp:107-120 counts responses, it does not look
\* at the channel they came from).
AuthenticatedIsBound ==
    \A p \in Processes : state[p] = "Authenticated" =>
        /\ \A kind \in {"up", "down"} : auth[<<p, kind>>] = {User(p)}
        /\ \/ User(p) \in DOMAIN sessions /\ sessions[User(p)].down = {<<p, "down">>}
           \/ \E kind \in {"up", "down"} : ch[S(<<p, kind>>)].status # "Connected"

\* An order a client sends after ServerConnectionState::Connected is never
\* refused as unauthenticated by SessionBus (session_bus.hpp:47-51), whatever
\* the order of the two responses and of authenticate().
OrdersAreAuthenticated ==
    \A p \in Processes : LET c == <<p, "up">> IN
        (\E i \in DOMAIN ch[S(c)].wire : ch[S(c)].wire[i].type = "Order") => auth[c] = {User(p)}

\* Order statuses of a client are only written to a process of that client
\* (network_session_manager.hpp:127-134).
StatusReachesOwner ==
    \A p \in Processes, kind \in {"up", "down"} : LET w == ch[C(p, kind)].wire IN
        \A i \in DOMAIN w : w[i].type = "OrderStatus" => w[i].client = User(p) /\ kind = "down"

\* Without faults of the environment a client that connected ends up
\* authenticated or stops: it never waits for ever for a response.  A failed
\* connect is the exception, it is only logged (boost_network_client.hpp:86).
LoginCompletes ==
    \A p \in Processes : dialed[p] # NotDialed ~>
        (state[p] = "Authenticated" \/ ended[p] \/ \E kind \in {"up", "down"} : dialed[p][kind] = "failed")

\* A client whose session the server has ended, or whose server is gone,
\* notices and stops.
LossIsNoticed ==
    \A p \in Processes :
        (state[p] = "Authenticated" /\ ch[S(<<p, "up">>)].status # "Connected") ~> ended[p]

\* A session whose client goes away on an authenticated channel ends, so that
\* the user can log in again (network_session_manager.hpp:225-238).  A channel
\* lost before authenticate() is the exception: its event names no client, and
\* the session that was or will be inserted for it stays.
LostSessionEnds ==
    \A k \in Clients :
        (/\ k \in DOMAIN sessions
         /\ \E c \in sessions[k].up \union sessions[k].down :
               auth[c] = {k} /\ ch[S(c)].status = "Connected" /\ ~ch[Peer(S(c))].open)
        ~> (k \notin DOMAIN sessions \/ crashed)
=============================================================================
