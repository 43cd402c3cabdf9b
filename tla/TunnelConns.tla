---------------------------- MODULE TunnelConns ----------------------------
(***************************************************************************)
(* The tunnel: clients that keep a QUIC connection to the server           *)
(* (tunnel/src/client.rs), the server's map from domains to connections    *)
(* (server.rs) and the requests it routes through them (sni_router.rs,     *)
(* timeout_stream.rs).                                                     *)
(*                                                                         *)
(* A connection has two ends, which learn of its loss at different times,  *)
(* and on the server a task of its own (handle_client), which may be slow. *)
(* A connection that nothing refers to any more gives its place to a new   *)
(* one: stable_id is an address, and comparing it is only as good as the   *)
(* references that keep it from being used again.                          *)
(***************************************************************************)
EXTENDS Naturals, FiniteSets

CONSTANTS
    Client,      \* tunnel clients
    Domain,      \* domains
    DomainOf,    \* local_hostname of each client
    Allowed,     \* clients whose token belongs to a user of their domain
    Conn,        \* places for connections, the values of stable_id
    Request,     \* requests from outside that are handled at the same time
    MaxStreams,  \* streams the transport allows on one connection
    MaxFaults,   \* bound: losses, crashes and late timers
    None

ASSUME ConstantsAssumption ==
    /\ DomainOf \in [Client -> Domain] /\ Allowed \subseteq Client
    /\ None \notin Conn /\ None \notin Client
    /\ MaxStreams \in Nat /\ MaxFaults \in Nat

VARIABLES
    server,   \* "up"; "stopped": the QUIC endpoint is closed; "down"
    conns,    \* ConnectionsMap
    task,     \* handle_client of a connection: "none", "shake", "greeted"
              \* (ServerHello is sent), "wait" (for closed())
    who,      \* the client that opened the connection
    sopen,    \* the server's end is open
    copen,    \* the client's end is open
    acked,    \* ServerHello is on its way
    cut,      \* packets do not arrive any more
    run,      \* TunnelClient::run: "sleep", "open", "hello", "serve"; "down"
    cconn,    \* the connection of a client
    req,      \* a request: its state, its domain and the connection it found
    faults

ends == <<who, sopen, copen, acked, cut>>
clients == <<run, cconn>>
vars == <<server, conns, task, ends, clients, req, faults>>

NoRequest == [state |-> "idle", domain |-> None, conn |-> None]

Init ==
    /\ server = "up"
    /\ conns = [d \in Domain |-> None]
    /\ task = [k \in Conn |-> "none"]
    /\ who = [k \in Conn |-> None]
    /\ sopen = [k \in Conn |-> FALSE] /\ copen = [k \in Conn |-> FALSE]
    /\ acked = [k \in Conn |-> FALSE] /\ cut = [k \in Conn |-> FALSE]
    /\ run = [c \in Client |-> "open"]
    /\ cconn = [c \in Client |-> None]
    /\ req = [r \in Request |-> NoRequest]
    /\ faults = 0

Fault == faults < MaxFaults /\ faults' = faults + 1

NoFault == UNCHANGED faults

\* Packets go both ways between two open ends.
Healthy(k) == sopen[k] /\ copen[k] /\ ~cut[k]

\* Nothing refers to the connection any more.
Free(k) ==
    /\ ~sopen[k] /\ ~copen[k] /\ task[k] = "none"
    /\ \A c \in Client : cconn[c] # k
    /\ \A r \in Request : req[r].conn # k

DomainOfConn(k) == DomainOf[who[k]]

-----------------------------------------------------------------------------
(* The client: run, open_conn *)

\* next_backoff never gives up (with_max_elapsed_time(None)).
Wake(c) ==
    /\ run[c] = "sleep" /\ run' = [run EXCEPT ![c] = "open"]
    /\ UNCHANGED <<server, conns, task, ends, cconn, req, faults>>

\* open_conn up to the ClientHello; the server accepts the connection and
\* starts its task.
Connect(c) ==
    /\ run[c] = "open" /\ server = "up"
    /\ \E k \in Conn :
          /\ Free(k)
          /\ who' = [who EXCEPT ![k] = c]
          /\ sopen' = [sopen EXCEPT ![k] = TRUE]
          /\ copen' = [copen EXCEPT ![k] = TRUE]
          /\ acked' = [acked EXCEPT ![k] = FALSE]
          /\ cut' = [cut EXCEPT ![k] = FALSE]
          /\ task' = [task EXCEPT ![k] = "shake"]
          /\ cconn' = [cconn EXCEPT ![c] = k]
    /\ run' = [run EXCEPT ![c] = "hello"]
    /\ UNCHANGED <<server, conns, req, faults>>

\* The ServerHello arrives: backoff.reset(), and serve_conn starts.
GotHello(c) ==
    /\ run[c] = "hello" /\ acked[cconn[c]] /\ copen[cconn[c]] /\ ~cut[cconn[c]]
    /\ run' = [run EXCEPT ![c] = "serve"]
    /\ UNCHANGED <<server, conns, task, ends, cconn, req, faults>>

\* The client lets go of its connection and with it closes its end.
LetGo(c, next) ==
    /\ run' = [run EXCEPT ![c] = next]
    /\ copen' = [k \in Conn |-> copen[k] /\ k # cconn[c]]
    /\ cconn' = [cconn EXCEPT ![c] = None]

\* open_conn fails or takes more than 10 seconds. With a reachable server and
\* a healthy connection that counts as a fault.
OpenFails(c) ==
    /\ \/ /\ run[c] = "open"
          /\ IF server = "up" THEN Fault ELSE NoFault
       \/ /\ run[c] = "hello"
          /\ IF Healthy(cconn[c]) THEN Fault ELSE NoFault
    /\ LetGo(c, "sleep")
    /\ UNCHANGED <<server, conns, task, who, sopen, acked, cut, req>>

\* conn.closed() returns: the loop starts over. serve_conn has ended with it.
ConnEnded(c) ==
    /\ run[c] = "serve" /\ ~copen[cconn[c]]
    /\ LetGo(c, "sleep")
    /\ UNCHANGED <<server, conns, task, who, sopen, acked, cut, req, faults>>

ClientStops(c) ==
    /\ run[c] # "down" /\ Fault
    /\ LetGo(c, "down")
    /\ UNCHANGED <<server, conns, task, who, sopen, acked, cut, req>>

ClientStarts(c) ==
    /\ run[c] = "down" /\ run' = [run EXCEPT ![c] = "open"]
    /\ UNCHANGED <<server, conns, task, ends, cconn, req, faults>>

-----------------------------------------------------------------------------
(* QUIC *)

Cut(k) ==
    /\ (sopen[k] \/ copen[k]) /\ ~cut[k] /\ Fault
    /\ cut' = [cut EXCEPT ![k] = TRUE]
    /\ UNCHANGED <<server, conns, task, who, sopen, copen, acked, clients, req>>

\* An end is told that the other has closed, or hears nothing for too long.
ServerNotices(k) ==
    /\ sopen[k] /\ (~copen[k] \/ cut[k])
    /\ sopen' = [sopen EXCEPT ![k] = FALSE]
    /\ UNCHANGED <<server, conns, task, who, copen, acked, cut, clients, req,
                   faults>>

ClientNotices(k) ==
    /\ copen[k] /\ (~sopen[k] \/ cut[k])
    /\ copen' = [copen EXCEPT ![k] = FALSE]
    /\ UNCHANGED <<server, conns, task, who, sopen, acked, cut, clients, req,
                   faults>>

-----------------------------------------------------------------------------
(* The server: handle_client *)

\* Mutant: the domain is not looked for among the domains of the user.
Greet_AnyDomain(k) ==
    /\ task[k] = "shake" /\ sopen[k] /\ ~cut[k]
    /\ task' = [task EXCEPT ![k] = "greeted"]
    /\ acked' = [acked EXCEPT ![k] = TRUE]
    /\ UNCHANGED <<server, conns, who, sopen, copen, cut, clients, req, faults>>

\* run_handshake: the token and the domain are checked, ServerHello is sent.
Greet(k) ==
    /\ task[k] = "shake" /\ sopen[k] /\ ~cut[k] /\ who[k] \in Allowed
    /\ task' = [task EXCEPT ![k] = "greeted"]
    /\ acked' = [acked EXCEPT ![k] = TRUE]
    /\ UNCHANGED <<server, conns, who, sopen, copen, cut, clients, req, faults>>

\* run_handshake fails or takes more than 5 seconds: the connection is dropped.
ShakeFails(k) ==
    /\ task[k] = "shake"
    /\ IF Healthy(k) /\ who[k] \in Allowed THEN Fault ELSE NoFault
    /\ task' = [task EXCEPT ![k] = "none"]
    /\ sopen' = [sopen EXCEPT ![k] = FALSE]
    /\ UNCHANGED <<server, conns, who, copen, acked, cut, clients, req>>

\* Mutant: an entry that is there already is left as it is.
Register_KeepsEntry(k) ==
    /\ task[k] = "greeted"
    /\ LET d == DomainOfConn(k) IN
         conns' = IF conns[d] = None THEN [conns EXCEPT ![d] = k] ELSE conns
    /\ task' = [task EXCEPT ![k] = "wait"]
    /\ UNCHANGED <<server, ends, clients, req, faults>>

\* The entry of the domain is replaced and the previous connection closed,
\* under one lock; the new one may have ended meanwhile.
Register(k) ==
    /\ task[k] = "greeted"
    /\ LET d == DomainOfConn(k) IN
         /\ sopen' = [j \in Conn |-> sopen[j] /\ j # conns[d]]
         /\ conns' = [conns EXCEPT ![d] = k]
    /\ task' = [task EXCEPT ![k] = "wait"]
    /\ UNCHANGED <<server, who, copen, acked, cut, clients, req, faults>>

\* Mutant: the entry is removed whosever it is.
Unregister_Any(k) ==
    /\ task[k] = "wait" /\ ~sopen[k]
    /\ conns' = [conns EXCEPT ![DomainOfConn(k)] = None]
    /\ task' = [task EXCEPT ![k] = "none"]
    /\ UNCHANGED <<server, ends, clients, req, faults>>

\* Mutant: a connection that has been closed before is left in the map.
Unregister_Kept(k) ==
    /\ task[k] = "wait" /\ ~sopen[k]
    /\ task' = [task EXCEPT ![k] = "none"]
    /\ UNCHANGED <<server, conns, ends, clients, req, faults>>

\* conn.closed() returns: the entry is removed if it is still this connection.
Unregister(k) ==
    /\ task[k] = "wait" /\ ~sopen[k]
    /\ LET d == DomainOfConn(k) IN
         conns' = IF conns[d] = k THEN [conns EXCEPT ![d] = None] ELSE conns
    /\ task' = [task EXCEPT ![k] = "none"]
    /\ UNCHANGED <<server, ends, clients, req, faults>>

\* ctrl_c, or one of the important tasks ends: the endpoint closes all
\* connections and accepts no more.
Stop ==
    /\ server = "up" /\ Fault /\ server' = "stopped"
    /\ sopen' = [k \in Conn |-> FALSE]
    /\ UNCHANGED <<conns, task, who, copen, acked, cut, clients, req>>

\* The process ends, by itself after ctrl_c or killed.
Exit ==
    /\ \/ server = "up" /\ Fault
       \/ server = "stopped" /\ NoFault
    /\ server' = "down"
    /\ conns' = [d \in Domain |-> None]
    /\ task' = [k \in Conn |-> "none"]
    /\ sopen' = [k \in Conn |-> FALSE]
    /\ req' = [r \in Request |-> NoRequest]
    /\ UNCHANGED <<who, copen, acked, cut, clients>>

Start ==
    /\ server = "down" /\ server' = "up"
    /\ UNCHANGED <<conns, task, ends, clients, req, faults>>

-----------------------------------------------------------------------------
(* A request: ParsedHelloConnHandler::handle *)

\* The connection of the domain is cloned under the lock and used after it.
Lookup(r, d) ==
    /\ server # "down" /\ req[r].state = "idle" /\ conns[d] # None
    /\ req' = [req EXCEPT ![r] =
                  [state |-> "found", domain |-> d, conn |-> conns[d]]]
    /\ UNCHANGED <<server, conns, task, ends, clients, faults>>

Streams(k) ==
    Cardinality({r \in Request : req[r].conn = k
                                 /\ req[r].state \in {"sent", "served"}})

\* open_bi waits while the connection has all the streams it may have; then
\* the address of the peer is sent.
OpenStream(r) ==
    /\ req[r].state = "found" /\ sopen[req[r].conn]
    /\ Streams(req[r].conn) < MaxStreams
    /\ req' = [req EXCEPT ![r].state = "sent"]
    /\ UNCHANGED <<server, conns, task, ends, clients, faults>>

\* Mutant: a stream is not accepted while the connection has another one.
Deliver_Alone(r) ==
    LET k == req[r].conn IN
    /\ req[r].state = "sent" /\ Streams(k) = 1
    /\ copen[k] /\ ~cut[k] /\ run[who[k]] = "serve"
    /\ req' = [req EXCEPT ![r].state = "served"]
    /\ UNCHANGED <<server, conns, task, ends, clients, faults>>

\* serve_conn: the client accepts the stream, reads the address and hands the
\* stream to a task of its own.
Deliver(r) ==
    LET k == req[r].conn IN
    /\ req[r].state = "sent"
    /\ copen[k] /\ ~cut[k] /\ run[who[k]] = "serve"
    /\ req' = [req EXCEPT ![r].state = "served"]
    /\ UNCHANGED <<server, conns, task, ends, clients, faults>>

\* The connection is closed under the request (open_bi or the copy fails), or
\* the peer is done or silent for 15 seconds (TimeoutStream). That the client
\* takes so long to accept a stream of a healthy connection is a fault.
EndRequest(r) ==
    LET k == req[r].conn IN
    /\ \/ req[r].state # "idle" /\ ~sopen[k] /\ NoFault
       \/ /\ req[r].state = "sent"
          /\ IF Healthy(k) THEN Fault ELSE NoFault
       \/ req[r].state = "served" /\ NoFault
    /\ req' = [req EXCEPT ![r] = NoRequest]
    /\ UNCHANGED <<server, conns, task, ends, clients>>

-----------------------------------------------------------------------------
ClientStep(c) ==
    Wake(c) \/ Connect(c) \/ GotHello(c) \/ OpenFails(c) \/ ConnEnded(c)

TaskStep(k) == Greet(k) \/ ShakeFails(k) \/ Register(k) \/ Unregister(k)

RequestStep(r) == OpenStream(r) \/ Deliver(r) \/ EndRequest(r)

Next ==
    \/ \E c \in Client : ClientStep(c) \/ ClientStops(c) \/ ClientStarts(c)
    \/ \E k \in Conn : TaskStep(k) \/ Cut(k) \/ ServerNotices(k) \/ ClientNotices(k)
    \/ Stop \/ Exit \/ Start
    \/ \E r \in Request : RequestStep(r) \/ \E d \in Domain : Lookup(r, d)

\* Tasks of a tokio runtime run on, timers expire, and an end that hears nothing
\* notices. Nothing is promised about starts and stops of processes, and no
\* request has to come.
Fairness ==
    /\ \A c \in Client : WF_vars(NoFault /\ ClientStep(c))
    /\ \A k \in Conn : /\ WF_vars(NoFault /\ TaskStep(k))
                       /\ WF_vars(ServerNotices(k)) /\ WF_vars(ClientNotices(k))
    /\ \A r \in Request : WF_vars(NoFault /\ RequestStep(r))

Spec == Init /\ [][Next]_vars /\ Fairness

-----------------------------------------------------------------------------
(* Properties *)

TypeOK ==
    /\ server \in {"up", "stopped", "down"}
    /\ conns \in [Domain -> Conn \cup {None}]
    /\ task \in [Conn -> {"none", "shake", "greeted", "wait"}]
    /\ who \in [Conn -> Client \cup {None}]
    /\ sopen \in [Conn -> BOOLEAN] /\ copen \in [Conn -> BOOLEAN]
    /\ acked \in [Conn -> BOOLEAN] /\ cut \in [Conn -> BOOLEAN]
    /\ run \in [Client -> {"sleep", "open", "hello", "serve", "down"}]
    /\ cconn \in [Client -> Conn \cup {None}]
    /\ req \in [Request -> [state : {"idle", "found", "sent", "served"},
                            domain : Domain \cup {None},
                            conn : Conn \cup {None}]]
    /\ faults \in 0..MaxFaults

\* Every entry of the map has a task that waits to remove it: a connection that
\* ends does not stay in the map (handle_client).
EntryHasOwner ==
    \A d \in Domain : conns[d] # None =>
        task[conns[d]] = "wait" /\ DomainOfConn(conns[d]) = d

\* A connection that is registered and open can be found: no late task of an
\* older connection has removed its entry, and no second connection of the
\* domain is open beside it (the comparison of stable_id, prev.close).
RegisteredIsFound ==
    \A k \in Conn : task[k] = "wait" /\ sopen[k] => conns[DomainOfConn(k)] = k

\* A request reaches only a client that proved that its user has the domain the
\* request asks for, even when the connection was replaced after the lookup.
RoutedToOwner ==
    \A r \in Request : req[r].state # "idle" =>
        LET c == who[req[r].conn] IN
            c \in Allowed /\ DomainOf[c] = req[r].domain

\* The client waits on the connection whose end it has: it serves only what the
\* server has greeted.
ClientConn ==
    \A c \in Client :
        /\ run[c] \in {"hello", "serve"} => cconn[c] # None /\ who[cconn[c]] = c
        /\ run[c] \notin {"hello", "serve"} => cconn[c] = None

TaskConn ==
    \A k \in Conn :
        /\ task[k] # "none" => who[k] \in Client
        /\ task[k] \in {"greeted", "wait"} => who[k] \in Allowed

RequestConn ==
    \A r \in Request :
        /\ req[r].state = "idle" => req[r] = NoRequest
        /\ req[r].state # "idle" => req[r].conn \in Conn

\* All of it together is preserved by every step of server, clients and network.
IndInv ==
    /\ TypeOK /\ EntryHasOwner /\ RegisteredIsFound /\ RoutedToOwner
    /\ ClientConn /\ TaskConn /\ RequestConn

\* An entry whose connection has ended goes away.
DeadEntryRemoved ==
    \A k \in Conn : \A d \in Domain :
        (conns[d] = k /\ ~sopen[k]) ~> (conns[d] # k \/ sopen[k])

\* The client serves the connection that the server finds for its domain.
Online(c) ==
    LET k == conns[DomainOf[c]] IN
        k # None /\ who[k] = c /\ run[c] = "serve" /\ cconn[c] = k /\ Healthy(k)

\* No other client has the domain of c.
Alone(c) == \A b \in Allowed : b # c => DomainOf[b] # DomainOf[c]

\* The client reconnects automatically: when server and client stay up, it ends
\* up online for good, whatever happened to connections and timers before.
Heals ==
    \A c \in {b \in Allowed : Alone(b)} :
        <>[](server = "up" /\ run[c] # "down") => <>[]Online(c)

\* When nothing fails any more, a stream that the server opened on a healthy
\* connection is accepted, although the server may open it before the client
\* has read the ServerHello.
RequestDelivered ==
    \A r \in Request, k \in Conn :
        (req[r].state = "sent" /\ req[r].conn = k /\ faults = MaxFaults)
            ~> (req[r].state = "served" \/ ~Healthy(k))
=============================================================================
