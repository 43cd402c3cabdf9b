------------------------- MODULE TunnelConnsProofs -------------------------
(***************************************************************************)
(* Proofs about TunnelConns, for any clients, domains, connections and     *)
(* requests.  The invariant ties the map to the tasks of the server, the   *)
(* tasks to the clients that opened the connections, and the requests to   *)
(* the connections they found.  It needs that a place for a connection is  *)
(* not used again while anything refers to it (Free).                      *)
(***************************************************************************)
EXTENDS TunnelConns, TLAPS

USE ConstantsAssumption

\* The initial states: nothing is connected.
LEMMA InitInv == Init => IndInv
<1>. SUFFICES ASSUME Init PROVE IndInv
  OBVIOUS
<1>1. TypeOK
  BY DEF Init, TypeOK, NoRequest
<1>2. EntryHasOwner /\ RegisteredIsFound /\ TaskConn
  BY DEF Init, EntryHasOwner, RegisteredIsFound, TaskConn
<1>3. RoutedToOwner /\ RequestConn
  BY DEF Init, RoutedToOwner, RequestConn, NoRequest
<1>4. ClientConn
  BY DEF Init, ClientConn
<1>. QED
  BY <1>1, <1>2, <1>3, <1>4 DEF IndInv

\* Steps that leave the map, the tasks, the owners of connections and the
\* requests alone, and open no end on the server, keep the server's part.
LEMMA ServerPart ==
  ASSUME IndInv, UNCHANGED <<conns, task, who, req>>,
         \A k \in Conn : sopen'[k] => sopen[k]
  PROVE  EntryHasOwner' /\ RegisteredIsFound' /\ RoutedToOwner' /\ TaskConn'
         /\ RequestConn'
<1>1. EntryHasOwner' /\ RegisteredIsFound'
  BY DEF IndInv, EntryHasOwner, RegisteredIsFound, DomainOfConn
<1>2. RoutedToOwner' /\ RequestConn'
  BY DEF IndInv, RoutedToOwner, RequestConn
<1>3. TaskConn'
  BY DEF IndInv, TaskConn
<1>. QED
  BY <1>1, <1>2, <1>3

\* A client that lets go of its connection.
LEMMA LetGoInv ==
  ASSUME IndInv, NEW c \in Client, NEW next \in {"sleep", "down"}, LetGo(c, next),
         UNCHANGED <<server, conns, task, who, sopen, acked, cut, req>>,
         faults' \in 0..MaxFaults
  PROVE  IndInv'
<1>1. TypeOK'
  BY DEF IndInv, TypeOK, LetGo
<1>2. ClientConn'
  BY DEF IndInv, TypeOK, ClientConn, LetGo
<1>3. EntryHasOwner' /\ RegisteredIsFound' /\ RoutedToOwner' /\ TaskConn'
      /\ RequestConn'
  BY ServerPart
<1>. QED
  BY <1>1, <1>2, <1>3 DEF IndInv

\* Faults are counted up to the bound.
LEMMA FaultType ==
  ASSUME IndInv, Fault \/ NoFault PROVE faults' \in 0..MaxFaults
BY DEF IndInv, TypeOK, Fault, NoFault

\* Wake and Connect, GotHello and the others: the steps of a client.
LEMMA ClientInv ==
  ASSUME IndInv, NEW c \in Client,
         ClientStep(c) \/ ClientStops(c) \/ ClientStarts(c)
  PROVE  IndInv'
<1>1. CASE Wake(c) \/ GotHello(c) \/ ClientStarts(c)
  <2>1. /\ UNCHANGED <<server, conns, task, ends, cconn, req, faults>>
        /\ \/ run' = [run EXCEPT ![c] = "open"] /\ run[c] \in {"sleep", "down"}
           \/ run' = [run EXCEPT ![c] = "serve"] /\ run[c] = "hello"
    BY <1>1 DEF Wake, GotHello, ClientStarts
  <2>2. TypeOK'
    BY <2>1 DEF IndInv, TypeOK, ends
  <2>3. ClientConn'
    BY <2>1 DEF IndInv, TypeOK, ClientConn, ends
  <2>4. EntryHasOwner' /\ RegisteredIsFound' /\ RoutedToOwner' /\ TaskConn'
        /\ RequestConn'
    BY <2>1, ServerPart DEF ends
  <2>. QED
    BY <2>2, <2>3, <2>4 DEF IndInv
<1>2. CASE Connect(c)
  <2>1. PICK k \in Conn :
          /\ Free(k)
          /\ who' = [who EXCEPT ![k] = c]
          /\ sopen' = [sopen EXCEPT ![k] = TRUE]
          /\ copen' = [copen EXCEPT ![k] = TRUE]
          /\ acked' = [acked EXCEPT ![k] = FALSE]
          /\ cut' = [cut EXCEPT ![k] = FALSE]
          /\ task' = [task EXCEPT ![k] = "shake"]
          /\ cconn' = [cconn EXCEPT ![c] = k]
    BY <1>2 DEF Connect
  <2>2. run' = [run EXCEPT ![c] = "hello"] /\ UNCHANGED <<server, conns, req, faults>>
    BY <1>2 DEF Connect
  <2>3. TypeOK'
    BY <2>1, <2>2 DEF IndInv, TypeOK
  <2>4. \A d \in Domain : conns[d] # k
    BY <2>1 DEF IndInv, EntryHasOwner, Free
  <2>5. EntryHasOwner'
    BY <2>1, <2>2, <2>4 DEF IndInv, TypeOK, EntryHasOwner, DomainOfConn
  <2>6. RegisteredIsFound'
    BY <2>1, <2>2 DEF IndInv, TypeOK, RegisteredIsFound, DomainOfConn
  <2>7. RoutedToOwner' /\ RequestConn'
    BY <2>1, <2>2 DEF IndInv, TypeOK, RoutedToOwner, RequestConn, Free
  <2>8. TaskConn'
    BY <2>1, <2>2 DEF IndInv, TypeOK, TaskConn
  <2>9. ClientConn'
    BY <2>1, <2>2 DEF IndInv, TypeOK, ClientConn, Free
  <2>. QED
    BY <2>3, <2>5, <2>6, <2>7, <2>8, <2>9 DEF IndInv
<1>3. CASE OpenFails(c)
  <2>1. Fault \/ NoFault
    BY <1>3 DEF OpenFails
  <2>. QED
    BY <1>3, <2>1, FaultType, LetGoInv DEF OpenFails
<1>4. CASE ConnEnded(c)
  <2>1. faults' \in 0..MaxFaults
    BY <1>4 DEF ConnEnded, IndInv, TypeOK
  <2>. QED
    BY <1>4, <2>1, LetGoInv DEF ConnEnded
<1>5. CASE ClientStops(c)
  BY <1>5, FaultType, LetGoInv DEF ClientStops
<1>. QED
  BY <1>1, <1>2, <1>3, <1>4, <1>5 DEF ClientStep

\* The losses of QUIC.
LEMMA QuicInv ==
  ASSUME IndInv, NEW k \in Conn, Cut(k) \/ ServerNotices(k) \/ ClientNotices(k)
  PROVE  IndInv'
<1>1. UNCHANGED <<server, conns, task, who, acked, clients, req>>
  BY DEF Cut, ServerNotices, ClientNotices
<1>2. \A j \in Conn : sopen'[j] => sopen[j]
  BY DEF Cut, ServerNotices, ClientNotices, IndInv, TypeOK
<1>3. TypeOK'
  <2>1. CASE Cut(k)
    BY <2>1, FaultType DEF Cut, IndInv, TypeOK, clients
  <2>2. CASE ServerNotices(k)
    BY <2>2 DEF ServerNotices, IndInv, TypeOK, clients
  <2>3. CASE ClientNotices(k)
    BY <2>3 DEF ClientNotices, IndInv, TypeOK, clients
  <2>. QED
    BY <2>1, <2>2, <2>3
<1>4. ClientConn'
  BY <1>1 DEF IndInv, ClientConn, clients
<1>5. EntryHasOwner' /\ RegisteredIsFound' /\ RoutedToOwner' /\ TaskConn'
      /\ RequestConn'
  BY <1>1, <1>2, ServerPart
<1>. QED
  BY <1>3, <1>4, <1>5 DEF IndInv

\* The steps of handle_client.
LEMMA TaskInv ==
  ASSUME IndInv, NEW k \in Conn, TaskStep(k)
  PROVE  IndInv'
<1>a. UNCHANGED <<server, who, copen, cut, clients, req>>
  BY DEF TaskStep, Greet, ShakeFails, Register, Unregister, ends
<1>b. RoutedToOwner' /\ RequestConn' /\ ClientConn'
  <2>1. RoutedToOwner'
    BY <1>a DEF IndInv, RoutedToOwner
  <2>2. RequestConn'
    BY <1>a DEF IndInv, RequestConn
  <2>3. ClientConn'
    BY <1>a DEF IndInv, ClientConn, clients
  <2>. QED
    BY <2>1, <2>2, <2>3
<1>1. CASE Greet(k)
  <2>1. TypeOK'
    BY <1>1, <1>a DEF Greet, IndInv, TypeOK, clients
  <2>2. EntryHasOwner'
    BY <1>1 DEF Greet, IndInv, TypeOK, EntryHasOwner, DomainOfConn
  <2>3. RegisteredIsFound'
    BY <1>1 DEF Greet, IndInv, TypeOK, RegisteredIsFound, DomainOfConn
  <2>4. TaskConn'
    BY <1>1 DEF Greet, IndInv, TypeOK, TaskConn
  <2>. QED
    BY <1>b, <2>1, <2>2, <2>3, <2>4 DEF IndInv
<1>2. CASE ShakeFails(k)
  <2>0. Fault \/ NoFault
    BY <1>2 DEF ShakeFails
  <2>1. TypeOK'
    BY <1>2, <1>a, <2>0, FaultType DEF ShakeFails, IndInv, TypeOK, clients
  <2>2. EntryHasOwner'
    BY <1>2 DEF ShakeFails, IndInv, TypeOK, EntryHasOwner, DomainOfConn
  <2>3. RegisteredIsFound'
    BY <1>2 DEF ShakeFails, IndInv, TypeOK, RegisteredIsFound, DomainOfConn
  <2>4. TaskConn'
    BY <1>2 DEF ShakeFails, IndInv, TypeOK, TaskConn
  <2>. QED
    BY <1>b, <2>1, <2>2, <2>3, <2>4 DEF IndInv
<1>3. CASE Register(k)
  <2> DEFINE d == DomainOfConn(k)
  <2>0. /\ task[k] = "greeted" /\ who[k] \in Allowed /\ d \in Domain
        /\ sopen' = [j \in Conn |-> sopen[j] /\ j # conns[d]]
        /\ conns' = [conns EXCEPT ![d] = k]
        /\ task' = [task EXCEPT ![k] = "wait"]
    BY <1>3 DEF Register, IndInv, TaskConn, DomainOfConn
  <2>1. TypeOK'
    BY <1>3, <1>a, <2>0 DEF Register, IndInv, TypeOK, clients
  <2>2. EntryHasOwner'
    BY <1>a, <2>0 DEF IndInv, TypeOK, EntryHasOwner, DomainOfConn
  <2>3. RegisteredIsFound'
    <3>. SUFFICES ASSUME NEW j \in Conn, task'[j] = "wait", sopen'[j]
                  PROVE  conns'[DomainOfConn(j)] = j
      BY <1>a DEF RegisteredIsFound, DomainOfConn
    <3>1. CASE j = k
      BY <2>0, <3>1 DEF IndInv, TypeOK
    <3>2. CASE j # k
      <4>1. task[j] = "wait" /\ sopen[j] /\ j # conns[d]
        BY <2>0, <3>2 DEF IndInv, TypeOK
      <4>2. conns[DomainOfConn(j)] = j
        BY <4>1 DEF IndInv, RegisteredIsFound
      <4>. QED
        BY <2>0, <4>1, <4>2 DEF IndInv, TypeOK
    <3>. QED
      BY <3>1, <3>2
  <2>4. TaskConn'
    BY <1>a, <2>0 DEF IndInv, TypeOK, TaskConn
  <2>. QED
    BY <1>b, <2>1, <2>2, <2>3, <2>4 DEF IndInv
<1>4. CASE Unregister(k)
  <2> DEFINE d == DomainOfConn(k)
  <2>0. /\ task[k] = "wait" /\ ~sopen[k] /\ d \in Domain
        /\ conns' = IF conns[d] = k THEN [conns EXCEPT ![d] = None] ELSE conns
        /\ task' = [task EXCEPT ![k] = "none"]
        /\ sopen' = sopen
    BY <1>4 DEF Unregister, IndInv, TaskConn, DomainOfConn, ends
  <2>1. TypeOK'
    BY <1>4, <1>a, <2>0 DEF Unregister, IndInv, TypeOK, clients, ends
  <2>2. EntryHasOwner'
    BY <1>a, <2>0 DEF IndInv, TypeOK, EntryHasOwner, DomainOfConn
  <2>3. RegisteredIsFound'
    BY <1>a, <2>0 DEF IndInv, TypeOK, RegisteredIsFound, DomainOfConn
  <2>4. TaskConn'
    BY <1>a, <2>0 DEF IndInv, TypeOK, TaskConn
  <2>. QED
    BY <1>b, <2>1, <2>2, <2>3, <2>4 DEF IndInv
<1>. QED
  BY <1>1, <1>2, <1>3, <1>4 DEF TaskStep

\* The server process stops, ends and starts.
LEMMA ServerInv ==
  ASSUME IndInv, Stop \/ Exit \/ Start
  PROVE  IndInv'
<1>1. CASE Stop
  <2>1. TypeOK'
    BY <1>1, FaultType DEF Stop, IndInv, TypeOK, clients
  <2>2. ClientConn'
    BY <1>1 DEF Stop, IndInv, ClientConn, clients
  <2>3. EntryHasOwner' /\ RegisteredIsFound' /\ RoutedToOwner' /\ TaskConn'
        /\ RequestConn'
    BY <1>1, ServerPart DEF Stop
  <2>. QED
    BY <2>1, <2>2, <2>3 DEF IndInv
<1>2. CASE Exit
  <2>0. Fault \/ NoFault
    BY <1>2 DEF Exit
  <2>1. TypeOK'
    BY <1>2, <2>0, FaultType DEF Exit, IndInv, TypeOK, clients, NoRequest
  <2>2. ClientConn'
    BY <1>2 DEF Exit, IndInv, ClientConn, clients
  <2>3. EntryHasOwner' /\ RegisteredIsFound' /\ TaskConn'
    BY <1>2 DEF Exit, EntryHasOwner, RegisteredIsFound, TaskConn
  <2>4. RoutedToOwner' /\ RequestConn'
    BY <1>2 DEF Exit, RoutedToOwner, RequestConn, NoRequest
  <2>. QED
    BY <2>1, <2>2, <2>3, <2>4 DEF IndInv
<1>3. CASE Start
  <2>1. TypeOK'
    BY <1>3 DEF Start, IndInv, TypeOK, clients, ends
  <2>2. ClientConn'
    BY <1>3 DEF Start, IndInv, ClientConn, clients, ends
  <2>3. EntryHasOwner' /\ RegisteredIsFound' /\ RoutedToOwner' /\ TaskConn'
        /\ RequestConn'
    BY <1>3, ServerPart DEF Start, ends
  <2>. QED
    BY <2>1, <2>2, <2>3 DEF IndInv
<1>. QED
  BY <1>1, <1>2, <1>3

\* The steps of a request.
LEMMA RequestInv ==
  ASSUME IndInv, NEW r \in Request,
         RequestStep(r) \/ \E d \in Domain : Lookup(r, d)
  PROVE  IndInv'
<1>a. UNCHANGED <<server, conns, task, ends, clients>>
  BY DEF RequestStep, Lookup, OpenStream, Deliver, EndRequest
<1>b. EntryHasOwner' /\ RegisteredIsFound' /\ TaskConn' /\ ClientConn'
  BY <1>a DEF IndInv, EntryHasOwner, RegisteredIsFound, TaskConn, ClientConn,
              DomainOfConn, ends, clients
<1>c. faults' \in 0..MaxFaults
  <2>1. Fault \/ NoFault
    BY DEF RequestStep, Lookup, OpenStream, Deliver, EndRequest, NoFault
  <2>. QED
    BY <2>1, FaultType
<1>1. CASE \E d \in Domain : Lookup(r, d)
  <2>1. PICK d \in Domain : Lookup(r, d)
    BY <1>1
  <2>2. req' = [req EXCEPT ![r] = [state |-> "found", domain |-> d, conn |-> conns[d]]]
        /\ conns[d] \in Conn /\ who[conns[d]] \in Allowed
        /\ DomainOf[who[conns[d]]] = d
    BY <2>1 DEF Lookup, IndInv, TypeOK, EntryHasOwner, TaskConn, DomainOfConn
  <2>3. TypeOK'
    BY <1>a, <1>c, <2>2 DEF IndInv, TypeOK, ends, clients
  <2>4. RoutedToOwner' /\ RequestConn'
    BY <1>a, <2>2 DEF IndInv, TypeOK, RoutedToOwner, RequestConn, ends
  <2>. QED
    BY <1>b, <2>3, <2>4 DEF IndInv
<1>2. CASE OpenStream(r) \/ Deliver(r)
  <2>1. PICK s \in {"sent", "served"} :
            req' = [req EXCEPT ![r].state = s] /\ req[r].state # "idle"
    BY <1>2 DEF OpenStream, Deliver
  <2>2. TypeOK'
    BY <1>a, <1>c, <2>1 DEF IndInv, TypeOK, ends, clients
  <2>3. RoutedToOwner' /\ RequestConn'
    BY <1>a, <2>1 DEF IndInv, TypeOK, RoutedToOwner, RequestConn, ends
  <2>. QED
    BY <1>b, <2>2, <2>3 DEF IndInv
<1>3. CASE EndRequest(r)
  <2>1. req' = [req EXCEPT ![r] = NoRequest]
    BY <1>3 DEF EndRequest
  <2>2. TypeOK'
    BY <1>a, <1>c, <2>1 DEF IndInv, TypeOK, ends, clients, NoRequest
  <2>3. RoutedToOwner' /\ RequestConn'
    BY <1>a, <2>1 DEF IndInv, TypeOK, RoutedToOwner, RequestConn, ends, NoRequest
  <2>. QED
    BY <1>b, <2>2, <2>3 DEF IndInv
<1>. QED
  BY <1>1, <1>2, <1>3 DEF RequestStep

\* A step that changes nothing.
LEMMA StutterInv == ASSUME IndInv, UNCHANGED vars PROVE IndInv'
<1>1. TypeOK'
  BY DEF vars, ends, clients, IndInv, TypeOK
<1>2. ClientConn'
  BY DEF vars, ends, clients, IndInv, ClientConn
<1>3. EntryHasOwner' /\ RegisteredIsFound' /\ RoutedToOwner' /\ TaskConn'
      /\ RequestConn'
  BY ServerPart DEF vars, ends
<1>. QED
  BY <1>1, <1>2, <1>3 DEF IndInv

\* The invariant holds in every reachable state, for any number of clients,
\* connections, requests and faults.
THEOREM Invariance == Spec => []IndInv
<1>1. IndInv /\ [Next]_vars => IndInv'
  BY ClientInv, QuicInv, TaskInv, ServerInv, RequestInv, StutterInv DEF Next
<1>. QED
  BY <1>1, InitInv, PTL DEF Spec

\* handle_client: every entry of the map has a task that will remove it,
\* however connections replace one another and tasks are cancelled.
THEOREM Ownership == Spec => []EntryHasOwner
<1>1. IndInv => EntryHasOwner
  BY DEF IndInv
<1>. QED
  BY <1>1, Invariance, PTL

\* handle_client: every registered open connection is found under its domain;
\* the clean-up of an older connection never takes its entry away.
THEOREM Registration == Spec => []RegisteredIsFound
<1>1. IndInv => RegisteredIsFound
  BY DEF IndInv
<1>. QED
  BY <1>1, Invariance, PTL

\* A request never reaches a client of another domain, although the entry is
\* read long before the stream is opened.
THEOREM Routing == Spec => []RoutedToOwner
<1>1. IndInv => RoutedToOwner
  BY DEF IndInv
<1>. QED
  BY <1>1, Invariance, PTL
=============================================================================
