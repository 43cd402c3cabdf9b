------------------------------ MODULE DnsServer ------------------------------
(***************************************************************************)
(* The name server of the tunnel (src/tunnel/src/dnsserver.rs): records    *)
(* are kept twice, as rows of the database and in memory, in the authority *)
(* that answers queries.  add_record writes the row first and the memory   *)
(* second, and other requests run in between; make_dns_server loads the    *)
(* rows into the memory, one by one, when it already answers queries.      *)
(*                                                                         *)
(* The module has the state and the operations; CertMaintainer composes    *)
(* them with the clients that write challenge records.                     *)
(***************************************************************************)
EXTENDS Integers, Sequences, FiniteSets

CONSTANTS
  Names,      \* the domain names of the records
  Values,     \* what a record says
  Stale       \* the value of every challenge whose order is over

ASSUME StaleAssumption == Stale \in Values

VARIABLES
  up,         \* the server process is running
  rows,       \* the table dns_records, in the order of its row ids
  zone,       \* the records of the InMemoryAuthority
  toLoad,     \* the rows that make_dns_server has read and not yet loaded
  calls       \* the handlers of /dns/set/... that are running

dnsVars == <<up, rows, zone, toLoad, calls>>

Kinds == {"A", "TXT", "CNAME"}
Record == [name : Names, kind : Kinds, value : Values]
Call == [rec : Record, wrote : BOOLEAN]

DnsTypeOK ==
  /\ up \in BOOLEAN
  /\ rows \in Seq(Record)
  /\ zone \subseteq Record
  /\ toLoad \in Seq(Record)
  /\ calls \subseteq Call

DnsInit ==
  /\ up = TRUE
  /\ rows = <<>>
  /\ zone = {}
  /\ toLoad = <<>>
  /\ calls = {}

SameKey(r, s) == r.name = s.name /\ r.kind = s.kind

\* INSERT ... ON CONFLICT (name, kind) DO UPDATE: one row per name and kind,
\* which keeps its place in the table.
write_dns_record(table, r) ==
  IF \E i \in DOMAIN table : SameKey(table[i], r)
  THEN [i \in DOMAIN table |-> IF SameKey(table[i], r) THEN r ELSE table[i]]
  ELSE Append(table, r)

\* A CNAME is alone at its name.
Shadowed(z, r) ==
  \E s \in z : /\ s.name = r.name
               /\ s.kind # r.kind
               /\ "CNAME" \in {s.kind, r.kind}

\* Mutant: one record per name and kind, as in the database.
upsertOne(z, r) ==
  IF Shadowed(z, r) THEN z
  ELSE {s \in z : ~SameKey(s, r)} \cup {r}

\* InMemoryAuthority::upsert: a record that a CNAME forbids is refused and the
\* caller, who ignores the result, is not told; a CNAME replaces the one
\* before it; any other record joins those of its name and kind.
upsert(z, r) ==
  IF Shadowed(z, r) THEN z
  ELSE {s \in z : ~(r.kind = "CNAME" /\ SameKey(s, r))} \cup {r}

------------------------------------------------------------------------------
\* The HTTP interface is opened after every row has been loaded.
Serving == up /\ toLoad = <<>>

\* A handler has passed can_write and the check of the value (a request that
\* fails them changes nothing) and enters add_record.
AddRecord(r) ==
  /\ Serving
  /\ calls' = calls \cup {[rec |-> r, wrote |-> FALSE]}
  /\ UNCHANGED <<up, rows, zone, toLoad>>

WriteRow(k) ==
  /\ k \in calls /\ ~k.wrote
  /\ rows' = write_dns_record(rows, k.rec)
  /\ calls' = (calls \ {k}) \cup {[k EXCEPT !.wrote = TRUE]}
  /\ UNCHANGED <<up, zone, toLoad>>

\* Mutant: the memory does not wait for the database.
UpsertZoneFirst(k) ==
  /\ k \in calls
  /\ zone' = upsert(zone, k.rec)
  /\ calls' = calls \ {k}
  /\ UNCHANGED <<up, rows, toLoad>>

\* The second half of add_record; the handler answers.
UpsertZone(k) ==
  /\ k \in calls /\ k.wrote
  /\ zone' = upsert(zone, k.rec)
  /\ calls' = calls \ {k}
  /\ UNCHANGED <<up, rows, toLoad>>

\* The requester hung up: the handler's future is dropped where it stands.
DropCall(k) ==
  /\ k \in calls
  /\ calls' = calls \ {k}
  /\ UNCHANGED <<up, rows, zone, toLoad>>

ServerCrash ==
  /\ up
  /\ up' = FALSE
  /\ zone' = {}
  /\ toLoad' = <<>>
  /\ calls' = {}
  /\ UNCHANGED rows

\* make_dns_server: the socket answers from here on.
ServerStart ==
  /\ ~up
  /\ up' = TRUE
  /\ toLoad' = rows
  /\ UNCHANGED <<rows, zone, calls>>

LoadRow ==
  /\ up
  /\ toLoad # <<>>
  /\ zone' = upsert(zone, Head(toLoad))
  /\ toLoad' = Tail(toLoad)
  /\ UNCHANGED <<up, rows, calls>>

\* The answer to a TXT query.
Answers(r) == up /\ r \in zone

\* The challenge v is over: from here on it is one of the stale values, in
\* the database, in memory and in handlers that are still running.
Aged(v, r) == IF r.kind = "TXT" /\ r.value = v THEN [r EXCEPT !.value = Stale] ELSE r

Age(v) ==
  /\ rows' = [i \in DOMAIN rows |-> Aged(v, rows[i])]
  /\ toLoad' = [i \in DOMAIN toLoad |-> Aged(v, toLoad[i])]
  /\ zone' = {Aged(v, r) : r \in zone}
  /\ calls' = {[k EXCEPT !.rec = Aged(v, k.rec)] : k \in calls}
  /\ UNCHANGED up

==============================================================================
