------------------------ MODULE CertMaintainerProofs ------------------------
(***************************************************************************)
(* Proofs about CertMaintainer and the DnsServer it is composed with, for  *)
(* any number of clients, certificates, records and faults: every name     *)
(* that is answered for has a row, the files follow write_certs, a restart *)
(* finds what was served, a challenge is answered with while its order is  *)
(* pending, and without a fault or a CNAME nothing fails.                  *)
(***************************************************************************)
EXTENDS CertMaintainer, SequenceTheorems, TLAPS

(***************************************************************************)
(* The name server.                                                        *)
(***************************************************************************)

DnsInv == DnsTypeOK /\ ServedIsStored

LEMMA ChallengeType == ASSUME NEW c \in Clients PROVE Challenge(c) \in Record
BY CertAssumption DEF Challenge, Record, Kinds

LEMMA UserRecordType == UserRecords \subseteq Record
BY CertAssumption DEF Record

\* A table stays a table, keeps every key and has the key that was written.
LEMMA WriteKeepsKeys ==
  ASSUME NEW table \in Seq(Record), NEW r \in Record, NEW new,
         new = write_dns_record(table, r)
  PROVE  /\ new \in Seq(Record)
         /\ \A i \in DOMAIN table : i \in DOMAIN new /\ SameKey(new[i], table[i])
         /\ \E i \in DOMAIN new : SameKey(new[i], r)
<1>1. CASE \E i \in DOMAIN table : SameKey(table[i], r)
  <2>1. new = [i \in DOMAIN table |-> IF SameKey(table[i], r) THEN r ELSE table[i]]
    BY <1>1 DEF write_dns_record
  <2>2. DOMAIN table = 1..Len(table) /\ Len(table) \in Nat /\ \A i \in DOMAIN table : table[i] \in Record
    OBVIOUS
  <2>3. new \in [1..Len(table) -> Record]
    BY <2>1, <2>2
  <2>4. new \in Seq(Record)
    BY <2>2, <2>3, SeqDef
  <2>5. \A i \in DOMAIN table : i \in DOMAIN new /\ SameKey(new[i], table[i])
    BY <2>1 DEF SameKey
  <2>6. \E i \in DOMAIN new : SameKey(new[i], r)
    BY <1>1, <2>1 DEF SameKey
  <2> QED
    BY <2>4, <2>5, <2>6
<1>2. CASE ~\E i \in DOMAIN table : SameKey(table[i], r)
  <2>1. new = Append(table, r)
    BY <1>2 DEF write_dns_record
  <2>2. new \in Seq(Record) /\ DOMAIN new = 1..Len(table) + 1 /\ new[Len(table) + 1] = r
    BY <2>1
  <2>3. \A i \in DOMAIN table : i \in DOMAIN new /\ new[i] = table[i]
    BY <2>1, <2>2
  <2>4. Len(table) + 1 \in DOMAIN new
    BY <2>2
  <2> QED
    BY <2>2, <2>3, <2>4 DEF SameKey
<1> QED
  BY <1>1, <1>2

LEMMA AgedType ==
  ASSUME NEW v, NEW r \in Record
  PROVE  Aged(v, r) \in Record /\ SameKey(Aged(v, r), r)
BY StaleAssumption DEF Aged, Record, SameKey

LEMMA AgedSeq ==
  ASSUME NEW v, NEW s \in Seq(Record), NEW new, new = [i \in DOMAIN s |-> Aged(v, s[i])]
  PROVE  /\ new \in Seq(Record)
         /\ DOMAIN new = DOMAIN s
         /\ \A i \in DOMAIN s : SameKey(new[i], s[i])
<1>1. DOMAIN s = 1..Len(s) /\ Len(s) \in Nat /\ \A i \in DOMAIN s : s[i] \in Record
  OBVIOUS
<1>2. \A i \in DOMAIN s : Aged(v, s[i]) \in Record /\ SameKey(Aged(v, s[i]), s[i])
  BY <1>1, AgedType
<1>3. new \in [1..Len(s) -> Record]
  BY <1>1, <1>2
<1> QED
  BY <1>1, <1>2, <1>3, SeqDef

\* What has a row keeps one as long as the table keeps its keys.
LEMMA RowsKept ==
  ASSUME \A i \in DOMAIN rows : i \in DOMAIN rows' /\ SameKey(rows'[i], rows[i])
  PROVE  \A r : HasRow(r) => HasRow(r)'
BY DEF HasRow, SameKey

LEMMA AddRecordDns == ASSUME DnsInv, NEW r \in Record, AddRecord(r) PROVE DnsInv'
<1>1. [rec |-> r, wrote |-> FALSE] \in Call /\ [rec |-> r, wrote |-> FALSE].wrote = FALSE
  BY DEF Call
<1>2. DnsTypeOK'
  BY <1>1 DEF DnsInv, DnsTypeOK, AddRecord
<1>3. ServedIsStored'
  BY <1>1 DEF DnsInv, ServedIsStored, HasRow, AddRecord
<1> QED
  BY <1>2, <1>3 DEF DnsInv

LEMMA WriteRowDns == ASSUME DnsInv, NEW k, WriteRow(k) PROVE DnsInv'
<1>0. /\ k \in calls /\ k \in Call /\ k.rec \in Record /\ rows \in Seq(Record)
      /\ rows' = write_dns_record(rows, k.rec)
      /\ calls' = (calls \ {k}) \cup {[k EXCEPT !.wrote = TRUE]}
      /\ UNCHANGED <<up, zone, toLoad>>
  BY DEF DnsInv, DnsTypeOK, WriteRow, Call
<1>1. /\ rows' \in Seq(Record)
      /\ \A i \in DOMAIN rows : i \in DOMAIN rows' /\ SameKey(rows'[i], rows[i])
      /\ \E i \in DOMAIN rows' : SameKey(rows'[i], k.rec)
  BY <1>0, WriteKeepsKeys
<1>2. [k EXCEPT !.wrote = TRUE] \in Call /\ [k EXCEPT !.wrote = TRUE].rec = k.rec
  BY <1>0 DEF Call
<1>3. DnsTypeOK'
  BY <1>0, <1>1, <1>2 DEF DnsInv, DnsTypeOK
<1>4. \A r : HasRow(r) => HasRow(r)'
  BY <1>1, RowsKept
<1>5. HasRow(k.rec)'
  BY <1>1 DEF HasRow
<1>6. ServedIsStored'
  BY <1>0, <1>2, <1>4, <1>5 DEF DnsInv, ServedIsStored
<1> QED
  BY <1>3, <1>6 DEF DnsInv

LEMMA UpsertZoneDns == ASSUME DnsInv, NEW k, UpsertZone(k) PROVE DnsInv'
<1>0. /\ k \in calls /\ k.wrote /\ k.rec \in Record
      /\ zone' \subseteq zone \cup {k.rec} /\ calls' \subseteq calls
      /\ UNCHANGED <<up, rows, toLoad>>
  BY DEF DnsInv, DnsTypeOK, UpsertZone, Call, upsert
<1>1. DnsTypeOK'
  BY <1>0 DEF DnsInv, DnsTypeOK
<1>2. ServedIsStored'
  BY <1>0 DEF DnsInv, ServedIsStored, HasRow
<1> QED
  BY <1>1, <1>2 DEF DnsInv

LEMMA DropCallDns == ASSUME DnsInv, NEW k, DropCall(k) PROVE DnsInv'
BY DEF DnsInv, DnsTypeOK, ServedIsStored, HasRow, DropCall

LEMMA ServerCrashDns == ASSUME DnsInv, ServerCrash PROVE DnsInv'
<1>1. up' = FALSE /\ zone' = {} /\ toLoad' = <<>> /\ calls' = {} /\ rows' = rows
  BY DEF ServerCrash
<1>2. DnsTypeOK'
  <2>1. up' \in BOOLEAN
    BY <1>1
  <2>2. toLoad' \in Seq(Record) /\ zone' \subseteq Record /\ calls' \subseteq Call
    BY <1>1
  <2>3. rows' \in Seq(Record)
    BY <1>1 DEF DnsInv, DnsTypeOK
  <2> QED
    BY <2>1, <2>2, <2>3 DEF DnsTypeOK
<1>3. ServedIsStored'
  BY <1>1 DEF ServedIsStored
<1> QED
  BY <1>2, <1>3 DEF DnsInv

LEMMA ServerStartDns == ASSUME DnsInv, ServerStart PROVE DnsInv'
<1>1. DnsTypeOK'
  BY DEF DnsInv, DnsTypeOK, ServerStart
<1>2. ServedIsStored'
  BY DEF DnsInv, ServedIsStored, HasRow, SameKey, ServerStart
<1> QED
  BY <1>1, <1>2 DEF DnsInv

LEMMA LoadRowDns == ASSUME DnsInv, LoadRow PROVE DnsInv'
<1>1. /\ toLoad \in Seq(Record) /\ toLoad # <<>>
      /\ zone' \subseteq zone \cup {Head(toLoad)} /\ toLoad' = Tail(toLoad)
      /\ UNCHANGED <<up, rows, calls>>
  BY DEF DnsInv, DnsTypeOK, LoadRow, upsert
<1>2. /\ 1 \in DOMAIN toLoad /\ Head(toLoad) = toLoad[1] /\ Head(toLoad) \in Record
      /\ toLoad' \in Seq(Record)
      /\ \A i \in DOMAIN toLoad' : i + 1 \in DOMAIN toLoad /\ toLoad'[i] = toLoad[i + 1]
  BY <1>1
<1>3. DnsTypeOK'
  BY <1>1, <1>2 DEF DnsInv, DnsTypeOK
<1>4. HasRow(Head(toLoad)) /\ \A i \in DOMAIN toLoad' : HasRow(toLoad'[i])
  BY <1>2 DEF DnsInv, ServedIsStored
<1>5. ServedIsStored'
  BY <1>1, <1>4 DEF DnsInv, ServedIsStored, HasRow
<1> QED
  BY <1>3, <1>5 DEF DnsInv

\* A challenge that is over keeps its name and kind.
LEMMA AgeDns == ASSUME DnsInv, NEW v, Age(v) PROVE DnsInv'
<1>0. /\ rows \in Seq(Record) /\ toLoad \in Seq(Record) /\ zone \subseteq Record /\ calls \subseteq Call
      /\ rows' = [i \in DOMAIN rows |-> Aged(v, rows[i])]
      /\ toLoad' = [i \in DOMAIN toLoad |-> Aged(v, toLoad[i])]
      /\ zone' = {Aged(v, r) : r \in zone}
      /\ calls' = {[k EXCEPT !.rec = Aged(v, k.rec)] : k \in calls}
      /\ up' = up /\ up \in BOOLEAN
  BY DEF DnsInv, DnsTypeOK, Age
<1>1. /\ rows' \in Seq(Record) /\ DOMAIN rows' = DOMAIN rows
      /\ \A i \in DOMAIN rows : SameKey(rows'[i], rows[i])
  BY <1>0, AgedSeq
<1>2. /\ toLoad' \in Seq(Record) /\ DOMAIN toLoad' = DOMAIN toLoad
      /\ \A i \in DOMAIN toLoad : SameKey(toLoad'[i], toLoad[i])
  BY <1>0, AgedSeq
<1>3. \A r \in zone' : r \in Record /\ \E s \in zone : SameKey(r, s)
  BY <1>0, AgedType
<1>4. \A k \in calls : /\ [k EXCEPT !.rec = Aged(v, k.rec)] \in Call
                       /\ [k EXCEPT !.rec = Aged(v, k.rec)].wrote = k.wrote
                       /\ SameKey([k EXCEPT !.rec = Aged(v, k.rec)].rec, k.rec)
  <2> SUFFICES ASSUME NEW k \in calls
               PROVE  /\ [k EXCEPT !.rec = Aged(v, k.rec)] \in Call
                      /\ [k EXCEPT !.rec = Aged(v, k.rec)].wrote = k.wrote
                      /\ SameKey([k EXCEPT !.rec = Aged(v, k.rec)].rec, k.rec)
    OBVIOUS
  <2>1. k \in [rec : Record, wrote : BOOLEAN] /\ k.rec \in Record
    BY <1>0 DEF Call
  <2>2. Aged(v, k.rec) \in Record /\ SameKey(Aged(v, k.rec), k.rec)
    BY <2>1, AgedType
  <2>3. /\ [k EXCEPT !.rec = Aged(v, k.rec)] \in [rec : Record, wrote : BOOLEAN]
        /\ [k EXCEPT !.rec = Aged(v, k.rec)].rec = Aged(v, k.rec)
        /\ [k EXCEPT !.rec = Aged(v, k.rec)].wrote = k.wrote
    BY <2>1, <2>2
  <2> QED
    BY <2>2, <2>3 DEF Call
<1>5. \A k \in calls' : k \in Call /\ \E m \in calls : k.wrote = m.wrote /\ SameKey(k.rec, m.rec)
  BY <1>0, <1>4
<1>6. DnsTypeOK'
  BY <1>0, <1>1, <1>2, <1>3, <1>5 DEF DnsTypeOK
<1>7. \A r, s : HasRow(s) /\ SameKey(r, s) => \E i \in DOMAIN rows' : SameKey(rows'[i], r)
  BY <1>1 DEF HasRow, SameKey
<1>8. ServedIsStored'
  <2>1. \A r \in zone' : \E i \in DOMAIN rows' : SameKey(rows'[i], r)
    <3> SUFFICES ASSUME NEW r \in zone' PROVE \E i \in DOMAIN rows' : SameKey(rows'[i], r)
      OBVIOUS
    <3>1. PICK s \in zone : SameKey(r, s)
      BY <1>3
    <3>2. HasRow(s)
      BY DEF DnsInv, ServedIsStored
    <3> QED
      BY <1>7, <3>1, <3>2
  <2>2. \A i \in DOMAIN toLoad' : \E j \in DOMAIN rows' : SameKey(rows'[j], toLoad'[i])
    BY <1>2, <1>7 DEF DnsInv, ServedIsStored
  <2>3. \A k \in calls' : k.wrote => \E i \in DOMAIN rows' : SameKey(rows'[i], k.rec)
    <3> SUFFICES ASSUME NEW k \in calls', k.wrote
                 PROVE  \E i \in DOMAIN rows' : SameKey(rows'[i], k.rec)
      OBVIOUS
    <3>1. PICK m \in calls : k.wrote = m.wrote /\ SameKey(k.rec, m.rec)
      BY <1>5
    <3>2. HasRow(m.rec)
      BY <3>1 DEF DnsInv, ServedIsStored
    <3> QED
      BY <1>7, <3>1, <3>2
  <2> QED
    BY <2>1, <2>2, <2>3 DEF ServedIsStored, HasRow
<1> QED
  BY <1>6, <1>8 DEF DnsInv

LEMMA StepDns == DnsInv /\ [Next]_vars => DnsInv'
<1> SUFFICES ASSUME DnsInv, [Next]_vars PROVE DnsInv'
  OBVIOUS
<1>1. CASE UNCHANGED dnsVars
  BY <1>1 DEF DnsInv, DnsTypeOK, ServedIsStored, HasRow, dnsVars
<1>2. CASE \E c \in Clients : NewOrder(c)
  <2>1. PICK c \in Clients : NewOrder(c)
    BY <1>2
  <2>2. UNCHANGED dnsVars \/ Age(c)
    BY <2>1 DEF NewOrder
  <2> QED
    BY <1>1, <2>2, AgeDns
<1>3. CASE \E c \in Clients : SendChallenge(c)
  BY <1>1, <1>3, ChallengeType, AddRecordDns DEF SendChallenge
<1>4. CASE \E k \in calls : HandlerStep(k) \/ HangUp(k)
  BY <1>4, WriteRowDns, UpsertZoneDns, DropCallDns DEF HandlerStep, Answer, HangUp
<1>5. CASE \E r \in UserRecords : UserSetsRecord(r)
  BY <1>5, UserRecordType, AddRecordDns DEF UserSetsRecord
<1>6. CASE ServerBoot
  BY <1>6, ServerStartDns, LoadRowDns DEF ServerBoot
<1>7. CASE NameServerCrash
  BY <1>7, ServerCrashDns DEF NameServerCrash
<1>8. (\E c \in Clients : Start(c) \/ GetAccount(c) \/ WriteCredentials(c) \/ LoadCerts(c)
         \/ AnswerLost(c) \/ SetReady(c) \/ Finalize(c) \/ UpdateKey(c) \/ Renew(c))
        => UNCHANGED dnsVars
  BY DEF Start, GetAccount, WriteCredentials, LoadCerts, AnswerLost, SetReady, Finalize,
         UpdateKey, Renew
<1>9. (\E c \in Clients : write_certs(c)) => UNCHANGED dnsVars
  BY DEF write_certs, OpenFile, FillFile
<1>10. (\E c \in Clients : UpdateRenewInfo(c) \/ Validate(c) \/ RenewAtPasses(c)
          \/ TimePasses(c) \/ Fail(c) \/ Crash(c))
         => UNCHANGED dnsVars
  BY DEF UpdateRenewInfo, Validate, RenewAtPasses, TimePasses, Fail, Crash
<1>11. UNCHANGED vars => UNCHANGED dnsVars
  BY DEF vars
<1> QED
  BY <1>1, <1>2, <1>3, <1>4, <1>5, <1>6, <1>7, <1>8, <1>9, <1>10, <1>11 DEF Next, ClientStep

(***************************************************************************)
(* The clients: types.                                                     *)
(***************************************************************************)

ClientTypes ==
  /\ pc \in [Clients -> PCs]
  /\ disk \in [Clients -> [{"creds"} \cup Files -> Int]]
  /\ served \in [Clients -> Nat]
  /\ window \in [Clients -> {"before", "open", "past"}]
  /\ due \in [Clients -> BOOLEAN]
  /\ interrupted \in [Clients -> BOOLEAN]
  /\ order \in [Clients -> {"none", "pending", "ready", "invalid"}]
  /\ issued \in [Clients -> Nat]
  /\ replaced \in [Clients -> SUBSET Nat]
  /\ authorized \in [Clients -> BOOLEAN]
  /\ faults \in Nat
  /\ userSets \in Nat

LEMMA SplitTypes == TypeOK <=> DnsTypeOK /\ ClientTypes
BY DEF TypeOK, ClientTypes

\* The part of the state that only the client itself changes.
Busy == {"open_info", "install"} \cup Writing

LEMMA GotoType ==
  ASSUME ClientTypes, NEW c \in Clients, NEW l \in PCs, Goto(c, l)
  PROVE  /\ pc' \in [Clients -> PCs]
         /\ pc'[c] = l
         /\ \A d \in Clients \ {c} : pc'[d] = pc[d]
BY DEF ClientTypes, Goto

\* An error leads out of everything.
LEMMA ErrType ==
  ASSUME NEW c, Err(c)
  PROVE  \E l \in {"down", "ended"} : Goto(c, l)
BY DEF Err

LEMMA DiskType ==
  ASSUME ClientTypes, NEW c \in Clients, NEW f \in {"creds"} \cup Files, NEW v \in Int,
         disk' = [disk EXCEPT ![c][f] = v]
  PROVE  /\ disk' \in [Clients -> [{"creds"} \cup Files -> Int]]
         /\ disk'[c][f] = v
         /\ \A g \in {"creds"} \cup Files : g # f => disk'[c][g] = disk[c][g]
         /\ \A d \in Clients \ {c} : disk'[d] = disk[d]
<1>1. disk \in [Clients -> [{"creds"} \cup Files -> Int]]
  BY DEF ClientTypes
<1> QED
  BY <1>1

\* A certificate that can be loaded was issued.
LEMMA LoadedType ==
  ASSUME ClientTypes, FilesInOrder, NEW c \in Clients, LoadResult(disk[c]) = "loaded"
  PROVE  disk[c].cert \in Nat /\ disk[c].cert <= issued[c]
<1>1. disk[c].cert # Torn
  BY DEF LoadResult
<1>2. disk[c].cert \in {Torn} \cup 0..issued[c] /\ issued[c] \in Nat
  BY DEF FilesInOrder, Files, ClientTypes
<1> QED
  BY <1>1, <1>2

\* The steps that touch neither the files of the certificate nor what was
\* issued, and that do not begin to write.
Quiet ==
  /\ \A d \in Clients : \A f \in Files : disk'[d][f] = disk[d][f]
  /\ issued' = issued
  /\ \A d \in Clients :
       /\ pc'[d] = pc[d] \/ pc'[d] \notin Busy
       /\ pc[d] \in Writing => pc'[d] = pc[d] \/ interrupted'[d]
       /\ interrupted[d] => interrupted'[d]
       /\ \/ served'[d] = served[d]
          \/ served'[d] = 0
          \/ LoadResult(disk[d]) = "loaded" /\ served'[d] = disk[d].cert

\* A client that goes from one quiet place to another.
LEMMA QuietMove ==
  ASSUME ClientTypes, NEW c \in Clients, NEW l \in PCs \ Busy, Goto(c, l), pc[c] \notin Writing,
         UNCHANGED <<served, issued, interrupted>>,
         \A d \in Clients : \A f \in Files : disk'[d][f] = disk[d][f]
  PROVE  Quiet
BY GotoType DEF Quiet

LEMMA ErrMove ==
  ASSUME ClientTypes, NEW c \in Clients, Err(c), pc[c] \notin Writing,
         UNCHANGED <<disk, served, issued, interrupted>>
  PROVE  Quiet /\ pc' \in [Clients -> PCs]
<1>1. PICK l \in {"down", "ended"} : Goto(c, l)
  BY ErrType
<1>2. l \in PCs \ Busy
  BY DEF PCs, Busy, Writing
<1> QED
  BY <1>1, <1>2, QuietMove, GotoType

\* Each of these keeps the types and is quiet.
LEMMA StartQuiet ==
  ASSUME ClientTypes, NEW c \in Clients, Start(c) \/ Renew(c)
  PROVE  ClientTypes' /\ Quiet
<1>1. /\ \E l \in {"account", "order"} : Goto(c, l)
      /\ pc[c] \in {"down", "watch"}
      /\ UNCHANGED <<disk, served, window, due, interrupted, acmeVars, faults, userSets>>
  BY DEF Start, Renew
<1>2. PICK l \in {"account", "order"} : Goto(c, l)
  BY <1>1
<1>3. l \in PCs \ Busy /\ pc[c] \notin Writing
  BY <1>1 DEF PCs, Busy, Writing
<1>4. Quiet /\ pc' \in [Clients -> PCs]
  BY <1>1, <1>2, <1>3, QuietMove, GotoType DEF acmeVars
<1> QED
  BY <1>1, <1>4 DEF ClientTypes, acmeVars

LEMMA CredentialsQuiet ==
  ASSUME ClientTypes, NEW c \in Clients, GetAccount(c) \/ WriteCredentials(c)
  PROVE  ClientTypes' /\ Quiet
<1>1. /\ pc[c] \in {"account", "creds"}
      /\ UNCHANGED <<served, window, due, interrupted, acmeVars, faults, userSets>>
      /\ \/ Err(c) /\ disk' = disk
         \/ Goto(c, "load") /\ disk' = disk
         \/ Goto(c, "creds") /\ disk' = [disk EXCEPT ![c]["creds"] = Torn]
         \/ Goto(c, "load") /\ disk' = [disk EXCEPT ![c]["creds"] = 1]
  BY DEF GetAccount, WriteCredentials
<1>2. pc[c] \notin Writing
  BY <1>1 DEF Writing
<1>3. CASE Err(c) /\ disk' = disk
  <2>1. Quiet /\ pc' \in [Clients -> PCs]
    BY <1>1, <1>2, <1>3, ErrMove DEF acmeVars
  <2> QED
    BY <1>1, <1>3, <2>1 DEF ClientTypes, acmeVars
<1>4. CASE ~(Err(c) /\ disk' = disk)
  <2>1. PICK l \in {"load", "creds"} : Goto(c, l)
    BY <1>1, <1>4
  <2>2. l \in PCs \ Busy
    BY DEF PCs, Busy, Writing
  <2>3. disk' = disk \/ \E v \in Int : disk' = [disk EXCEPT ![c]["creds"] = v]
    BY <1>1, <1>4 DEF Torn
  <2>4. "creds" \notin Files /\ "creds" \in {"creds"} \cup Files
    BY DEF Files
  <2>5. CASE disk' = disk
    BY <1>1, <1>2, <2>1, <2>2, <2>5, QuietMove, GotoType DEF ClientTypes, acmeVars
  <2>6. CASE \E v \in Int : disk' = [disk EXCEPT ![c]["creds"] = v]
    <3>1. PICK v \in Int : disk' = [disk EXCEPT ![c]["creds"] = v]
      BY <2>6
    <3>2. /\ disk' \in [Clients -> [{"creds"} \cup Files -> Int]]
          /\ \A g \in {"creds"} \cup Files : g # "creds" => disk'[c][g] = disk[c][g]
          /\ \A d \in Clients \ {c} : disk'[d] = disk[d]
      BY <2>4, <3>1, DiskType
    <3>3. \A d \in Clients : \A f \in Files : disk'[d][f] = disk[d][f]
      BY <2>4, <3>2
    <3>4. Quiet /\ pc' \in [Clients -> PCs]
      BY <1>1, <1>2, <2>1, <2>2, <3>3, QuietMove, GotoType DEF acmeVars
    <3> QED
      BY <1>1, <3>2, <3>4 DEF ClientTypes, acmeVars
  <2> QED
    BY <2>3, <2>5, <2>6
<1> QED
  BY <1>3, <1>4

LEMMA PassedType ==
  ASSUME ClientTypes, NEW c \in Clients
  PROVE  Passed(window[c]) \subseteq BOOLEAN
<1>1. window[c] \in {"before", "open", "past"}
  BY DEF ClientTypes
<1> QED
  BY <1>1 DEF Passed

LEMMA LoadCertsQuiet ==
  ASSUME ClientTypes, FilesInOrder, NEW c \in Clients, LoadCerts(c)
  PROVE  ClientTypes' /\ Quiet
<1>1. /\ pc[c] = "load"
      /\ UNCHANGED <<disk, window, interrupted, acmeVars, faults, userSets>>
      /\ \/ Err(c) /\ UNCHANGED <<served, due>>
         \/ Goto(c, "order") /\ UNCHANGED <<served, due>>
         \/ /\ LoadResult(disk[c]) = "loaded"
            /\ served' = [served EXCEPT ![c] = disk[c].cert]
            /\ \E b \in BOOLEAN : due' = [due EXCEPT ![c] = b]
            /\ Goto(c, "watch")
  <2>1. \A b \in (IF disk[c].info = disk[c].cert THEN Passed(window[c]) ELSE {FALSE}) : b \in BOOLEAN
    BY PassedType
  <2> QED
    BY <2>1 DEF LoadCerts
<1>2. pc[c] \notin Writing /\ "order" \in PCs \ Busy /\ "watch" \in PCs \ Busy
  BY <1>1 DEF Writing, PCs, Busy
<1>3. CASE Err(c) /\ UNCHANGED <<served, due>>
  BY <1>1, <1>2, <1>3, ErrMove DEF ClientTypes, acmeVars
<1>4. CASE Goto(c, "order") /\ UNCHANGED <<served, due>>
  <2>1. Quiet /\ pc' \in [Clients -> PCs]
    BY <1>1, <1>2, <1>4, QuietMove, GotoType DEF acmeVars
  <2> QED
    BY <1>1, <1>4, <2>1 DEF ClientTypes, acmeVars
<1>5. CASE /\ LoadResult(disk[c]) = "loaded"
           /\ served' = [served EXCEPT ![c] = disk[c].cert]
           /\ \E b \in BOOLEAN : due' = [due EXCEPT ![c] = b]
           /\ Goto(c, "watch")
  <2>1. /\ served' \in [Clients -> Nat] /\ served'[c] = disk[c].cert
        /\ \A d \in Clients \ {c} : served'[d] = served[d]
    BY <1>5, LoadedType DEF ClientTypes
  <2>2. due' \in [Clients -> BOOLEAN]
    BY <1>5 DEF ClientTypes
  <2>3. pc' \in [Clients -> PCs] /\ pc'[c] = "watch" /\ \A d \in Clients \ {c} : pc'[d] = pc[d]
    BY <1>2, <1>5, GotoType
  <2>4. Quiet
    BY <1>1, <1>2, <1>5, <2>1, <2>3 DEF Quiet, acmeVars
  <2> QED
    BY <1>1, <2>1, <2>2, <2>3, <2>4 DEF ClientTypes, acmeVars
<1> QED
  BY <1>1, <1>3, <1>4, <1>5

LEMMA OrderQuiet ==
  ASSUME ClientTypes, NEW c \in Clients,
         NewOrder(c) \/ SendChallenge(c) \/ AnswerLost(c) \/ SetReady(c)
  PROVE  ClientTypes' /\ Quiet
<1>1. /\ pc[c] \in {"order", "challenge", "answer", "announce"}
      /\ UNCHANGED <<disk, served, window, due, interrupted, issued, replaced, authorized, faults, userSets>>
      /\ Err(c) \/ \E l \in {"poll", "challenge", "answer"} : Goto(c, l)
  BY DEF NewOrder, SendChallenge, AnswerLost, SetReady, acmeVars
<1>2. order' = order \/ \E o \in {"none", "pending", "ready"} : order' = [order EXCEPT ![c] = o]
  BY DEF NewOrder, SendChallenge, AnswerLost, SetReady, acmeVars
<1>3. order' \in [Clients -> {"none", "pending", "ready", "invalid"}]
  BY <1>2 DEF ClientTypes
<1>4. pc[c] \notin Writing /\ {"poll", "challenge", "answer"} \subseteq PCs \ Busy
  BY <1>1 DEF Writing, PCs, Busy
<1>5. Quiet /\ pc' \in [Clients -> PCs]
  <2>1. CASE Err(c)
    BY <1>1, <1>4, <2>1, ErrMove
  <2>2. CASE \E l \in {"poll", "challenge", "answer"} : Goto(c, l)
    <3>1. PICK l \in {"poll", "challenge", "answer"} : Goto(c, l)
      BY <2>2
    <3> QED
      BY <1>1, <1>4, <3>1, QuietMove, GotoType
  <2> QED
    BY <1>1, <2>1, <2>2
<1> QED
  BY <1>1, <1>3, <1>5 DEF ClientTypes

LEMMA TimeQuiet ==
  ASSUME ClientTypes, NEW c \in Clients,
         UpdateRenewInfo(c) \/ Validate(c) \/ RenewAtPasses(c) \/ TimePasses(c)
  PROVE  ClientTypes' /\ Quiet
<1>1. UNCHANGED <<pc, disk, served, interrupted, issued, replaced, faults, userSets>>
  BY DEF UpdateRenewInfo, Validate, RenewAtPasses, TimePasses, acmeVars, clientVars
<1>2. due' = due \/ \E b \in BOOLEAN : due' = [due EXCEPT ![c] = b]
  BY PassedType DEF UpdateRenewInfo, Validate, RenewAtPasses, TimePasses, acmeVars, clientVars
<1>3. window' = window \/ \E w \in {"open", "past"} : window' = [window EXCEPT ![c] = w]
  BY DEF UpdateRenewInfo, Validate, RenewAtPasses, TimePasses, acmeVars, clientVars
<1>4. /\ order' = order \/ \E o \in {"ready", "invalid"} : order' = [order EXCEPT ![c] = o]
      /\ authorized' = authorized \/ \E b \in BOOLEAN : authorized' = [authorized EXCEPT ![c] = b]
  <2>1. CASE Validate(c)
    <3>1. (authorized[c] \/ Answers(Challenge(c))) \in BOOLEAN
      OBVIOUS
    <3> QED
      BY <2>1, <3>1 DEF Validate
  <2>2. CASE ~Validate(c)
    BY <2>2 DEF UpdateRenewInfo, RenewAtPasses, TimePasses, acmeVars
  <2> QED
    BY <2>1, <2>2
<1>5. Quiet
  BY <1>1 DEF Quiet
<1>6. due' \in [Clients -> BOOLEAN] /\ authorized' \in [Clients -> BOOLEAN]
  BY <1>2, <1>4 DEF ClientTypes
<1>7. /\ window' \in [Clients -> {"before", "open", "past"}]
      /\ order' \in [Clients -> {"none", "pending", "ready", "invalid"}]
  BY <1>3, <1>4 DEF ClientTypes
<1> QED
  BY <1>1, <1>5, <1>6, <1>7 DEF ClientTypes

LEMMA FailQuiet ==
  ASSUME ClientTypes, NEW c \in Clients, Fail(c)
  PROVE  ClientTypes' /\ Quiet
<1>1. /\ interrupted' = [interrupted EXCEPT ![c] = interrupted[c] \/ pc[c] \in Writing]
      /\ order' = [order EXCEPT ![c] = "none"] /\ faults' = faults + 1 /\ Err(c)
      /\ UNCHANGED <<disk, served, window, due, issued, replaced, authorized, userSets>>
  BY DEF Fail, Fault
<1>2. PICK l \in {"down", "ended"} : Goto(c, l)
  BY <1>1, ErrType
<1>3. l \in PCs \ Busy
  BY DEF PCs, Busy, Writing
<1>4. pc' \in [Clients -> PCs] /\ pc'[c] = l /\ \A d \in Clients \ {c} : pc'[d] = pc[d]
  BY <1>2, <1>3, GotoType
<1>5. /\ interrupted' \in [Clients -> BOOLEAN]
      /\ interrupted'[c] = (interrupted[c] \/ pc[c] \in Writing)
      /\ \A d \in Clients \ {c} : interrupted'[d] = interrupted[d]
  <2>1. interrupted \in [Clients -> BOOLEAN] /\ (interrupted[c] \/ pc[c] \in Writing) \in BOOLEAN
    BY DEF ClientTypes
  <2> QED
    BY <1>1, <2>1
<1>6. Quiet
  BY <1>1, <1>3, <1>4, <1>5 DEF Quiet
<1>7. order' \in [Clients -> {"none", "pending", "ready", "invalid"}] /\ faults' \in Nat
  BY <1>1 DEF ClientTypes
<1> QED
  BY <1>1, <1>4, <1>5, <1>6, <1>7 DEF ClientTypes

LEMMA CrashQuiet ==
  ASSUME ClientTypes, NEW c \in Clients, Crash(c)
  PROVE  ClientTypes' /\ Quiet
<1>1. /\ interrupted' = [interrupted EXCEPT ![c] = interrupted[c] \/ pc[c] \in Writing]
      /\ order' = [order EXCEPT ![c] = "none"] /\ faults' = faults + 1 /\ Goto(c, "down")
      /\ served' = [served EXCEPT ![c] = 0] /\ due' = [due EXCEPT ![c] = FALSE]
      /\ UNCHANGED <<disk, window, issued, replaced, authorized, userSets>>
  BY DEF Crash, Fault
<1>2. "down" \in PCs \ Busy
  BY DEF PCs, Busy, Writing
<1>3. pc' \in [Clients -> PCs] /\ pc'[c] = "down" /\ \A d \in Clients \ {c} : pc'[d] = pc[d]
  BY <1>1, <1>2, GotoType
<1>4. /\ interrupted' \in [Clients -> BOOLEAN]
      /\ interrupted'[c] = (interrupted[c] \/ pc[c] \in Writing)
      /\ \A d \in Clients \ {c} : interrupted'[d] = interrupted[d]
  <2>1. interrupted \in [Clients -> BOOLEAN] /\ (interrupted[c] \/ pc[c] \in Writing) \in BOOLEAN
    BY DEF ClientTypes
  <2> QED
    BY <1>1, <2>1
<1>5. served' \in [Clients -> Nat] /\ \A d \in Clients : served'[d] = IF d = c THEN 0 ELSE served[d]
  BY <1>1 DEF ClientTypes
<1>6. Quiet
  BY <1>1, <1>2, <1>3, <1>4, <1>5 DEF Quiet
<1>7. due' \in [Clients -> BOOLEAN]
  BY <1>1 DEF ClientTypes
<1>8. order' \in [Clients -> {"none", "pending", "ready", "invalid"}] /\ faults' \in Nat
  BY <1>1 DEF ClientTypes
<1> QED
  BY <1>1, <1>3, <1>4, <1>5, <1>6, <1>7, <1>8 DEF ClientTypes

LEMMA AnswerQuiet ==
  ASSUME ClientTypes, NEW k, Answer(k)
  PROVE  ClientTypes' /\ Quiet
<1>1. /\ UNCHANGED <<disk, served, window, due, interrupted, acmeVars, faults, userSets>>
      /\ pc' = [c \in Clients |-> IF pc[c] = "answer" /\ k.rec = Challenge(c)
                                  THEN "announce" ELSE pc[c]]
  BY DEF Answer
<1>2. "announce" \in PCs \ Busy /\ "answer" \notin Writing
  BY DEF PCs, Busy, Writing
<1>3. pc' \in [Clients -> PCs]
  BY <1>1, <1>2 DEF ClientTypes
<1>4. Quiet
  BY <1>1, <1>2 DEF Quiet, acmeVars
<1> QED
  BY <1>1, <1>3, <1>4 DEF ClientTypes, acmeVars

LEMMA OthersQuiet ==
  ASSUME ClientTypes, UNCHANGED <<clientVars, acmeVars>>, faults' \in Nat, userSets' \in Nat
  PROVE  ClientTypes' /\ Quiet
BY DEF ClientTypes, Quiet, clientVars, acmeVars

(***************************************************************************)
(* The clients: an order, write_certs and update_key.                      *)
(***************************************************************************)

\* The files of one client agree with how far it has come.
FileInv(c) ==
  /\ pc[c] \in Busy => issued[c] > 0
  /\ pc[c] \in {"open_cert", "fill_cert", "open_key", "fill_key", "install"}
       => disk[c]["info"] = issued[c]
  /\ pc[c] \in {"open_key", "fill_key", "install"} => disk[c]["cert"] = issued[c]
  /\ pc[c] = "install" => disk[c]["key"] = issued[c]
  /\ \A f \in Files : disk[c][f] \in {Torn} \cup 0..issued[c]
  /\ served[c] <= issued[c]
  /\ disk[c]["cert"] = Torn \/ disk[c]["cert"] >= served[c]

LEMMA FilesSplit == FilesInOrder <=> \A c \in Clients : FileInv(c)
BY DEF FilesInOrder, FileInv, Busy

LEMMA QuietFiles ==
  ASSUME ClientTypes, FilesInOrder, Quiet
  PROVE  FilesInOrder'
<1> SUFFICES ASSUME NEW c \in Clients PROVE FileInv(c)'
  BY FilesSplit DEF FilesInOrder, FileInv, Busy
<1>1. FileInv(c)
  BY FilesSplit
<1>2. /\ \A f \in Files : disk'[c][f] = disk[c][f]
      /\ issued'[c] = issued[c]
      /\ pc'[c] = pc[c] \/ pc'[c] \notin Busy
  BY DEF Quiet
<1>3. \A f \in Files : disk[c][f] \in {Torn} \cup 0..issued[c] /\ disk[c][f] \in Int
  BY <1>1 DEF FileInv, ClientTypes
<1>4. /\ issued[c] \in Nat /\ served[c] \in Nat
      /\ {"info", "cert", "key"} \subseteq Files
      /\ {"open_cert", "fill_cert", "open_key", "fill_key", "install"} \subseteq Busy
  BY DEF ClientTypes, Files, Busy, Writing
<1>5. served'[c] <= issued[c] /\ (disk[c]["cert"] = Torn \/ disk[c]["cert"] >= served'[c])
  <2>1. CASE served'[c] = served[c]
    BY <1>1, <2>1 DEF FileInv
  <2>2. CASE served'[c] = 0
    BY <1>3, <1>4, <2>2
  <2>3. CASE LoadResult(disk[c]) = "loaded" /\ served'[c] = disk[c].cert
    BY <1>3, <1>4, <2>3, LoadedType
  <2> QED
    BY <2>1, <2>2, <2>3 DEF Quiet
<1>6. disk'[c]["info"] = disk[c]["info"] /\ disk'[c]["cert"] = disk[c]["cert"]
      /\ disk'[c]["key"] = disk[c]["key"]
  BY <1>2, <1>4
<1>7. (/\ pc[c] \in Busy => issued[c] > 0
       /\ pc[c] \in {"open_cert", "fill_cert", "open_key", "fill_key", "install"}
            => disk[c]["info"] = issued[c]
       /\ pc[c] \in {"open_key", "fill_key", "install"} => disk[c]["cert"] = issued[c]
       /\ pc[c] = "install" => disk[c]["key"] = issued[c])'
  BY <1>1, <1>2, <1>4, <1>6 DEF FileInv
<1> QED
  BY <1>2, <1>3, <1>5, <1>6, <1>7 DEF FileInv

\* What the others have is not touched.
LEMMA OtherFiles ==
  ASSUME FilesInOrder, NEW c \in Clients, FileInv(c)',
         \A d \in Clients \ {c} : /\ pc'[d] = pc[d] /\ disk'[d] = disk[d]
                                  /\ issued'[d] = issued[d] /\ served'[d] = served[d]
  PROVE  FilesInOrder'
<1>1. \A d \in Clients \ {c} : FileInv(d)'
  BY FilesSplit DEF FileInv
<1>2. \A d \in Clients : FileInv(d)'
  BY <1>1
<1> QED
  BY <1>2 DEF FilesInOrder, FileInv, Busy

\* What a step does to the files, as far as a restart is concerned.
FileStep == ClientTypes' /\ FilesInOrder' /\ (RestartIsSafe => RestartIsSafe')

LEMMA QuietFileStep ==
  ASSUME ClientTypes, FilesInOrder, Quiet, ClientTypes'
  PROVE  FileStep
<1>1. FilesInOrder'
  BY QuietFiles
<1>2. ASSUME RestartIsSafe, NEW c \in Clients, LoadResult(disk'[c]) = "error"
      PROVE  pc'[c] \in Writing \/ interrupted'[c]
  <2>1. \A f \in Files : disk'[c][f] = disk[c][f]
    BY DEF Quiet
  <2>2. LoadResult(disk[c]) = "error"
    BY <1>2, <2>1 DEF LoadResult, Files
  <2>3. pc[c] \in Writing \/ interrupted[c]
    BY <1>2, <2>2 DEF RestartIsSafe
  <2> QED
    BY <2>3 DEF Quiet
<1>3. \A c \in Clients : LoadResult(disk'[c]) = "loaded" => disk'[c].cert >= served'[c]
  <2>1. \A c \in Clients : LoadResult(disk'[c]) = "loaded" => disk'[c].cert # Torn
    BY DEF LoadResult
  <2> QED
    BY <1>1, <2>1 DEF FilesInOrder
<1> QED
  BY <1>1, <1>2, <1>3 DEF FileStep, RestartIsSafe

\* A step of one client that changes its files: it is still writing, or the
\* files can be loaded.
LEMMA LoudFileStep ==
  ASSUME ClientTypes, FilesInOrder, ClientTypes', FilesInOrder', NEW c \in Clients,
         \A d \in Clients \ {c} : /\ pc'[d] = pc[d] /\ disk'[d] = disk[d]
                                  /\ interrupted'[d] = interrupted[d],
         RestartIsSafe /\ LoadResult(disk'[c]) = "error" => pc'[c] \in Writing \/ interrupted'[c]
  PROVE  FileStep
<1>1. ASSUME RestartIsSafe, NEW d \in Clients, LoadResult(disk'[d]) = "error"
      PROVE  pc'[d] \in Writing \/ interrupted'[d]
  BY <1>1 DEF RestartIsSafe
<1>2. \A d \in Clients : LoadResult(disk'[d]) = "loaded" => disk'[d].cert >= served'[d]
  <2>1. \A d \in Clients : LoadResult(disk'[d]) = "loaded" => disk'[d].cert # Torn
    BY DEF LoadResult
  <2> QED
    BY <2>1 DEF FilesInOrder
<1> QED
  BY <1>1, <1>2 DEF FileStep, RestartIsSafe

LEMMA FinalizeStep ==
  ASSUME ClientTypes, FilesInOrder, NEW c \in Clients, Finalize(c)
  PROVE  FileStep
<1>1. /\ pc[c] = "poll"
      /\ order' = [order EXCEPT ![c] = IF order[c] \in {"ready", "invalid"} THEN "none" ELSE order[c]]
      /\ UNCHANGED <<disk, served, window, due, interrupted, authorized, faults, userSets>>
      /\ \/ /\ issued' = [issued EXCEPT ![c] = issued[c] + 1]
            /\ replaced' = [replaced EXCEPT ![c] = replaced[c] \cup ({served[c]} \ {0})]
            /\ Goto(c, "open_info")
         \/ Err(c) /\ UNCHANGED <<issued, replaced>>
  BY DEF Finalize
<1>2. order' \in [Clients -> {"none", "pending", "ready", "invalid"}]
  BY <1>1 DEF ClientTypes
<1>3. pc[c] \notin Writing /\ "open_info" \in PCs
  BY <1>1 DEF Writing, PCs
<1>4. CASE Err(c) /\ UNCHANGED <<issued, replaced>>
  <2>1. Quiet /\ pc' \in [Clients -> PCs]
    BY <1>1, <1>3, <1>4, ErrMove
  <2>2. ClientTypes'
    BY <1>1, <1>2, <1>4, <2>1 DEF ClientTypes
  <2> QED
    BY <2>1, <2>2, QuietFileStep
<1>5. CASE /\ issued' = [issued EXCEPT ![c] = issued[c] + 1]
           /\ replaced' = [replaced EXCEPT ![c] = replaced[c] \cup ({served[c]} \ {0})]
           /\ Goto(c, "open_info")
  <2>1. /\ pc' \in [Clients -> PCs] /\ pc'[c] = "open_info"
        /\ \A d \in Clients \ {c} : pc'[d] = pc[d]
    BY <1>3, <1>5, GotoType
  <2>2. /\ issued' \in [Clients -> Nat] /\ issued'[c] = issued[c] + 1 /\ issued[c] \in Nat
        /\ \A d \in Clients \ {c} : issued'[d] = issued[d]
    BY <1>5 DEF ClientTypes
  <2>3. replaced' \in [Clients -> SUBSET Nat]
    BY <1>5 DEF ClientTypes
  <2>4. ClientTypes'
    BY <1>1, <1>2, <2>1, <2>2, <2>3 DEF ClientTypes
  <2>5. FileInv(c)'
    <3>1. FileInv(c) /\ served[c] \in Nat
      BY FilesSplit DEF ClientTypes
    <3>2. \A f \in Files : disk[c][f] \in {Torn} \cup 0..issued'[c]
      BY <2>2, <3>1 DEF FileInv
    <3>3. served[c] <= issued'[c] /\ issued'[c] > 0
      BY <2>2, <3>1 DEF FileInv
    <3> QED
      BY <1>1, <2>1, <3>1, <3>2, <3>3 DEF FileInv
  <2>6. FilesInOrder'
    BY <1>1, <2>1, <2>2, <2>5, OtherFiles
  <2>7. RestartIsSafe /\ LoadResult(disk'[c]) = "error" => interrupted'[c]
    BY <1>1, <1>3 DEF RestartIsSafe
  <2> QED
    BY <1>1, <2>1, <2>4, <2>6, <2>7, LoudFileStep
<1> QED
  BY <1>1, <1>4, <1>5

\* The three pairs of places of write_certs in which a file is truncated, and
\* in which it is filled.
Opens == {<<"info", "open_info", "fill_info">>, <<"cert", "open_cert", "fill_cert">>,
          <<"key", "open_key", "fill_key">>}
Fills == {<<"info", "fill_info", "open_cert">>, <<"cert", "fill_cert", "open_key">>,
          <<"key", "fill_key", "install">>}

LEMMA OpenStep ==
  ASSUME ClientTypes, FilesInOrder, NEW c \in Clients, NEW f, NEW from, NEW to,
         <<f, from, to>> \in Opens, OpenFile(c, f, from, to)
  PROVE  FileStep
<1>1. /\ pc[c] = from /\ disk' = [disk EXCEPT ![c][f] = Torn] /\ Goto(c, to)
      /\ UNCHANGED <<served, window, due, interrupted, acmeVars, faults, userSets>>
  BY DEF OpenFile
<1>2. f \in Files /\ to \in PCs /\ to \in Writing /\ from \in Busy /\ Torn \in Int
  BY DEF Opens, Files, PCs, Writing, Busy, Torn
<1>3. /\ pc' \in [Clients -> PCs] /\ pc'[c] = to /\ \A d \in Clients \ {c} : pc'[d] = pc[d]
  BY <1>1, <1>2, GotoType
<1>4. /\ disk' \in [Clients -> [{"creds"} \cup Files -> Int]]
      /\ disk'[c][f] = Torn
      /\ \A g \in {"creds"} \cup Files : g # f => disk'[c][g] = disk[c][g]
      /\ \A d \in Clients \ {c} : disk'[d] = disk[d]
  BY <1>1, <1>2, DiskType
<1>5. ClientTypes'
  BY <1>1, <1>3, <1>4 DEF ClientTypes, acmeVars
<1>6. FileInv(c)'
  <2>1. FileInv(c) /\ issued' = issued /\ served' = served
    BY <1>1, FilesSplit DEF acmeVars
  <2>2. \A g \in Files : disk'[c][g] \in {Torn} \cup 0..issued[c]
    BY <1>4, <2>1 DEF FileInv
  <2>3. issued[c] > 0
    BY <1>1, <1>2, <2>1 DEF FileInv
  <2>4. CASE f = "info" /\ from = "open_info" /\ to = "fill_info"
    BY <1>1, <1>3, <1>4, <2>1, <2>2, <2>3, <2>4 DEF FileInv, Files
  <2>5. CASE f = "cert" /\ from = "open_cert" /\ to = "fill_cert"
    BY <1>1, <1>3, <1>4, <2>1, <2>2, <2>3, <2>5 DEF FileInv, Files
  <2>6. CASE f = "key" /\ from = "open_key" /\ to = "fill_key"
    BY <1>1, <1>3, <1>4, <2>1, <2>2, <2>3, <2>6 DEF FileInv, Files
  <2> QED
    BY <2>4, <2>5, <2>6 DEF Opens
<1>7. FilesInOrder'
  BY <1>1, <1>3, <1>4, <1>6, OtherFiles DEF acmeVars
<1> QED
  BY <1>1, <1>2, <1>3, <1>4, <1>5, <1>7, LoudFileStep

LEMMA FillStep ==
  ASSUME ClientTypes, FilesInOrder, NEW c \in Clients, NEW f, NEW from, NEW to,
         <<f, from, to>> \in Fills, FillFile(c, f, from, to)
  PROVE  FileStep
<1>1. /\ pc[c] = from /\ disk' = [disk EXCEPT ![c][f] = issued[c]] /\ Goto(c, to)
      /\ window' = [window EXCEPT ![c] = IF f = "cert" THEN "before" ELSE window[c]]
      /\ interrupted' = [interrupted EXCEPT ![c] = interrupted[c] /\ f # "key"]
      /\ UNCHANGED <<served, due, acmeVars, faults, userSets>>
  BY DEF FillFile
<1>2. f \in Files /\ to \in PCs /\ from \in Busy /\ issued[c] \in Nat /\ served[c] \in Nat
  BY DEF Fills, Files, PCs, Writing, Busy, ClientTypes
<1>3. /\ pc' \in [Clients -> PCs] /\ pc'[c] = to /\ \A d \in Clients \ {c} : pc'[d] = pc[d]
  BY <1>1, <1>2, GotoType
<1>4. /\ disk' \in [Clients -> [{"creds"} \cup Files -> Int]]
      /\ disk'[c][f] = issued[c]
      /\ \A g \in {"creds"} \cup Files : g # f => disk'[c][g] = disk[c][g]
      /\ \A d \in Clients \ {c} : disk'[d] = disk[d]
  <2>1. issued[c] \in Int /\ f \in {"creds"} \cup Files
    BY <1>2
  <2>2. disk' = [disk EXCEPT ![c][f] = issued[c]]
    BY <1>1
  <2> QED
    BY <2>1, <2>2, DiskType
<1>5. window' \in [Clients -> {"before", "open", "past"}]
  BY <1>1 DEF ClientTypes
<1>6. interrupted' \in [Clients -> BOOLEAN] /\ \A d \in Clients \ {c} : interrupted'[d] = interrupted[d]
  <2>1. interrupted \in [Clients -> BOOLEAN] /\ (interrupted[c] /\ f # "key") \in BOOLEAN
    BY DEF ClientTypes
  <2> QED
    BY <1>1, <2>1
<1>7. ClientTypes'
  BY <1>1, <1>3, <1>4, <1>5, <1>6 DEF ClientTypes, acmeVars
<1>8. FileInv(c) /\ issued' = issued /\ served' = served
  BY <1>1, FilesSplit DEF acmeVars
<1>9. issued[c] > 0 /\ served[c] <= issued[c]
  BY <1>1, <1>2, <1>8 DEF FileInv
<1>10. FileInv(c)'
  <2>1. \A g \in Files : disk'[c][g] \in {Torn} \cup 0..issued[c]
    <3>1. issued[c] \in 0..issued[c]
      BY <1>2
    <3>2. \A g \in Files : disk[c][g] \in {Torn} \cup 0..issued[c]
      BY <1>8 DEF FileInv
    <3> QED
      BY <1>4, <3>1, <3>2
  <2>2. CASE f = "info" /\ from = "fill_info" /\ to = "open_cert"
    BY <1>1, <1>2, <1>3, <1>4, <1>8, <1>9, <2>1, <2>2 DEF FileInv, Files
  <2>3. CASE f = "cert" /\ from = "fill_cert" /\ to = "open_key"
    BY <1>1, <1>2, <1>3, <1>4, <1>8, <1>9, <2>1, <2>3 DEF FileInv, Files
  <2>4. CASE f = "key" /\ from = "fill_key" /\ to = "install"
    BY <1>1, <1>2, <1>3, <1>4, <1>8, <1>9, <2>1, <2>4 DEF FileInv, Files
  <2> QED
    BY <2>2, <2>3, <2>4 DEF Fills
<1>11. FilesInOrder'
  BY <1>1, <1>3, <1>4, <1>10, OtherFiles DEF acmeVars
<1>12. to \in Writing \/ LoadResult(disk'[c]) = "loaded"
  <2>1. CASE to # "install"
    BY <2>1 DEF Fills, Writing
  <2>2. CASE to = "install"
    <3>1. disk'[c]["info"] = issued[c] /\ disk'[c]["cert"] = issued[c] /\ disk'[c]["key"] = issued[c]
      BY <1>3, <1>8, <1>10, <2>2 DEF FileInv
    <3> QED
      BY <1>2, <1>9, <3>1 DEF LoadResult, Torn, Files
  <2> QED
    BY <2>1, <2>2
<1> QED
  BY <1>3, <1>4, <1>6, <1>7, <1>11, <1>12, LoudFileStep

LEMMA UpdateKeyStep ==
  ASSUME ClientTypes, FilesInOrder, NEW c \in Clients, UpdateKey(c)
  PROVE  FileStep
<1>1. /\ pc[c] = "install" /\ Goto(c, "watch")
      /\ served' = [served EXCEPT ![c] = issued[c]] /\ due' = [due EXCEPT ![c] = FALSE]
      /\ UNCHANGED <<disk, window, interrupted, acmeVars, faults, userSets>>
  BY DEF UpdateKey
<1>2. "watch" \in PCs \ Busy /\ pc[c] \notin Writing /\ issued[c] \in Nat
  BY <1>1 DEF PCs, Writing, Busy, ClientTypes
<1>3. /\ pc' \in [Clients -> PCs] /\ pc'[c] = "watch" /\ \A d \in Clients \ {c} : pc'[d] = pc[d]
  BY <1>1, <1>2, GotoType
<1>4. /\ served' \in [Clients -> Nat] /\ served'[c] = issued[c]
      /\ \A d \in Clients \ {c} : served'[d] = served[d]
  BY <1>1, <1>2 DEF ClientTypes
<1>5. due' \in [Clients -> BOOLEAN]
  BY <1>1 DEF ClientTypes
<1>6. ClientTypes'
  BY <1>1, <1>3, <1>4, <1>5 DEF ClientTypes, acmeVars
<1>7. FileInv(c)'
  <2>1. FileInv(c) /\ issued' = issued /\ disk' = disk
    BY <1>1, FilesSplit DEF acmeVars
  <2>2. disk[c]["cert"] = issued[c]
    BY <1>1, <2>1 DEF FileInv
  <2> QED
    BY <1>2, <1>3, <1>4, <2>1, <2>2 DEF FileInv, Busy, Writing
<1>8. FilesInOrder'
  BY <1>1, <1>3, <1>4, <1>7, OtherFiles DEF acmeVars
<1>9. RestartIsSafe /\ LoadResult(disk'[c]) = "error" => interrupted'[c]
  BY <1>1, <1>2 DEF RestartIsSafe
<1> QED
  BY <1>1, <1>3, <1>6, <1>8, <1>9, LoudFileStep

(***************************************************************************)
(* The theorems.                                                           *)
(***************************************************************************)

LEMMA ClientFileStep ==
  ASSUME StorageInv, NEW c \in Clients,
         \/ ClientStep(c) \/ UpdateRenewInfo(c) \/ Validate(c)
         \/ RenewAtPasses(c) \/ TimePasses(c) \/ Fail(c) \/ Crash(c)
  PROVE  FileStep
<1>0. ClientTypes /\ FilesInOrder
  BY SplitTypes DEF StorageInv
<1>1. CASE Start(c) \/ Renew(c) \/ GetAccount(c) \/ WriteCredentials(c) \/ LoadCerts(c)
  BY <1>0, <1>1, StartQuiet, CredentialsQuiet, LoadCertsQuiet, QuietFileStep
<1>2. CASE NewOrder(c) \/ SendChallenge(c) \/ AnswerLost(c) \/ SetReady(c)
  BY <1>0, <1>2, OrderQuiet, QuietFileStep
<1>3. CASE Finalize(c)
  BY <1>0, <1>3, FinalizeStep
<1>4. CASE write_certs(c)
  <2>1. \/ OpenFile(c, "info", "open_info", "fill_info")
        \/ OpenFile(c, "cert", "open_cert", "fill_cert")
        \/ OpenFile(c, "key", "open_key", "fill_key")
        \/ FillFile(c, "info", "fill_info", "open_cert")
        \/ FillFile(c, "cert", "fill_cert", "open_key")
        \/ FillFile(c, "key", "fill_key", "install")
    BY <1>4 DEF write_certs
  <2>2. /\ <<"info", "open_info", "fill_info">> \in Opens
        /\ <<"cert", "open_cert", "fill_cert">> \in Opens
        /\ <<"key", "open_key", "fill_key">> \in Opens
        /\ <<"info", "fill_info", "open_cert">> \in Fills
        /\ <<"cert", "fill_cert", "open_key">> \in Fills
        /\ <<"key", "fill_key", "install">> \in Fills
    BY DEF Opens, Fills
  <2> QED
    BY <1>0, <2>1, <2>2, OpenStep, FillStep
<1>5. CASE UpdateKey(c)
  BY <1>0, <1>5, UpdateKeyStep
<1>6. CASE UpdateRenewInfo(c) \/ Validate(c) \/ RenewAtPasses(c) \/ TimePasses(c)
  BY <1>0, <1>6, TimeQuiet, QuietFileStep
<1>7. CASE Fail(c) \/ Crash(c)
  BY <1>0, <1>7, FailQuiet, CrashQuiet, QuietFileStep
<1> QED
  BY <1>1, <1>2, <1>3, <1>4, <1>5, <1>6, <1>7 DEF ClientStep

LEMMA StepFiles == StorageInv /\ [Next]_vars => FileStep
<1> SUFFICES ASSUME StorageInv, [Next]_vars PROVE FileStep
  OBVIOUS
<1>0. ClientTypes /\ FilesInOrder /\ faults \in Nat /\ userSets \in Nat
  BY SplitTypes DEF StorageInv, ClientTypes
<1>1. CASE UNCHANGED <<clientVars, acmeVars>> /\ faults' \in Nat /\ userSets' \in Nat
  BY <1>0, <1>1, OthersQuiet, QuietFileStep
<1>2. CASE \E c \in Clients :
             \/ ClientStep(c) \/ UpdateRenewInfo(c) \/ Validate(c)
             \/ RenewAtPasses(c) \/ TimePasses(c) \/ Fail(c) \/ Crash(c)
  BY <1>2, ClientFileStep
<1>3. CASE \E k \in calls : Answer(k)
  BY <1>0, <1>3, AnswerQuiet, QuietFileStep
<1>4. CASE \/ \E k \in calls : WriteRow(k) /\ UNCHANGED <<clientVars, acmeVars, faults, userSets>>
           \/ \E k \in calls : HangUp(k)
           \/ ServerBoot
           \/ UNCHANGED vars
  <2>1. UNCHANGED <<clientVars, acmeVars, faults, userSets>>
    BY <1>4 DEF HangUp, ServerBoot, vars
  <2> QED
    BY <1>0, <1>1, <2>1
<1>5. CASE (\E r \in UserRecords : UserSetsRecord(r)) \/ NameServerCrash
  <2>1. /\ UNCHANGED <<clientVars, acmeVars>>
        /\ faults' \in {faults, faults + 1} /\ userSets' \in {userSets, userSets + 1}
    BY <1>5 DEF UserSetsRecord, NameServerCrash, Fault
  <2>2. faults' \in Nat /\ userSets' \in Nat
    BY <1>0, <2>1
  <2> QED
    BY <1>1, <2>1, <2>2
<1> QED
  BY <1>2, <1>3, <1>4, <1>5 DEF Next, HandlerStep

(***************************************************************************)
(* Challenges.                                                             *)
(***************************************************************************)

\* Challenges of two clients differ, and no value that people set or that an
\* order leaves behind is a challenge.
LEMMA ChallengesDiffer ==
  ASSUME NEW c \in Clients
  PROVE  /\ \A d \in Clients : Challenge(d) = Challenge(c) => d = c
         /\ \A r \in UserRecords : r # Challenge(c)
         /\ Stale # c
<1>1. Challenge(c).value = c /\ \A d \in Clients : Challenge(d).value = d
  BY DEF Challenge
<1>2. \A r \in UserRecords : r.value \notin Clients
  BY CertAssumption
<1>3. Stale # c
  BY CertAssumption
<1> QED
  BY <1>1, <1>2, <1>3

\* The end of another client's order does not touch a challenge, and makes none.
LEMMA AgedChallenge ==
  ASSUME NEW c \in Clients, NEW d \in Clients \ {c}, NEW r \in Record
  PROVE  /\ Aged(d, Challenge(c)) = Challenge(c)
         /\ Aged(d, r) = Challenge(c) => r = Challenge(c)
<1>1. Challenge(c).value = c
  BY DEF Challenge
<1>2. Aged(d, Challenge(c)) = Challenge(c)
  BY <1>1 DEF Aged
<1>3. Aged(d, r) = r \/ Aged(d, r).value = Stale
  BY DEF Aged, Record
<1> QED
  BY <1>1, <1>2, <1>3, ChallengesDiffer

\* Records other than TXT do not age.
LEMMA AgedCname ==
  ASSUME NEW d, NEW r \in Record, r.kind = "CNAME"
  PROVE  Aged(d, r) = r
BY DEF Aged

\* A row that is written is the one given, and all others were there.
LEMMA WriteMakesOne ==
  ASSUME NEW table \in Seq(Record), NEW r \in Record, NEW new,
         new = write_dns_record(table, r), NEW x, x # r,
         \E i \in DOMAIN new : new[i] = x
  PROVE  \E i \in DOMAIN table : table[i] = x
<1>1. CASE \E i \in DOMAIN table : SameKey(table[i], r)
  BY <1>1 DEF write_dns_record
<1>2. CASE ~\E i \in DOMAIN table : SameKey(table[i], r)
  <2>1. /\ DOMAIN new = 1..(Len(table) + 1) /\ Len(table) \in Nat
        /\ DOMAIN table = 1..Len(table)
        /\ \A i \in 1..(Len(table) + 1) : new[i] = IF i = Len(table) + 1 THEN r ELSE table[i]
    BY <1>2 DEF write_dns_record
  <2> QED
    BY <2>1
<1> QED
  BY <1>1, <1>2

\* A challenge is hidden by a CNAME, and only by that.
LEMMA ShadowedMeansCname ==
  ASSUME NEW z, NEW c
  PROVE  Shadowed(z, Challenge(c)) <=>
           \E s \in z : s.name = ChallengeName[c] /\ s.kind = "CNAME"
BY DEF Shadowed, Challenge

\* upsert keeps challenges and what hides them.
LEMMA UpsertKeeps ==
  ASSUME NEW z, NEW r, NEW c, NEW new, new = upsert(z, r),
         Challenge(c) \in z \/ Shadowed(z, Challenge(c))
  PROVE  Challenge(c) \in new \/ Shadowed(new, Challenge(c))
<1>1. CASE Shadowed(z, r)
  BY <1>1 DEF upsert
<1>2. CASE ~Shadowed(z, r)
  <2>1. new = {s \in z : ~(r.kind = "CNAME" /\ SameKey(s, r))} \cup {r}
    BY <1>2 DEF upsert
  <2>2. CASE Challenge(c) \in z
    <3>1. Challenge(c).kind = "TXT"
      BY DEF Challenge
    <3> QED
      BY <2>1, <2>2, <3>1 DEF SameKey
  <2>3. CASE Shadowed(z, Challenge(c))
    <3>1. PICK s \in z : s.name = ChallengeName[c] /\ s.kind = "CNAME"
      BY <2>3, ShadowedMeansCname
    <3>2. CASE r.kind = "CNAME" /\ SameKey(s, r)
      <4>1. r \in new /\ r.name = ChallengeName[c] /\ r.kind = "CNAME"
        BY <2>1, <3>1, <3>2 DEF SameKey
      <4> QED
        BY <4>1, ShadowedMeansCname
    <3>3. CASE ~(r.kind = "CNAME" /\ SameKey(s, r))
      <4>1. s \in new
        BY <2>1, <3>3
      <4> QED
        BY <3>1, <4>1, ShadowedMeansCname
    <3> QED
      BY <3>2, <3>3
  <2> QED
    BY <2>2, <2>3
<1> QED
  BY <1>1, <1>2

\* After upsert the challenge is answered with, or a CNAME hides it.
LEMMA UpsertAdds ==
  ASSUME NEW z, NEW c, NEW new, new = upsert(z, Challenge(c))
  PROVE  Challenge(c) \in new \/ Shadowed(new, Challenge(c))
BY DEF upsert

\* The first half of Kept: there is no fault to speak of.
LEMMA KeptByZone ==
  ASSUME NEW c, Challenge(c) \in zone' \/ Shadowed(zone', Challenge(c))
  PROVE  Kept(c)'
BY DEF Kept, Shadowed, Challenge

\* The second half of Kept: the server went down.
Lost(c) ==
  /\ faults > 0
  /\ \A k \in calls : k.rec # Challenge(c)
  /\ Stored(Challenge(c)) =>
       ~up \/ \E i \in DOMAIN toLoad : toLoad[i] = Challenge(c)

LEMMA KeptByLoad == ASSUME NEW c, Lost(c)' PROVE Kept(c)'
BY DEF Kept, Lost

LEMMA KeptSplit ==
  ASSUME NEW c, Kept(c)
  PROVE  (Challenge(c) \in zone \/ Shadowed(zone, Challenge(c))) \/ Lost(c)
BY DEF Kept, Lost

LEMMA AddRecordKept ==
  ASSUME DnsInv, NEW c \in Clients, Kept(c), NEW r \in Record, r # Challenge(c),
         AddRecord(r), faults' = faults
  PROVE  Kept(c)'
<1>1. CASE Challenge(c) \in zone \/ Shadowed(zone, Challenge(c))
  BY <1>1, KeptByZone DEF AddRecord
<1>2. CASE Lost(c)
  BY <1>2, KeptByLoad DEF AddRecord, Lost, Stored, Challenge
<1> QED
  BY <1>1, <1>2, KeptSplit

LEMMA WriteRowKept ==
  ASSUME DnsInv, NEW c \in Clients, Kept(c), NEW k \in calls, WriteRow(k), faults' = faults
  PROVE  Kept(c)'
<1>0. /\ k \in Call /\ k.rec \in Record /\ rows \in Seq(Record)
      /\ rows' = write_dns_record(rows, k.rec)
      /\ calls' = (calls \ {k}) \cup {[k EXCEPT !.wrote = TRUE]}
      /\ UNCHANGED <<up, zone, toLoad>>
  BY DEF DnsInv, DnsTypeOK, WriteRow, Call
<1>1. CASE Challenge(c) \in zone \/ Shadowed(zone, Challenge(c))
  BY <1>0, <1>1, KeptByZone
<1>2. CASE Lost(c)
  <2>1. [k EXCEPT !.wrote = TRUE].rec = k.rec
    BY <1>0 DEF Call
  <2>2. k.rec # Challenge(c)
    BY <1>2 DEF Lost
  <2>3. (\E i \in DOMAIN rows' : rows'[i] = Challenge(c))
          => \E i \in DOMAIN rows : rows[i] = Challenge(c)
    BY <1>0, <2>2, WriteMakesOne
  <2>4. \A m \in calls' : m.rec # Challenge(c)
    BY <1>0, <1>2, <2>1, <2>2 DEF Lost
  <2>5. Lost(c)'
    BY <1>0, <1>2, <2>3, <2>4 DEF Lost, Stored, Challenge
  <2> QED
    BY <2>5, KeptByLoad
<1> QED
  BY <1>1, <1>2, KeptSplit

LEMMA UpsertZoneKept ==
  ASSUME NEW c \in Clients, Kept(c), NEW k, UpsertZone(k), faults' = faults
  PROVE  Kept(c)'
<1>1. CASE Challenge(c) \in zone \/ Shadowed(zone, Challenge(c))
  <2>1. zone' = upsert(zone, k.rec)
    BY DEF UpsertZone
  <2> QED
    BY <1>1, <2>1, UpsertKeeps, KeptByZone
<1>2. CASE Lost(c)
  BY <1>2, KeptByLoad DEF UpsertZone, Lost, Stored, Challenge
<1> QED
  BY <1>1, <1>2, KeptSplit

LEMMA DropCallKept ==
  ASSUME NEW c \in Clients, Kept(c), NEW k, DropCall(k), faults' = faults
  PROVE  Kept(c)'
<1>1. CASE Challenge(c) \in zone \/ Shadowed(zone, Challenge(c))
  BY <1>1, KeptByZone DEF DropCall
<1>2. CASE Lost(c)
  BY <1>2, KeptByLoad DEF DropCall, Lost, Stored, Challenge
<1> QED
  BY <1>1, <1>2, KeptSplit

LEMMA ServerCrashKept ==
  ASSUME NEW c \in Clients, ServerCrash, faults \in Nat, faults' = faults + 1
  PROVE  Kept(c)'
<1>1. up' = FALSE /\ calls' = {} /\ faults' > 0
  BY DEF ServerCrash
<1>2. Lost(c)'
  BY <1>1 DEF Lost
<1> QED
  BY <1>2, KeptByLoad

\* A restart loads what the database kept.
LEMMA BootKept ==
  ASSUME DnsInv, NEW c \in Clients, Kept(c), ServerStart \/ LoadRow, faults' = faults
  PROVE  Kept(c)'
<1>1. CASE ServerStart
  <2>1. CASE Challenge(c) \in zone \/ Shadowed(zone, Challenge(c))
    BY <1>1, <2>1, KeptByZone DEF ServerStart
  <2>2. CASE Lost(c)
    <3>1. /\ \A k \in calls' : k.rec # Challenge(c)
          /\ faults' > 0 /\ toLoad' = rows /\ rows' = rows
      BY <1>1, <2>2 DEF ServerStart, Lost
    <3>2. Lost(c)'
      BY <3>1 DEF Lost, Stored, Challenge
    <3> QED
      BY <3>2, KeptByLoad
  <2> QED
    BY <2>1, <2>2, KeptSplit
<1>2. CASE LoadRow
  <2>0. /\ toLoad \in Seq(Record) /\ toLoad # <<>> /\ up
        /\ zone' = upsert(zone, Head(toLoad)) /\ toLoad' = Tail(toLoad)
        /\ UNCHANGED <<up, rows, calls>>
    BY <1>2 DEF DnsInv, DnsTypeOK, LoadRow
  <2>1. CASE Challenge(c) \in zone \/ Shadowed(zone, Challenge(c))
    BY <2>0, <2>1, UpsertKeeps, KeptByZone
  <2>2. CASE Lost(c) /\ Head(toLoad) = Challenge(c)
    BY <2>0, <2>2, UpsertAdds, KeptByZone
  <2>3. CASE Lost(c) /\ Head(toLoad) # Challenge(c)
    <3>1. (\E i \in DOMAIN toLoad : toLoad[i] = Challenge(c))
            => \E i \in DOMAIN toLoad' : toLoad'[i] = Challenge(c)
      <4> SUFFICES ASSUME NEW i \in DOMAIN toLoad, toLoad[i] = Challenge(c)
                   PROVE  \E j \in DOMAIN toLoad' : toLoad'[j] = Challenge(c)
        OBVIOUS
      <4>1. /\ Head(toLoad) = toLoad[1] /\ i \in 1..Len(toLoad) /\ Len(toLoad) \in Nat
            /\ DOMAIN toLoad' = 1..(Len(toLoad) - 1)
            /\ \A j \in 1..(Len(toLoad) - 1) : toLoad'[j] = toLoad[j + 1]
        BY <2>0
      <4>2. i # 1
        BY <2>3, <4>1
      <4>3. i - 1 \in DOMAIN toLoad' /\ toLoad'[i - 1] = toLoad[(i - 1) + 1] /\ (i - 1) + 1 = i
        BY <4>1, <4>2
      <4> QED
        BY <4>3
    <3>2. Lost(c)'
      BY <2>0, <2>3, <3>1 DEF Lost, Stored, Challenge
    <3> QED
      BY <3>2, KeptByLoad
  <2> QED
    BY <2>1, <2>2, <2>3, KeptSplit
<1> QED
  BY <1>1, <1>2

\* The end of another client's order.
LEMMA AgeKept ==
  ASSUME DnsInv, NEW c \in Clients, NEW d \in Clients \ {c}, Kept(c), Age(d), faults' = faults
  PROVE  Kept(c)'
<1>0. /\ rows \in Seq(Record) /\ toLoad \in Seq(Record) /\ zone \subseteq Record /\ calls \subseteq Call
      /\ rows' = [i \in DOMAIN rows |-> Aged(d, rows[i])]
      /\ toLoad' = [i \in DOMAIN toLoad |-> Aged(d, toLoad[i])]
      /\ zone' = {Aged(d, r) : r \in zone}
      /\ calls' = {[k EXCEPT !.rec = Aged(d, k.rec)] : k \in calls}
      /\ up' = up
  BY DEF DnsInv, DnsTypeOK, Age
<1>1. CASE Challenge(c) \in zone
  <2>1. Challenge(c) \in zone'
    BY <1>0, <1>1, AgedChallenge
  <2> QED
    BY <2>1, KeptByZone
<1>2. CASE Shadowed(zone, Challenge(c))
  <2>1. PICK s \in zone : s.name = ChallengeName[c] /\ s.kind = "CNAME"
    BY <1>2, ShadowedMeansCname
  <2>2. Aged(d, s) = s
    BY <1>0, <2>1, AgedCname
  <2>3. s \in zone'
    BY <1>0, <2>2
  <2> QED
    BY <2>1, <2>3, ShadowedMeansCname, KeptByZone
<1>3. CASE Lost(c)
  <2>1. \A m \in calls' : m.rec # Challenge(c)
    <3> SUFFICES ASSUME NEW m \in calls', m.rec = Challenge(c) PROVE FALSE
      OBVIOUS
    <3>1. PICK k \in calls : m = [k EXCEPT !.rec = Aged(d, k.rec)]
      BY <1>0
    <3>2. k \in [rec : Record, wrote : BOOLEAN] /\ k.rec \in Record
      BY <1>0 DEF Call
    <3>3. m.rec = Aged(d, k.rec)
      BY <3>1, <3>2
    <3>4. k.rec = Challenge(c)
      BY <3>2, <3>3, AgedChallenge
    <3> QED
      BY <1>3, <3>4 DEF Lost
  <2>2. (\E i \in DOMAIN rows' : rows'[i] = Challenge(c))
          => \E i \in DOMAIN rows : rows[i] = Challenge(c)
    BY <1>0, AgedChallenge
  <2>3. (\E i \in DOMAIN toLoad : toLoad[i] = Challenge(c))
          => \E i \in DOMAIN toLoad' : toLoad'[i] = Challenge(c)
    BY <1>0, AgedChallenge
  <2>4. Lost(c)'
    BY <1>0, <1>3, <2>1, <2>2, <2>3 DEF Lost, Stored, Challenge
  <2> QED
    BY <2>4, KeptByLoad
<1> QED
  BY <1>1, <1>2, <1>3, KeptSplit

(***************************************************************************)
(* Orders.                                                                 *)
(***************************************************************************)

Initializing == {"down", "account", "creds", "load"}

\* The certificate in use, or the one being installed.
Newest(c) == IF pc[c] \in Busy THEN issued[c] ELSE served[c]

\* What a client's own step does to its order.
Track(c) ==
  /\ order'[c] = "pending" => pc'[c] = "poll" /\ (order[c] = "pending" \/ pc[c] = "announce")
  /\ pc'[c] = "announce" => pc[c] = "announce"
  /\ served'[c] # 0 => pc'[c] \notin Initializing
  /\ faults' = 0 => faults = 0 /\ \A n \in replaced'[c] : n < Newest(c)'

OwnStep(c) ==
  \/ ClientStep(c) \/ UpdateRenewInfo(c) \/ Validate(c)
  \/ RenewAtPasses(c) \/ TimePasses(c) \/ Fail(c) \/ Crash(c)

\* What holds of one client between its steps.
OrderInv(c) ==
  /\ order[c] = "pending" => pc[c] = "poll"
  /\ served[c] # 0 => pc[c] \notin Initializing
  /\ faults = 0 => \A n \in replaced[c] : n < Newest(c)

LEMMA OrderSplit ==
  ASSUME ChallengeKept, NoFaultInv, NEW c \in Clients
  PROVE  OrderInv(c)
BY DEF ChallengeKept, NoFaultInv, OrderInv, Undisturbed, Initializing, Newest, Busy

\* A step that leaves order, certificates and numbers alone, and stays outside
\* of write_certs.
LEMMA TrackQuiet ==
  ASSUME ClientTypes, NEW c \in Clients, OrderInv(c), pc'[c] \notin Busy,
         pc[c] \notin Busy, pc'[c] # "announce",
         order'[c] = "pending" =>
           pc'[c] = "poll" /\ (order[c] = "pending" \/ pc[c] = "announce"),
         pc'[c] \in Initializing => served[c] = 0,
         served'[c] = served[c], replaced'[c] = replaced[c], faults' = faults
  PROVE  Track(c)
<1>1. Newest(c)' = served[c] /\ Newest(c) = served[c]
  BY DEF Newest
<1> QED
  BY <1>1 DEF Track, OrderInv

LEMMA ErrPlace ==
  ASSUME ClientTypes, NEW c \in Clients, Err(c)
  PROVE  /\ pc'[c] \notin Busy /\ pc'[c] \notin {"announce", "poll", "answer"}
         /\ pc'[c] \in Initializing => served[c] = 0
         /\ pc'[c] = "ended" => served[c] # 0
<1>1. {"down", "ended"} \cap Busy = {}
  BY DEF Busy, Writing
<1>2. pc'[c] = IF served[c] = 0 THEN "down" ELSE "ended"
  BY DEF Err, Goto, ClientTypes
<1>3. "ended" \notin Initializing
  BY DEF Initializing
<1> QED
  BY <1>1, <1>2, <1>3

LEMMA InitializeTracks ==
  ASSUME ClientTypes, NEW c \in Clients, OrderInv(c),
         Start(c) \/ GetAccount(c) \/ WriteCredentials(c)
  PROVE  Track(c)
<1>1. /\ pc[c] \in {"down", "account", "creds"} /\ faults' = faults
      /\ UNCHANGED <<served, order, replaced>>
  BY DEF Start, GetAccount, WriteCredentials, acmeVars
<1>2. pc[c] \in Initializing /\ pc[c] \notin Busy /\ served[c] = 0 /\ order[c] # "pending"
  BY <1>1 DEF Initializing, OrderInv, Busy, Writing
<1>3. Err(c) \/ Goto(c, "account") \/ Goto(c, "load") \/ Goto(c, "creds")
  BY DEF Start, GetAccount, WriteCredentials
<1>4. pc'[c] \in {"down", "account", "load", "creds"}
  BY <1>2, <1>3 DEF Err, Goto, ClientTypes
<1>5. pc'[c] \notin Busy /\ pc'[c] # "announce"
  BY <1>4 DEF Busy, Writing
<1> QED
  BY <1>1, <1>2, <1>5, TrackQuiet

LEMMA LoadTracks ==
  ASSUME ClientTypes, NEW c \in Clients, OrderInv(c), LoadCerts(c)
  PROVE  Track(c)
<1>1. /\ pc[c] = "load" /\ faults' = faults /\ UNCHANGED <<order, replaced, issued>>
  BY DEF LoadCerts, acmeVars
<1>2. pc[c] \in Initializing /\ pc[c] \notin Busy /\ served[c] = 0 /\ order[c] # "pending"
  BY <1>1 DEF Initializing, OrderInv, Busy, Writing
<1>3. Newest(c) = 0 /\ replaced[c] \subseteq Nat
  BY <1>2 DEF Newest, ClientTypes
<1>4. faults = 0 => replaced[c] = {}
  BY <1>3 DEF OrderInv
<1>5. /\ pc'[c] \in {"down", "order", "watch"}
      /\ pc'[c] = "down" => served' = served
  BY <1>2 DEF LoadCerts, Err, Goto, ClientTypes
<1> QED
  BY <1>1, <1>2, <1>4, <1>5 DEF Track, Initializing

LEMMA OrderTracks ==
  ASSUME ClientTypes, NEW c \in Clients, OrderInv(c),
         NewOrder(c) \/ SendChallenge(c) \/ AnswerLost(c) \/ SetReady(c)
  PROVE  Track(c)
<1>1. /\ pc[c] \in {"order", "challenge", "answer", "announce"}
      /\ UNCHANGED <<served, replaced, faults>>
  BY DEF NewOrder, SendChallenge, AnswerLost, SetReady, acmeVars
<1>2. pc[c] \notin Busy /\ order[c] # "pending"
  BY <1>1 DEF Busy, Writing, OrderInv
<1>3. CASE Err(c)
  <2>1. /\ pc'[c] \notin Busy /\ pc'[c] \notin {"announce", "poll", "answer"}
        /\ pc'[c] \in Initializing => served[c] = 0
    BY <1>3, ErrPlace
  <2>2. order'[c] # "pending"
    <3>1. pc'[c] # "poll" /\ pc'[c] # "challenge"
      BY <1>3 DEF Err, Goto, ClientTypes
    <3> QED
      BY <1>2, <3>1 DEF NewOrder, SendChallenge, AnswerLost, SetReady, acmeVars, ClientTypes, Goto
  <2> QED
    BY <1>1, <1>2, <2>1, <2>2, TrackQuiet
<1>4. CASE ~Err(c)
  <2>1. PICK l \in {"poll", "challenge", "answer"} : Goto(c, l)
    BY <1>4 DEF NewOrder, SendChallenge, AnswerLost, SetReady
  <2>2. l \notin Busy /\ l # "announce" /\ l \notin Initializing
    BY DEF Busy, Writing, Initializing
  <2>3. pc'[c] = l
    BY <2>1 DEF Goto, ClientTypes
  <2>4. order'[c] = "pending" => l = "poll" /\ pc[c] = "announce"
    BY <1>2, <1>4, <2>3 DEF NewOrder, SendChallenge, AnswerLost, SetReady, acmeVars,
                            ClientTypes, Goto
  <2> QED
    BY <1>1, <1>2, <2>2, <2>3, <2>4, TrackQuiet
<1> QED
  BY <1>3, <1>4

LEMMA FinalizeTracks ==
  ASSUME ClientTypes, FilesInOrder, NEW c \in Clients, OrderInv(c), Finalize(c)
  PROVE  Track(c)
<1>1. /\ pc[c] = "poll" /\ UNCHANGED <<served, faults>>
      /\ order' = [order EXCEPT ![c] = IF order[c] \in {"ready", "invalid"}
                                       THEN "none" ELSE order[c]]
      /\ order[c] \in {"ready", "invalid"}
  BY DEF Finalize
<1>2. order'[c] = "none" /\ pc[c] \notin Busy
  BY <1>1 DEF ClientTypes, Busy, Writing
<1>3. CASE order[c] = "ready"
  <2>1. /\ issued' = [issued EXCEPT ![c] = issued[c] + 1]
        /\ replaced' = [replaced EXCEPT ![c] = replaced[c] \cup ({served[c]} \ {0})]
        /\ Goto(c, "open_info")
    BY <1>3 DEF Finalize
  <2>2. /\ issued'[c] = issued[c] + 1 /\ pc'[c] = "open_info"
        /\ replaced'[c] \subseteq replaced[c] \cup {served[c]}
    BY <2>1 DEF ClientTypes, Goto
  <2>3. Newest(c)' = issued[c] + 1 /\ Newest(c) = served[c]
    BY <1>2, <2>2 DEF Newest, Busy
  <2>4. served[c] \in Nat /\ issued[c] \in Nat /\ served[c] <= issued[c] /\ replaced[c] \subseteq Nat
    BY DEF ClientTypes, FilesInOrder
  <2>5. faults = 0 => \A n \in replaced'[c] : n < issued[c] + 1
    BY <2>2, <2>3, <2>4 DEF OrderInv
  <2> QED
    BY <1>1, <1>2, <2>2, <2>3, <2>5 DEF Track, Initializing
<1>4. CASE order[c] = "invalid"
  <2>1. Err(c) /\ replaced' = replaced
    BY <1>4 DEF Finalize
  <2>2. /\ pc'[c] \notin Busy /\ pc'[c] \notin {"announce", "poll", "answer"}
        /\ pc'[c] \in Initializing => served[c] = 0
    BY <2>1, ErrPlace
  <2> QED
    BY <1>1, <1>2, <2>1, <2>2, TrackQuiet
<1> QED
  BY <1>1, <1>3, <1>4

LEMMA FilesTrack ==
  ASSUME ClientTypes, NEW c \in Clients, OrderInv(c), write_certs(c)
  PROVE  Track(c)
<1>1. /\ pc[c] \in {"open_info"} \cup Writing /\ UNCHANGED <<served, order, replaced, issued, faults>>
      /\ \E l \in {"install"} \cup Writing : Goto(c, l)
  BY DEF write_certs, OpenFile, FillFile, acmeVars, Writing
<1>2. pc'[c] \in {"install"} \cup Writing
  BY <1>1 DEF Goto, ClientTypes
<1>3. /\ pc[c] \in Busy /\ pc'[c] \in Busy /\ pc[c] # "poll"
      /\ pc'[c] \notin Initializing /\ pc'[c] # "announce"
  BY <1>1, <1>2 DEF Busy, Writing, Initializing
<1>4. Newest(c)' = Newest(c)
  BY <1>1, <1>3 DEF Newest
<1> QED
  BY <1>1, <1>3, <1>4 DEF Track, OrderInv

LEMMA InstallTracks ==
  ASSUME ClientTypes, NEW c \in Clients, OrderInv(c), UpdateKey(c)
  PROVE  Track(c)
<1>1. /\ pc[c] = "install" /\ served' = [served EXCEPT ![c] = issued[c]] /\ Goto(c, "watch")
      /\ UNCHANGED <<order, replaced, issued, faults>>
  BY DEF UpdateKey, acmeVars
<1>2. pc'[c] = "watch" /\ served'[c] = issued[c]
  BY <1>1 DEF Goto, ClientTypes
<1>3. pc[c] \in Busy /\ pc'[c] \notin Busy
  BY <1>1, <1>2 DEF Busy, Writing
<1>4. Newest(c)' = Newest(c)
  BY <1>1, <1>2, <1>3 DEF Newest
<1> QED
  BY <1>1, <1>2, <1>4 DEF Track, OrderInv, Initializing

LEMMA RenewTracks ==
  ASSUME ClientTypes, NEW c \in Clients, OrderInv(c), Renew(c)
  PROVE  Track(c)
<1>1. pc[c] = "watch" /\ Goto(c, "order") /\ UNCHANGED <<served, order, replaced, issued, faults>>
  BY DEF Renew, acmeVars
<1>2. pc'[c] = "order"
  BY <1>1 DEF Goto, ClientTypes
<1>3. pc[c] \notin Busy /\ pc'[c] \notin Busy /\ pc'[c] \notin Initializing
  BY <1>1, <1>2 DEF Busy, Writing, Initializing
<1>4. order'[c] # "pending"
  BY <1>1 DEF OrderInv
<1> QED
  BY <1>1, <1>2, <1>3, <1>4, TrackQuiet

LEMMA TimeTracks ==
  ASSUME ClientTypes, NEW c \in Clients, OrderInv(c),
         UpdateRenewInfo(c) \/ Validate(c) \/ RenewAtPasses(c) \/ TimePasses(c)
  PROVE  Track(c)
<1>1. UNCHANGED <<pc, served, issued, replaced, faults>>
  BY DEF UpdateRenewInfo, Validate, RenewAtPasses, TimePasses, acmeVars, clientVars
<1>2. order'[c] = order[c] \/ order'[c] \in {"ready", "invalid"}
  BY DEF UpdateRenewInfo, Validate, RenewAtPasses, TimePasses, acmeVars, ClientTypes
<1>3. Newest(c)' = Newest(c)
  BY <1>1 DEF Newest
<1> QED
  BY <1>1, <1>2, <1>3 DEF Track, OrderInv

LEMMA FaultTracks ==
  ASSUME ClientTypes, NEW c \in Clients, Fail(c) \/ Crash(c)
  PROVE  Track(c)
<1>1. order' = [order EXCEPT ![c] = "none"] /\ faults' = faults + 1
  BY DEF Fail, Crash, Fault
<1>2. order'[c] = "none" /\ faults' # 0
  BY <1>1 DEF ClientTypes
<1>3. pc'[c] # "announce" /\ (served'[c] # 0 => pc'[c] \notin Initializing)
  <2>1. CASE Fail(c)
    <3>1. Err(c) /\ served' = served
      BY <2>1 DEF Fail
    <3> QED
      BY <3>1, ErrPlace
  <2>2. CASE Crash(c)
    BY <2>2 DEF Crash, Goto, ClientTypes
  <2> QED
    BY <2>1, <2>2
<1> QED
  BY <1>2, <1>3 DEF Track

LEMMA OwnTracks ==
  ASSUME StorageInv, ChallengeKept, NoFaultInv, NEW c \in Clients, OwnStep(c)
  PROVE  Track(c)
<1>1. ClientTypes /\ FilesInOrder
  BY SplitTypes DEF StorageInv
<1>2. OrderInv(c)
  BY OrderSplit
<1> QED
  BY <1>1, <1>2, InitializeTracks, LoadTracks, OrderTracks, FinalizeTracks, FilesTrack,
     InstallTracks, RenewTracks, TimeTracks, FaultTracks DEF OwnStep, ClientStep

\* A client's step leaves the orders of the others alone.
LEMMA Elsewhere ==
  ASSUME ClientTypes, NEW d \in Clients, OwnStep(d), NEW c \in Clients, c # d
  PROVE  /\ pc'[c] = pc[c] /\ order'[c] = order[c] /\ served'[c] = served[c]
         /\ issued'[c] = issued[c] /\ replaced'[c] = replaced[c]
         /\ faults' = 0 /\ faults \in Nat => faults = 0
<1>. USE DEF ClientTypes
<1>1. CASE Start(d) \/ GetAccount(d) \/ WriteCredentials(d) \/ LoadCerts(d) \/ Renew(d)
  BY <1>1 DEF Start, GetAccount, WriteCredentials, LoadCerts, Renew, Err, Goto, acmeVars
<1>2. CASE NewOrder(d) \/ SendChallenge(d) \/ AnswerLost(d) \/ SetReady(d)
  BY <1>2 DEF NewOrder, SendChallenge, AnswerLost, SetReady, Err, Goto, acmeVars
<1>3. CASE Finalize(d)
  BY <1>3 DEF Finalize, Err, Goto
<1>4. CASE write_certs(d) \/ UpdateKey(d)
  BY <1>4 DEF write_certs, OpenFile, FillFile, UpdateKey, Goto, acmeVars
<1>5. CASE UpdateRenewInfo(d) \/ Validate(d) \/ RenewAtPasses(d) \/ TimePasses(d)
  BY <1>5 DEF UpdateRenewInfo, Validate, RenewAtPasses, TimePasses, acmeVars, clientVars
<1>6. CASE Fail(d) \/ Crash(d)
  BY <1>6 DEF Fail, Crash, Fault, Err, Goto
<1> QED
  BY <1>1, <1>2, <1>3, <1>4, <1>5, <1>6 DEF OwnStep, ClientStep

(***************************************************************************)
(* Orders and the name server together.                                    *)
(***************************************************************************)

\* The steps that are no client's own.
LEMMA NextSplit ==
  ASSUME [Next]_vars
  PROVE  \/ \E d \in Clients : OwnStep(d)
         \/ \E k \in calls : Answer(k)
         \/ UNCHANGED <<clientVars, acmeVars>>
  BY DEF Next, OwnStep, HandlerStep, HangUp, UserSetsRecord, ServerBoot, NameServerCrash, vars

\* A client's own step reaches the name server only with an order.
LEMMA OwnDns ==
  ASSUME NEW d \in Clients, OwnStep(d)
  PROVE  \/ UNCHANGED dnsVars
         \/ pc[d] = "order" /\ Age(d) /\ faults' = faults
         \/ pc[d] = "challenge" /\ AddRecord(Challenge(d)) /\ faults' = faults
<1>1. CASE NewOrder(d)
  BY <1>1 DEF NewOrder
<1>2. CASE SendChallenge(d)
  BY <1>2 DEF SendChallenge
<1>3. CASE Start(d) \/ GetAccount(d) \/ WriteCredentials(d) \/ LoadCerts(d) \/ AnswerLost(d)
             \/ SetReady(d) \/ Finalize(d) \/ UpdateKey(d) \/ Renew(d)
  BY <1>3 DEF Start, GetAccount, WriteCredentials, LoadCerts, AnswerLost, SetReady, Finalize,
         UpdateKey, Renew
<1>4. CASE write_certs(d)
  BY <1>4 DEF write_certs, OpenFile, FillFile
<1>5. CASE UpdateRenewInfo(d) \/ Validate(d) \/ RenewAtPasses(d) \/ TimePasses(d)
             \/ Fail(d) \/ Crash(d)
  BY <1>5 DEF UpdateRenewInfo, Validate, RenewAtPasses, TimePasses, Fail, Crash
<1> QED
  BY <1>1, <1>2, <1>3, <1>4, <1>5 DEF OwnStep, ClientStep

\* The steps of the name server itself.
LEMMA ServerDns ==
  ASSUME [Next]_vars, ~ \E d \in Clients : OwnStep(d)
  PROVE  \/ UNCHANGED dnsVars /\ faults' = faults
         \/ \E k \in calls : (WriteRow(k) \/ UpsertZone(k)) /\ faults' = faults
         \/ \E k \in calls : HangUp(k) /\ DropCall(k) /\ faults' = faults
         \/ \E r \in UserRecords : AddRecord(r) /\ faults' = faults
         \/ (ServerStart \/ LoadRow) /\ faults' = faults
         \/ ServerCrash /\ faults' = faults + 1
<1>1. CASE UNCHANGED vars
  BY <1>1 DEF vars, dnsVars
<1>2. CASE \E k \in calls : HandlerStep(k)
  BY <1>2 DEF HandlerStep, Answer
<1>3. CASE \E k \in calls : HangUp(k)
  BY <1>3 DEF HangUp
<1>4. CASE \E r \in UserRecords : UserSetsRecord(r)
  BY <1>4 DEF UserSetsRecord
<1>5. CASE ServerBoot \/ NameServerCrash
  BY <1>5 DEF ServerBoot, NameServerCrash, Fault
<1> QED
  BY <1>1, <1>2, <1>3, <1>4, <1>5 DEF Next, OwnStep

\* A challenge that is announced stays so until its client gives it up.
LEMMA StepKept ==
  ASSUME StorageInv, [Next]_vars, NEW c \in Clients, pc[c] \in {"announce", "poll"}, Kept(c)
  PROVE  Kept(c)'
<1>0. DnsInv /\ faults \in Nat
  BY SplitTypes DEF StorageInv, DnsInv, ClientTypes
<1>1. ASSUME UNCHANGED dnsVars, faults' = faults \/ faults' = faults + 1 PROVE Kept(c)'
  <2>1. faults > 0 => faults' > 0
    BY <1>0, <1>1
  <2> QED
    BY <1>1, <2>1 DEF Kept, Stored, Shadowed, Challenge, dnsVars
<1>2. CASE \E d \in Clients : OwnStep(d)
  <2>1. PICK d \in Clients : OwnStep(d)
    BY <1>2
  <2>2. CASE UNCHANGED dnsVars
    <3>1. faults' = faults \/ faults' = faults + 1
      BY <2>1 DEF OwnStep, ClientStep, Start, GetAccount, WriteCredentials, LoadCerts, NewOrder,
            SendChallenge, AnswerLost, SetReady, Finalize, write_certs, OpenFile, FillFile,
            UpdateKey, Renew, UpdateRenewInfo, Validate, RenewAtPasses, TimePasses,
            Fail, Crash, Fault
    <3> QED
      BY <1>1, <2>2, <3>1
  <2>3. CASE pc[d] = "order" /\ Age(d) /\ faults' = faults
    <3>1. d # c
      BY <2>3
    <3> QED
      BY <1>0, <2>3, <3>1, AgeKept
  <2>4. CASE pc[d] = "challenge" /\ AddRecord(Challenge(d)) /\ faults' = faults
    <3>1. d # c
      BY <2>4
    <3>2. Challenge(d) # Challenge(c) /\ Challenge(d) \in Record
      BY <3>1, ChallengesDiffer, ChallengeType
    <3> QED
      BY <1>0, <2>4, <3>2, AddRecordKept
  <2> QED
    BY <2>1, <2>2, <2>3, <2>4, OwnDns
<1>3. CASE ~ \E d \in Clients : OwnStep(d)
  <2>1. CASE UNCHANGED dnsVars /\ faults' = faults
    BY <1>1, <2>1
  <2>2. CASE \E k \in calls : (WriteRow(k) \/ UpsertZone(k)) /\ faults' = faults
    BY <1>0, <2>2, WriteRowKept, UpsertZoneKept
  <2>3. CASE \E k \in calls : HangUp(k) /\ DropCall(k) /\ faults' = faults
    BY <2>3, DropCallKept
  <2>4. CASE \E r \in UserRecords : AddRecord(r) /\ faults' = faults
    <3>1. PICK r \in UserRecords : AddRecord(r)
      BY <2>4
    <3>2. r \in Record /\ r # Challenge(c)
      BY UserRecordType, ChallengesDiffer
    <3> QED
      BY <1>0, <2>4, <3>1, <3>2, AddRecordKept
  <2>5. CASE (ServerStart \/ LoadRow) /\ faults' = faults
    BY <1>0, <2>5, BootKept
  <2>6. CASE ServerCrash /\ faults' = faults + 1
    BY <1>0, <2>6, ServerCrashKept
  <2> QED
    BY <1>3, <2>1, <2>2, <2>3, <2>4, <2>5, <2>6, ServerDns
<1> QED
  BY <1>2, <1>3

\* When the handler answers, its record is in the zone, or a CNAME is.
LEMMA AnswerKept ==
  ASSUME NEW c \in Clients, NEW k, Answer(k), k.rec = Challenge(c)
  PROVE  Kept(c)'
<1>1. zone' = upsert(zone, Challenge(c))
  BY DEF Answer, UpsertZone
<1> QED
  BY <1>1, UpsertAdds, KeptByZone

LEMMA StepChallenge ==
  ASSUME StorageInv, ChallengeKept, NoFaultInv, [Next]_vars
  PROVE  ChallengeKept'
<1>. SUFFICES ASSUME NEW c \in Clients
              PROVE  /\ order'[c] = "pending" => pc'[c] = "poll"
                     /\ pc'[c] = "announce" \/ order'[c] = "pending" => Kept(c)'
  BY DEF ChallengeKept
<1>0. ClientTypes
  BY SplitTypes DEF StorageInv
<1>1. /\ order[c] = "pending" => pc[c] = "poll"
      /\ pc[c] = "announce" \/ order[c] = "pending" => Kept(c)
  BY DEF ChallengeKept
<1>2. pc[c] = "announce" \/ order[c] = "pending" => Kept(c)'
  BY <1>1, StepKept
<1>3. CASE \E d \in Clients : OwnStep(d)
  <2>1. PICK d \in Clients : OwnStep(d)
    BY <1>3
  <2>2. CASE d = c
    BY <1>1, <1>2, <2>1, <2>2, OwnTracks DEF Track
  <2>3. CASE d # c
    BY <1>0, <1>1, <1>2, <2>1, <2>3, Elsewhere
  <2> QED
    BY <2>2, <2>3
<1>4. CASE \E k \in calls : Answer(k)
  <2>1. PICK k \in calls : Answer(k)
    BY <1>4
  <2>2. /\ order' = order
        /\ pc'[c] = IF pc[c] = "answer" /\ k.rec = Challenge(c) THEN "announce" ELSE pc[c]
    BY <2>1 DEF Answer, acmeVars
  <2>3. CASE pc[c] = "answer" /\ k.rec = Challenge(c)
    BY <1>1, <2>1, <2>2, <2>3, AnswerKept
  <2>4. CASE ~(pc[c] = "answer" /\ k.rec = Challenge(c))
    BY <1>1, <1>2, <2>2, <2>4
  <2> QED
    BY <2>3, <2>4
<1>5. CASE UNCHANGED <<clientVars, acmeVars>>
  BY <1>1, <1>2, <1>5 DEF clientVars, acmeVars
<1> QED
  BY <1>3, <1>4, <1>5, NextSplit

\* A handler that a client waits for is dropped only with the server.
LEMMA HandlerKept ==
  ASSUME StorageInv, [Next]_vars, NEW c \in Clients, pc[c] = "answer", pc'[c] = "answer",
         NEW m \in calls, m.rec = Challenge(c), faults' # faults + 1
  PROVE  \E k \in calls' : k.rec = Challenge(c)
<1>0. DnsInv /\ calls \subseteq Call
  BY DEF StorageInv, TypeOK, DnsInv, DnsTypeOK
<1>1. CASE UNCHANGED dnsVars
  BY <1>1 DEF dnsVars
<1>2. CASE \E r : AddRecord(r)
  BY <1>2 DEF AddRecord
<1>3. CASE \E d \in Clients : pc[d] = "order" /\ Age(d)
  <2>1. PICK d \in Clients : pc[d] = "order" /\ Age(d)
    BY <1>3
  <2>2. d \in Clients \ {c} /\ m \in [rec : Record, wrote : BOOLEAN]
    BY <1>0, <2>1 DEF Call
  <2>3. Aged(d, m.rec) = Challenge(c)
    BY <2>2, ChallengeType, AgedChallenge
  <2>4. /\ [m EXCEPT !.rec = Aged(d, m.rec)] \in calls'
        /\ [m EXCEPT !.rec = Aged(d, m.rec)].rec = Aged(d, m.rec)
    BY <2>1, <2>2 DEF Age
  <2> QED
    BY <2>3, <2>4
<1>4. CASE \E k \in calls : WriteRow(k)
  <2>1. PICK k \in calls : calls' = (calls \ {k}) \cup {[k EXCEPT !.wrote = TRUE]}
    BY <1>4 DEF WriteRow
  <2>2. k \in [rec : Record, wrote : BOOLEAN]
    BY <1>0 DEF Call
  <2>3. [k EXCEPT !.wrote = TRUE].rec = k.rec
    BY <2>2
  <2> QED
    BY <2>1, <2>3
<1>5. CASE \E k \in calls : Answer(k)
  <2>1. PICK k \in calls : Answer(k)
    BY <1>5
  <2>2. k.rec # Challenge(c)
    BY <2>1 DEF Answer
  <2>3. m \in calls'
    BY <2>1, <2>2 DEF Answer, UpsertZone
  <2> QED
    BY <2>3
<1>6. CASE \E k \in calls : HangUp(k)
  <2>1. PICK k \in calls : HangUp(k)
    BY <1>6
  <2>2. k.rec # Challenge(c)
    BY <2>1 DEF HangUp
  <2>3. m \in calls'
    BY <2>1, <2>2 DEF HangUp, DropCall
  <2> QED
    BY <2>3
<1>7. CASE ServerBoot
  BY <1>7 DEF ServerBoot, ServerStart, LoadRow
<1>8. CASE UNCHANGED vars
  BY <1>1, <1>8 DEF vars
<1>9. CASE \E d \in Clients : OwnStep(d)
  BY <1>1, <1>2, <1>3, <1>9, OwnDns
<1>10. ~NameServerCrash
  BY DEF NameServerCrash, Fault
<1>11. CASE \E r \in UserRecords : UserSetsRecord(r)
  BY <1>2, <1>11 DEF UserSetsRecord
<1> QED
  BY <1>4, <1>5, <1>6, <1>7, <1>8, <1>9, <1>10, <1>11 DEF Next, OwnStep, HandlerStep

\* As long as nothing has failed, the server is there.
LEMMA ServerThere ==
  ASSUME StorageInv, [Next]_vars, up, toLoad = <<>>, faults' # faults + 1
  PROVE  up' /\ toLoad' = <<>>
<1>1. CASE UNCHANGED dnsVars
  BY <1>1 DEF dnsVars
<1>2. CASE \E d \in Clients : OwnStep(d)
  <2>1. PICK d \in Clients : UNCHANGED dnsVars \/ Age(d) \/ AddRecord(Challenge(d))
    BY <1>2, OwnDns
  <2>2. ASSUME Age(d) PROVE up' /\ toLoad' = <<>>
    <3>1. toLoad' = [i \in DOMAIN toLoad |-> Aged(d, toLoad[i])] /\ up' = up
      BY <2>2 DEF Age
    <3>2. DOMAIN toLoad' = {} /\ DOMAIN toLoad = {}
      BY <3>1
    <3>3. toLoad' \in Seq(Record) /\ Len(toLoad') = 0
      <4>1. toLoad \in Seq(Record)
        BY DEF StorageInv, TypeOK, DnsTypeOK
      <4>2. toLoad' \in Seq(Record)
        BY <3>1, <4>1, AgedSeq
      <4> QED
        BY <3>2, <4>2
    <3> QED
      BY <3>1, <3>3
  <2> QED
    BY <1>1, <2>1, <2>2 DEF AddRecord
<1>3. CASE ~ \E d \in Clients : OwnStep(d)
  <2>1. ~LoadRow /\ ~ServerStart
    BY DEF LoadRow, ServerStart
  <2>2. \/ UNCHANGED dnsVars
        \/ \E k \in calls : WriteRow(k) \/ UpsertZone(k) \/ DropCall(k)
        \/ \E r \in UserRecords : AddRecord(r)
    BY <1>3, <2>1, ServerDns
  <2> QED
    BY <1>1, <2>2 DEF WriteRow, UpsertZone, DropCall, AddRecord
<1> QED
  BY <1>2, <1>3

\* Only a request that reached the server makes a client wait for its answer.
LEMMA OwnAnswer ==
  ASSUME ClientTypes, NEW c \in Clients, OwnStep(c), pc[c] # "answer", pc'[c] = "answer"
  PROVE  AddRecord(Challenge(c))
<1>. USE DEF ClientTypes, Goto
<1>0. ~Err(c)
  BY ErrPlace
<1>1. CASE Start(c) \/ GetAccount(c) \/ WriteCredentials(c) \/ LoadCerts(c) \/ Renew(c)
  BY <1>0, <1>1 DEF Start, GetAccount, WriteCredentials, LoadCerts, Renew
<1>2. CASE NewOrder(c) \/ SendChallenge(c) \/ AnswerLost(c) \/ SetReady(c) \/ Finalize(c)
  BY <1>0, <1>2 DEF NewOrder, SendChallenge, AnswerLost, SetReady, Finalize
<1>3. CASE write_certs(c) \/ UpdateKey(c)
  BY <1>3 DEF write_certs, OpenFile, FillFile, UpdateKey
<1>4. CASE UpdateRenewInfo(c) \/ Validate(c) \/ RenewAtPasses(c) \/ TimePasses(c)
  BY <1>4 DEF UpdateRenewInfo, Validate, RenewAtPasses, TimePasses, clientVars
<1>5. CASE Fail(c) \/ Crash(c)
  BY <1>0, <1>5 DEF Fail, Crash
<1> QED
  BY <1>1, <1>2, <1>3, <1>4, <1>5 DEF OwnStep, ClientStep

LEMMA StepNoFault ==
  ASSUME StorageInv, ChallengeKept, NoFaultInv, [Next]_vars
  PROVE  NoFaultInv'
<1>. SUFFICES ASSUME NEW c \in Clients
              PROVE  /\ served'[c] # 0 => pc'[c] \notin Initializing
                     /\ faults' = 0 => Undisturbed(c)'
  BY DEF NoFaultInv, Initializing
<1>0. ClientTypes /\ faults \in Nat
  BY SplitTypes DEF StorageInv, ClientTypes
<1>a. OrderInv(c)
  BY OrderSplit
<1>1. /\ served'[c] # 0 => pc'[c] \notin Initializing
      /\ faults' = 0 => faults = 0 /\ \A n \in replaced'[c] : n < Newest(c)'
  <2>1. CASE \E d \in Clients : OwnStep(d)
    <3>1. PICK d \in Clients : OwnStep(d)
      BY <2>1
    <3>2. CASE d = c
      BY <3>1, <3>2, OwnTracks DEF Track
    <3>3. CASE d # c
      <4>1. /\ pc'[c] = pc[c] /\ served'[c] = served[c] /\ issued'[c] = issued[c]
            /\ replaced'[c] = replaced[c]
            /\ (faults' = 0 => faults = 0)
        BY <1>0, <3>1, <3>3, Elsewhere
      <4>2. Newest(c)' = Newest(c)
        BY <4>1 DEF Newest
      <4> QED
        BY <1>a, <4>1, <4>2 DEF OrderInv
    <3> QED
      BY <3>2, <3>3
  <2>2. CASE ~ \E d \in Clients : OwnStep(d)
    <3>1. faults' = faults \/ faults' = faults + 1
      BY <2>2, ServerDns
    <3>2. faults' = 0 => faults = 0
      BY <1>0, <3>1
    <3>3. /\ UNCHANGED <<served, issued, replaced>>
          /\ pc'[c] = pc[c] \/ (pc[c] = "answer" /\ pc'[c] = "announce")
      BY <2>2, NextSplit DEF Answer, clientVars, acmeVars
    <3>4. Newest(c)' = Newest(c)
      BY <3>3 DEF Newest, Busy, Writing
    <3> QED
      BY <1>a, <3>2, <3>3, <3>4 DEF OrderInv, Initializing
  <2> QED
    BY <2>1, <2>2
<1>2. ASSUME faults' = 0 PROVE Undisturbed(c)'
  <2>1. faults = 0 /\ faults' # faults + 1
    BY <1>0, <1>1, <1>2
  <2>2. Undisturbed(c)
    BY <2>1 DEF NoFaultInv
  <2>3. up' /\ toLoad' = <<>>
    BY <2>1, <2>2, ServerThere DEF Undisturbed
  <2>4. pc'[c] = "answer" => \E k \in calls' : k.rec = Challenge(c)
    <3> SUFFICES ASSUME pc'[c] = "answer" PROVE \E k \in calls' : k.rec = Challenge(c)
      OBVIOUS
    <3>1. CASE pc[c] = "answer"
      BY <2>1, <2>2, <3>1, HandlerKept DEF Undisturbed
    <3>2. CASE pc[c] # "answer"
      <4>1. OwnStep(c)
        <5>1. CASE \E d \in Clients : OwnStep(d)
          BY <1>0, <3>2, <5>1, Elsewhere
        <5>2. CASE \E k \in calls : Answer(k)
          BY <3>2, <5>2 DEF Answer
        <5>3. CASE UNCHANGED <<clientVars, acmeVars>>
          BY <3>2, <5>3 DEF clientVars
        <5> QED
          BY <5>1, <5>2, <5>3, NextSplit
      <4>2. AddRecord(Challenge(c))
        BY <1>0, <3>2, <4>1, OwnAnswer
      <4>3. [rec |-> Challenge(c), wrote |-> FALSE] \in calls'
        BY <4>2 DEF AddRecord
      <4> QED
        BY <4>3
    <3> QED
      BY <3>1, <3>2
  <2> QED
    BY <1>1, <1>2, <2>3, <2>4 DEF Undisturbed, Newest, Busy, Challenge
<1> QED
  BY <1>1, <1>2

(***************************************************************************)
(* What fails, fails because of a fault or a CNAME.                        *)
(***************************************************************************)

\* No row is ever deleted or changes its name and kind.
LEMMA CnameStays ==
  ASSUME StorageInv, [Next]_vars, NEW name, CnameAt(name)
  PROVE  CnameAt(name)'
<1>0. DnsInv /\ rows \in Seq(Record) /\ calls \subseteq Call
  BY DEF StorageInv, TypeOK, DnsTypeOK, DnsInv
<1>1. ASSUME \A i \in DOMAIN rows : i \in DOMAIN rows' /\ SameKey(rows'[i], rows[i])
      PROVE  CnameAt(name)'
  BY <1>1 DEF CnameAt, SameKey
<1>2. CASE rows' = rows
  BY <1>2 DEF CnameAt
<1>3. CASE \E d \in Clients : Age(d)
  <2>1. PICK d \in Clients : rows' = [i \in DOMAIN rows |-> Aged(d, rows[i])]
    BY <1>3 DEF Age
  <2> QED
    BY <1>0, <1>1, <2>1, AgedSeq
<1>4. CASE \E k \in calls : WriteRow(k)
  <2>1. PICK k \in calls : rows' = write_dns_record(rows, k.rec)
    BY <1>4 DEF WriteRow
  <2>2. k.rec \in Record
    BY <1>0 DEF Call
  <2> QED
    BY <1>0, <1>1, <2>1, <2>2, WriteKeepsKeys
<1>5. CASE \E d \in Clients : OwnStep(d)
  BY <1>2, <1>3, <1>5, OwnDns DEF dnsVars, AddRecord
<1>6. CASE ~ \E d \in Clients : OwnStep(d)
  BY <1>2, <1>4, <1>6, ServerDns
     DEF dnsVars, UpsertZone, DropCall, AddRecord, ServerStart, LoadRow, ServerCrash
<1> QED
  BY <1>5, <1>6

\* Without a fault the service finds a pending challenge, unless a CNAME in the
\* database hides it.
LEMMA ChallengeAnswered ==
  ASSUME StorageInv, ChallengeKept, NoFaultInv, faults = 0, NEW c \in Clients,
         order[c] = "pending", ~CnameAt(ChallengeName[c])
  PROVE  Answers(Challenge(c))
<1>1. up
  BY DEF NoFaultInv, Undisturbed
<1>2. Challenge(c) \in zone \/ Shadowed(zone, Challenge(c))
  BY DEF ChallengeKept, Kept
<1>3. ~Shadowed(zone, Challenge(c))
  <2> SUFFICES ASSUME NEW s \in zone, s.name = ChallengeName[c], s.kind = "CNAME" PROVE FALSE
    BY ShadowedMeansCname
  <2>1. HasRow(s)
    BY DEF StorageInv, ServedIsStored
  <2> QED
    BY <2>1 DEF HasRow, SameKey, CnameAt
<1> QED
  BY <1>1, <1>2, <1>3 DEF Answers

\* Without a fault no error of a client is met by one that has a certificate.
LEMMA OwnSuccess ==
  ASSUME StorageInv, ChallengeKept, NoFaultInv, faults = 0, faults' = 0,
         NEW c \in Clients, OwnStep(c), ~CnameAt(ChallengeName[c]),
         order[c] # "invalid", pc[c] # "ended"
  PROVE  order'[c] # "invalid" /\ pc'[c] # "ended"
<1>0. ClientTypes
  BY SplitTypes DEF StorageInv
<1>1. Undisturbed(c) /\ (served[c] # 0 => pc[c] \notin Initializing)
  BY DEF NoFaultInv, Initializing
<1>2. ASSUME Err(c), served[c] = 0 PROVE pc'[c] # "ended"
  BY <1>0, <1>2, ErrPlace
<1>3. \A l : Goto(c, l) => pc'[c] = l
  BY <1>0 DEF ClientTypes, Goto
<1>4. CASE Start(c) \/ GetAccount(c) \/ WriteCredentials(c) \/ LoadCerts(c)
  <2>1. pc[c] \in Initializing /\ order' = order
    BY <1>4 DEF Start, GetAccount, WriteCredentials, LoadCerts, acmeVars, Initializing
  <2>2. served[c] = 0
    BY <1>1, <2>1
  <2>3. \/ Err(c)
        \/ Goto(c, "account") \/ Goto(c, "load") \/ Goto(c, "creds")
        \/ Goto(c, "order") \/ Goto(c, "watch")
    BY <1>4 DEF Start, GetAccount, WriteCredentials, LoadCerts
  <2> QED
    BY <1>2, <1>3, <2>1, <2>2, <2>3
<1>5. CASE NewOrder(c)
  <2>1. pc[c] = "order"
    BY <1>5 DEF NewOrder
  <2>2. pc[c] \notin Busy
    BY <2>1 DEF Busy, Writing
  <2>3. \A n \in replaced[c] : n < served[c]
    BY <1>1, <2>2 DEF Undisturbed, Busy
  <2>4. served[c] \notin replaced[c]
    <3>1. served[c] \in Nat
      BY <1>0 DEF ClientTypes
    <3> QED
      BY <2>3, <3>1
  <2>5. /\ Goto(c, "poll") \/ Goto(c, "challenge")
        /\ order' = [order EXCEPT ![c] = "ready"] \/ order' = [order EXCEPT ![c] = "none"]
    BY <1>5, <2>4 DEF NewOrder
  <2> QED
    BY <1>0, <1>3, <2>5 DEF ClientTypes
<1>6. CASE SendChallenge(c)
  <2>1. Serving
    BY <1>1 DEF Undisturbed, Serving
  <2> QED
    BY <1>3, <1>6, <2>1 DEF SendChallenge, acmeVars
<1>7. ~AnswerLost(c)
  BY <1>1 DEF AnswerLost, Undisturbed
<1>8. CASE SetReady(c)
  BY <1>0, <1>3, <1>8 DEF SetReady, ClientTypes
<1>9. CASE Finalize(c)
  <2>1. Goto(c, "open_info")
    BY <1>9 DEF Finalize
  <2>2. order'[c] # "invalid"
    BY <1>0, <1>9 DEF Finalize, ClientTypes
  <2> QED
    BY <1>3, <2>1, <2>2
<1>10. CASE write_certs(c) \/ UpdateKey(c) \/ Renew(c)
  BY <1>3, <1>10 DEF write_certs, OpenFile, FillFile, UpdateKey, Renew, acmeVars
<1>11. CASE Validate(c)
  <2>1. Answers(Challenge(c))
    BY <1>11, ChallengeAnswered DEF Validate
  <2> QED
    BY <1>0, <1>11, <2>1 DEF Validate, ClientTypes, clientVars
<1>12. CASE UpdateRenewInfo(c) \/ RenewAtPasses(c) \/ TimePasses(c)
  BY <1>12 DEF UpdateRenewInfo, RenewAtPasses, TimePasses, acmeVars
<1>13. ~(Fail(c) \/ Crash(c))
  BY DEF Fail, Crash, Fault
<1> QED
  BY <1>4, <1>5, <1>6, <1>7, <1>8, <1>9, <1>10, <1>11, <1>12, <1>13 DEF OwnStep, ClientStep

LEMMA StepSuccess ==
  ASSUME IndInv, NothingFailsByItself, [Next]_vars
  PROVE  NothingFailsByItself'
<1>. SUFFICES ASSUME NEW c \in Clients, faults' = 0, ~CnameAt(ChallengeName[c])'
              PROVE  order'[c] # "invalid" /\ pc'[c] # "ended"
  BY DEF NothingFailsByItself
<1>0. ClientTypes /\ faults \in Nat
  BY SplitTypes DEF IndInv, StorageInv, ClientTypes
<1>1. ~CnameAt(ChallengeName[c])
  BY CnameStays DEF IndInv
<1>2. faults = 0
  <2>1. CASE \E d \in Clients : OwnStep(d)
    BY <2>1, OwnTracks DEF IndInv, Track
  <2>2. CASE ~ \E d \in Clients : OwnStep(d)
    <3>1. faults' = faults \/ faults' = faults + 1
      BY <2>2, ServerDns
    <3> QED
      BY <1>0, <3>1
  <2> QED
    BY <2>1, <2>2
<1>3. order[c] # "invalid" /\ pc[c] # "ended"
  BY <1>1, <1>2 DEF NothingFailsByItself
<1>4. CASE OwnStep(c)
  BY <1>1, <1>2, <1>3, <1>4, OwnSuccess DEF IndInv
<1>5. CASE \E d \in Clients : d # c /\ OwnStep(d)
  BY <1>0, <1>3, <1>5, Elsewhere
<1>6. CASE \E k \in calls : Answer(k)
  BY <1>3, <1>6 DEF Answer, acmeVars
<1>7. CASE UNCHANGED <<clientVars, acmeVars>>
  BY <1>3, <1>7 DEF clientVars, acmeVars
<1> QED
  BY <1>4, <1>5, <1>6, <1>7, NextSplit

(***************************************************************************)
(* The theorems.                                                           *)
(***************************************************************************)

LEMMA StorageInit == Init => StorageInv
<1> SUFFICES ASSUME Init PROVE StorageInv
  OBVIOUS
<1>1. DnsTypeOK /\ ServedIsStored
  <2>1. up \in BOOLEAN /\ rows = <<>> /\ zone = {} /\ toLoad = <<>> /\ calls = {}
    BY DEF Init, DnsInit
  <2>2. DnsTypeOK
    BY <2>1 DEF DnsTypeOK
  <2>3. ServedIsStored
    BY <2>1 DEF ServedIsStored
  <2> QED
    BY <2>2, <2>3
<1>2. ClientTypes
  BY DEF Init, ClientTypes, PCs
<1>3. \A c \in Clients : FileInv(c)
  <2>1. \A c \in Clients : /\ pc[c] = "down" /\ served[c] = 0 /\ issued[c] = 0
                           /\ \A f \in Files : disk[c][f] = 0
    BY DEF Init
  <2>2. "down" \notin Busy /\ "cert" \in Files
    BY DEF Busy, Writing, Files
  <2> QED
    BY <2>1, <2>2 DEF FileInv
<1> QED
  BY <1>1, <1>2, <1>3, SplitTypes, FilesSplit DEF StorageInv

LEMMA StorageStep == StorageInv /\ [Next]_vars => StorageInv'
<1> SUFFICES ASSUME StorageInv, [Next]_vars PROVE StorageInv'
  OBVIOUS
<1>1. DnsTypeOK' /\ ServedIsStored'
  BY StepDns DEF DnsInv, StorageInv, TypeOK
<1>2. ClientTypes' /\ FilesInOrder'
  BY StepFiles DEF FileStep
<1> QED
  BY <1>1, <1>2 DEF StorageInv, TypeOK, ClientTypes

\* Whatever the server answers for has a row of dns_records, the files of a
\* client follow its progress through write_certs, an announced challenge is
\* kept until its client gives it up, and without a fault the server is there,
\* for every order of requests, restarts, crashes and failures.
THEOREM Invariance == Spec => []IndInv
<1>1. Init => IndInv
  <2> SUFFICES ASSUME Init PROVE IndInv
    OBVIOUS
  <2>1. \A c \in Clients : /\ pc[c] = "down" /\ served[c] = 0 /\ order[c] = "none"
                           /\ replaced[c] = {}
    BY DEF Init
  <2>2. up = TRUE /\ toLoad = <<>>
    BY DEF Init, DnsInit
  <2>3. ChallengeKept
    BY <2>1 DEF ChallengeKept
  <2>4. NoFaultInv
    BY <2>1, <2>2 DEF NoFaultInv, Undisturbed
  <2> QED
    BY <2>3, <2>4, StorageInit DEF IndInv
<1>2. IndInv /\ [Next]_vars => IndInv'
  BY StorageStep, StepChallenge, StepNoFault DEF IndInv
<1> QED
  BY <1>1, <1>2, PTL DEF Spec

\* A restart at any moment finds what was served: the files cannot be loaded
\* only when write_certs was cut short, and what is loaded is never older
\* than what the process served (load_certs, write_certs, update_key).
THEOREM SafeRestart == Spec => []RestartIsSafe
<1>1. Init => RestartIsSafe
  <2> SUFFICES ASSUME Init, NEW c \in Clients PROVE LoadResult(disk[c]) = "none"
    BY DEF RestartIsSafe
  <2>1. \A f \in Files : disk[c][f] = 0
    BY DEF Init
  <2> QED
    BY <2>1 DEF LoadResult, Files, Torn
<1>2. IndInv /\ RestartIsSafe /\ [Next]_vars => RestartIsSafe'
  BY StepFiles DEF IndInv, FileStep
<1> QED
  BY <1>1, <1>2, Invariance, PTL DEF Spec

\* While the ACME service may look at a challenge the name server answers with
\* it, whatever other devices of the domain write to the same name meanwhile:
\* only a CNAME, or a restart after add_record overwrote the row, hides it.
THEOREM ChallengesServed == Spec => []ChallengeServed
<1>1. IndInv => ChallengeServed
  <2> SUFFICES ASSUME IndInv, NEW c \in Clients, order[c] = "pending", Serving,
                      Challenge(c) \notin zone, ~Shadowed(zone, Challenge(c))
               PROVE  faults > 0 /\ ~Stored(Challenge(c))
    BY DEF ChallengeServed
  <2>1. Kept(c)
    BY DEF IndInv, ChallengeKept
  <2>2. up /\ toLoad = <<>>
    BY DEF Serving
  <2> QED
    BY <2>1, <2>2 DEF Kept
<1> QED
  BY <1>1, Invariance, PTL

\* Devices that order certificates for one domain at the same time do not make
\* each other fail: without a fault and without a CNAME at the challenge's name
\* no order is refused (ordercert) and no renewal loop ends (maintain_certs).
THEOREM NothingFails == Spec => []NothingFailsByItself
<1>1. Init => NothingFailsByItself
  BY DEF Init, NothingFailsByItself
<1>2. IndInv /\ NothingFailsByItself /\ [Next]_vars => NothingFailsByItself'
  BY StepSuccess
<1> QED
  BY <1>1, <1>2, Invariance, PTL DEF Spec

==============================================================================
