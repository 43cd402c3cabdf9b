---------------------------- MODULE ReplDbProofs ----------------------------
(***************************************************************************)
(* Proofs about ReplDb: its inductive invariant, one lemma per action;     *)
(* that transactions read what is newest, that exactly what SQLite         *)
(* committed is sent and is on the server when the locks are gone, and     *)
(* what the transactions make of the pages; that no update is lost and no  *)
(* snapshot changes; and that clients and server implement                 *)
(* OptimisticStore.                                                        *)
(***************************************************************************)
EXTENDS ReplDb, TLAPS, SequenceTheorems, WellFoundedInduction

USE DEF reset_wal

\* Writing a frame keeps a log a log and makes room for one frame more; the
\* frames before and after it stay.
LEMMA PutFrameProperties ==
    ASSUME NEW w \in Seq(Frame), NEW m \in Nat, m <= Len(w), NEW f \in Frame
    PROVE  /\ PutFrame(w, m, f) \in Seq(Frame)
           /\ m + 1 <= Len(PutFrame(w, m, f))
           /\ \A i \in 1..m : PutFrame(w, m, f)[i] = w[i]
           /\ PutFrame(w, m, f)[m + 1] = f
           /\ \A i \in (m + 2)..Len(PutFrame(w, m, f)) :
                  i <= Len(w) /\ PutFrame(w, m, f)[i] = w[i]
<1> DEFINE a == SubSeq(w, 1, m)
           b == SubSeq(w, m + 2, Len(w))
           x == a \o <<f>>
<1>0. Len(w) \in Nat /\ \A i \in 1..Len(w) : w[i] \in Frame
  OBVIOUS
<1>1. a \in Seq(Frame) /\ Len(a) = m /\ \A i \in 1..m : a[i] = w[i]
  OBVIOUS
<1>2. /\ b \in Seq(Frame) /\ Len(b) \in Nat
      /\ Len(b) # 0 => Len(b) = Len(w) - m - 1
      /\ \A i \in 1..Len(b) : b[i] = w[m + 1 + i]
  <2>1. \A i \in (m + 2)..Len(w) : w[i] \in Frame
    BY <1>0
  <2>2. /\ b \in Seq(Frame)
        /\ Len(b) = IF m + 2 <= Len(w) THEN Len(w) - (m + 2) + 1 ELSE 0
        /\ \A i \in 1..(Len(w) - (m + 2) + 1) : b[i] = w[m + 2 + i - 1]
    BY <1>0, <2>1, SubSeqProperties
  <2>. QED
    BY <1>0, <2>2
<1>3. <<f>> \in Seq(Frame) /\ Len(<<f>>) = 1 /\ <<f>>[1] = f
  OBVIOUS
<1>4. PutFrame(w, m, f) = x \o b
  BY DEF PutFrame
<1>. HIDE DEF a, b
<1>5. /\ x \in Seq(Frame) /\ Len(x) = m + 1
      /\ \A i \in 1..m : x[i] = w[i]
      /\ x[m + 1] = f
  <2>1. /\ x \in Seq(Frame) /\ Len(x) = m + 1
        /\ \A i \in 1..(m + 1) : x[i] = IF i <= m THEN a[i] ELSE <<f>>[i - m]
    BY <1>1, <1>3, ConcatProperties
  <2>2. x[m + 1] = <<f>>[(m + 1) - m] /\ (m + 1) - m = 1
    BY <2>1
  <2>. QED
    BY <1>1, <1>3, <2>1, <2>2
<1>. HIDE DEF x
<1>6. /\ x \o b \in Seq(Frame) /\ Len(x \o b) = m + 1 + Len(b)
      /\ \A i \in 1..(m + 1 + Len(b)) :
             (x \o b)[i] = IF i <= m + 1 THEN x[i] ELSE b[i - (m + 1)]
  BY <1>2, <1>5, ConcatProperties
<1>7. \A i \in (m + 2)..(m + 1 + Len(b)) : i <= Len(w) /\ (x \o b)[i] = w[i]
  <2>. TAKE i \in (m + 2)..(m + 1 + Len(b))
  <2>1. i \in 1..(m + 1 + Len(b)) /\ ~(i <= m + 1) /\ i - (m + 1) \in 1..Len(b)
    BY <1>2
  <2>2. (x \o b)[i] = b[i - (m + 1)] /\ b[i - (m + 1)] = w[m + 1 + (i - (m + 1))]
    BY <1>2, <1>6, <2>1
  <2>3. m + 1 + (i - (m + 1)) = i /\ i <= Len(w)
    BY <1>0, <1>2, <2>1
  <2>. QED
    BY <2>2, <2>3
<1>8. /\ m + 1 <= m + 1 + Len(b)
      /\ \A i \in 1..m : (x \o b)[i] = w[i]
      /\ (x \o b)[m + 1] = f
  BY <1>2, <1>5, <1>6
<1>. QED
  BY <1>4, <1>6, <1>7, <1>8

\* Steps that concern neither pulling nor the server keep FetchedIsNext.
LEMMA FetchedUntouched ==
    ASSUME FetchedIsNext, UNCHANGED <<server, version, floor, fetched>>,
           \A d \in Client : status'[d] = "pulling" <=> status[d] = "pulling"
    PROVE  FetchedIsNext'
  BY DEF FetchedIsNext, FetchedOf, Awaited, server

\* The lock counters are added, and neither is negative.
LEMMA NoLocks ==
    ASSUME NEW c \in Client, Types, Locks(c) = 0
    PROVE  reads[c] = 0 /\ writes[c] = 0
<1>1. reads[c] \in {0, 1} /\ writes[c] \in {0, 1}
  BY DEF Types
<1>. QED
  BY <1>1 DEF Locks

\* Losing a client keeps the types.
LEMMA DropTypes ==
    ASSUME Types, NEW c \in Client, NEW how \in {"closed", "panicked"},
           Drop(c, how), UNCHANGED server
    PROVE  Types'
<1>1. /\ status' \in [Client -> {"closed", "ready", "pulling", "sending",
                                "panicked"}]
      /\ version' \in [Client -> Nat] /\ DOMAIN db' = Client
  BY DEF Drop, Types
<1>2. /\ wal' \in [Client -> Seq(Frame)]
      /\ reads' \in [Client -> {0, 1}] /\ writes' \in [Client -> {0, 1}]
      /\ hadWrite' \in [Client -> BOOLEAN]
  BY DEF Drop, Types
<1>3. /\ DOMAIN fetched' = Client /\ DOMAIN unsent' = Client
      /\ sent' \in [Client -> Nat] /\ floor' \in [Client -> Nat]
      /\ mxFrame' \in [Client -> Nat] /\ txStart' \in [Client -> Nat]
  BY DEF Drop, Types
<1>. QED
  BY <1>1, <1>2, <1>3 DEF Types, server

-----------------------------------------------------------------------------
(* Every action preserves the invariant *)

\* DbClient::new starts from the newest image.
LEMMA OpenPreserves ==
    ASSUME NEW c \in Client, ReplicaInv, Open(c)
    PROVE  ReplicaInv'
<1>. USE DEF ReplicaInv
<1>1. Types'
  BY DEF Open, Types, server
<1>2. ServerLog'
  BY DEF Open, ServerLog, server
<1>3. ReplicaExact'
  BY DEF Open, ReplicaExact, Types, Alive, server, ServerLog
<1>4. FetchedIsNext'
  <2>. SUFFICES ASSUME NEW d \in Client PROVE FetchedOf(d)'
    BY DEF FetchedIsNext
  <2>1. CASE d = c
    BY <2>1 DEF Open, FetchedIsNext, FetchedOf, Awaited, Types, server
  <2>2. CASE d # c
    BY <2>2 DEF Open, FetchedIsNext, FetchedOf, Awaited, Types, server
  <2>. QED
    BY <2>1, <2>2
<1>5. FreshReads'
  BY DEF Open, FreshReads, LockDiscipline, Disciplined, Types, Locks
<1>6. LockDiscipline'
  BY DEF Open, LockDiscipline, Disciplined, Locks, Types
<1>7. SentBehind'
  BY DEF Open, SentBehind, Types, server
<1>. QED
  BY <1>1, <1>2, <1>3, <1>4, <1>5, <1>6, <1>7

\* A client that is gone holds no locks and no changes.
LEMMA CrashPreserves ==
    ASSUME NEW c \in Client, ReplicaInv, Crash(c)
    PROVE  ReplicaInv'
<1>. USE DEF ReplicaInv
<1>1. Types'
  BY DropTypes DEF Crash, ReplicaInv
<1>2. ServerLog'
  BY DEF Crash, Drop, ServerLog, server
<1>3. ReplicaExact'
  BY DEF Crash, Drop, ReplicaExact, Types, Alive, server
<1>4. FetchedIsNext'
  <2>. SUFFICES ASSUME NEW d \in Client PROVE FetchedOf(d)'
    BY DEF FetchedIsNext
  <2>1. CASE d = c
    BY <2>1 DEF Crash, Drop, FetchedIsNext, FetchedOf, Awaited, Types, server
  <2>2. CASE d # c
    BY <2>2 DEF Crash, Drop, FetchedIsNext, FetchedOf, Awaited, Types, server
  <2>. QED
    BY <2>1, <2>2
<1>5. FreshReads'
  BY DEF Crash, Drop, FreshReads, LockDiscipline, Disciplined, Types, Locks
<1>6. LockDiscipline'
  BY DEF Crash, Drop, LockDiscipline, Disciplined, Locks, Types
<1>7. SentBehind'
  BY DEF Crash, Drop, SentBehind, Types, server
<1>. QED
  BY <1>1, <1>2, <1>3, <1>4, <1>5, <1>6, <1>7

\* The answer of get_changes_after is exactly what the client lacks.
LEMMA LockReadPreserves ==
    ASSUME NEW c \in Client, ReplicaInv, LockRead(c)
    PROVE  ReplicaInv'
<1>. USE DEF ReplicaInv
<1>1. Types'
  <2>1. CASE Locks(c) = 0
    BY <2>1 DEF LockRead, FetchChanges, Types, server
  <2>2. CASE Locks(c) # 0
    <3>1. reads' = [reads EXCEPT ![c] = reads[c] + 1] /\ reads[c] = 0
      BY <2>2 DEF LockRead
    <3>2. reads' \in [Client -> {0, 1}]
      BY <3>1 DEF Types
    <3>. QED
      BY <2>2, <3>2 DEF LockRead, Types, server
  <2>. QED
    BY <2>1, <2>2
<1>2. ServerLog'
  BY DEF LockRead, FetchChanges, ServerLog, server
<1>3. ReplicaExact'
  BY DEF LockRead, FetchChanges, ReplicaExact, Types, Alive, server
<1>4. FetchedIsNext'
  <2>1. CASE Locks(c) # 0
    BY <2>1, FetchedUntouched DEF LockRead, server
  <2>2. CASE Locks(c) = 0
    <3>. SUFFICES ASSUME NEW d \in Client PROVE FetchedOf(d)'
      BY DEF FetchedIsNext
    <3>1. CASE d = c
      <4>1. version[c] <= latestVersion /\ version[c] \in Nat
        BY DEF ReplicaExact, Alive, LockRead, Types
      <4>2. floor'[c] = latestVersion /\ status'[c] = "pulling"
        BY <2>2 DEF LockRead, FetchChanges, Types
      <4>3. \A e : e \in fetched'[c] <=>
              \E i \in (version[c] + 1)..latestVersion : e = changes[i]
        <5>1. fetched'[c] = {changes[i] : i \in {j \in DOMAIN changes :
                                    changes[j].version > version[c]}}
          BY <2>2 DEF LockRead, FetchChanges, Types
        <5>2. /\ DOMAIN changes = 1..latestVersion
              /\ \A j \in 1..latestVersion : changes[j].version = j
          BY DEF Types, ServerLog
        <5>4. latestVersion \in Nat
          BY DEF Types
        <5>3. {j \in DOMAIN changes : changes[j].version > version[c]}
                = (version[c] + 1)..latestVersion
          BY <4>1, <5>2, <5>4
        <5>. QED
          BY <5>1, <5>3
      <4>. QED
        BY <3>1, <4>1, <4>2, <4>3 DEF LockRead, FetchedOf, Awaited, server, Types
    <3>2. CASE d # c
      BY <2>2, <3>2 DEF LockRead, FetchChanges, FetchedIsNext, FetchedOf,
                        Awaited, Types, server
    <3>. QED
      BY <3>1, <3>2
  <2>. QED
    BY <2>1, <2>2
<1>5. FreshReads'
  BY DEF LockRead, FetchChanges, FreshReads, LockDiscipline, Disciplined, Types, Locks
<1>6. LockDiscipline'
  <2>. SUFFICES ASSUME NEW d \in Client PROVE Disciplined(d)'
    BY DEF LockDiscipline
  <2>1. CASE d = c
    BY <2>1 DEF LockRead, FetchChanges, LockDiscipline, Disciplined, Locks, Types
  <2>2. CASE d # c
    BY <2>2 DEF LockRead, FetchChanges, LockDiscipline, Disciplined, Locks, Types
  <2>. QED
    BY <2>1, <2>2
<1>7. SentBehind'
  BY DEF LockRead, FetchChanges, SentBehind, Types, server
<1>. QED
  BY <1>1, <1>2, <1>3, <1>4, <1>5, <1>6, <1>7

\* The change with the lowest version is the next one of the list.
LEMMA PullChangePreserves ==
    ASSUME NEW c \in Client, ReplicaInv, PullChange(c)
    PROVE  ReplicaInv'
<1>. USE DEF ReplicaInv
<1>a. PICK e \in fetched[c] :
         /\ \A f \in fetched[c] : e.version <= f.version
         /\ db' = [db EXCEPT ![c] = apply_tx(db[c], e.tx)]
         /\ version' = [version EXCEPT ![c] = e.version]
         /\ fetched' = [fetched EXCEPT ![c] = fetched[c] \ {e}]
  BY DEF PullChange, Types
<1>b. /\ e = changes[version[c] + 1]
      /\ version[c] \in Nat /\ floor[c] \in Nat /\ latestVersion \in Nat
      /\ version[c] + 1 <= floor[c] /\ floor[c] <= latestVersion
      /\ changes[version[c] + 1].version = version[c] + 1
  <2>1. PICK i \in Awaited(c) : e = changes[i]
    BY DEF PullChange, FetchedIsNext, FetchedOf
  <2>2. version[c] \in Nat /\ floor[c] \in Nat /\ latestVersion \in Nat
    BY DEF Types
  <2>3. floor[c] <= latestVersion
    BY DEF PullChange, FetchedIsNext, FetchedOf
  <2>4. version[c] + 1 \in Awaited(c)
    BY <2>1, <2>2 DEF Awaited
  <2>5. changes[version[c] + 1] \in fetched[c]
    BY <2>4 DEF PullChange, FetchedIsNext, FetchedOf
  <2>6. changes[i].version = i /\ changes[version[c] + 1].version = version[c] + 1
    BY <2>1, <2>2, <2>3, <2>4 DEF ServerLog, Awaited
  <2>7. i <= version[c] + 1
    BY <1>a, <2>1, <2>5, <2>6
  <2>8. i = version[c] + 1
    BY <2>1, <2>2, <2>7 DEF Awaited
  <2>. QED
    BY <2>1, <2>2, <2>3, <2>6, <2>8 DEF Awaited
<1>c. /\ db' = [db EXCEPT ![c] = apply_tx(db[c], changes[version[c] + 1].tx)]
      /\ version' = [version EXCEPT ![c] = version[c] + 1]
      /\ fetched' = [fetched EXCEPT ![c] = fetched[c] \ {changes[version[c] + 1]}]
  BY <1>a, <1>b
<1>1. Types'
  <2>1. version' \in [Client -> Nat] /\ DOMAIN db' = Client /\ DOMAIN fetched' = Client
    BY <1>b, <1>c DEF Types
  <2>2. wal' \in [Client -> Seq(Frame)] /\ mxFrame' \in [Client -> Nat]
    BY DEF PullChange, Types
  <2>. QED
    BY <2>1, <2>2 DEF PullChange, Types, server
<1>2. ServerLog'
  BY DEF PullChange, ServerLog, server
<1>3. ReplicaExact'
  <2>1. images[version[c] + 1] = apply_tx(images[version[c]], changes[version[c] + 1].tx)
    BY <1>b DEF ServerLog
  <2>. SUFFICES ASSUME NEW d \in Client, Alive(d)'
                PROVE  version'[d] <= latestVersion' /\ db'[d] = images'[version'[d]]
    BY DEF ReplicaExact
  <2>2. CASE d = c
    BY <1>b, <1>c, <2>1, <2>2 DEF PullChange, ReplicaExact, Alive, Types, server
  <2>3. CASE d # c
    BY <1>c, <2>3 DEF PullChange, ReplicaExact, Alive, Types, server
  <2>. QED
    BY <2>2, <2>3
<1>4. FetchedIsNext'
  <2>. SUFFICES ASSUME NEW d \in Client PROVE FetchedOf(d)'
    BY DEF FetchedIsNext
  <2>1. CASE d = c
    <3>1. version'[c] = version[c] + 1 /\ fetched'[c] = fetched[c] \ {changes[version[c] + 1]}
      BY <1>c DEF Types
    <3>2. \A i \in (version[c] + 2)..floor[c] : changes[i] # changes[version[c] + 1]
      <4>. TAKE i \in (version[c] + 2)..floor[c]
      <4>1. i \in 1..latestVersion /\ i # version[c] + 1
        BY <1>b
      <4>2. changes[i].version = i
        BY <4>1 DEF ServerLog
      <4>. QED
        BY <1>b, <4>1, <4>2
    <3>3. /\ \A x \in fetched[c] : \E i \in Awaited(c) : x = changes[i]
          /\ \A i \in Awaited(c) : changes[i] \in fetched[c]
      BY DEF PullChange, FetchedIsNext, FetchedOf
    <3>4. Awaited(c) = {version[c] + 1} \cup Awaited(c)'
      BY <1>b, <3>1 DEF Awaited, PullChange
    <3>5. Awaited(c)' = (version[c] + 2)..floor[c]
      BY <1>b, <3>1 DEF Awaited, PullChange
    <3>6. /\ changes' = changes /\ floor' = floor /\ status' = status
          /\ latestVersion' = latestVersion
      BY DEF PullChange, server
    <3>7. /\ \A x \in fetched'[c] : \E i \in Awaited(c)' : x = changes[i]
          /\ \A i \in Awaited(c)' : changes[i] \in fetched'[c]
      BY <3>1, <3>2, <3>3, <3>4, <3>5
    <3>. QED
      BY <1>b, <2>1, <3>1, <3>6, <3>7 DEF PullChange, FetchedOf
  <2>2. CASE d # c
    <3>1. /\ version'[d] = version[d] /\ fetched'[d] = fetched[d]
          /\ changes' = changes /\ floor' = floor /\ status' = status
          /\ latestVersion' = latestVersion
      BY <1>c, <2>2 DEF PullChange, server, Types
    <3>. QED
      BY <3>1 DEF FetchedIsNext, FetchedOf, Awaited
  <2>. QED
    BY <2>1, <2>2
<1>5. FreshReads'
  BY <1>c DEF PullChange, FreshReads, LockDiscipline, Disciplined, Locks, Types
<1>6. LockDiscipline'
  <2>. SUFFICES ASSUME NEW d \in Client PROVE Disciplined(d)'
    BY DEF LockDiscipline
  <2>1. CASE d = c
    BY <2>1, <1>c DEF PullChange, LockDiscipline, Disciplined, Locks, Types
  <2>2. CASE d # c
    BY <2>2, <1>c DEF PullChange, LockDiscipline, Disciplined, Locks, Types
  <2>. QED
    BY <2>1, <2>2
<1>7. SentBehind'
  BY <1>c DEF PullChange, SentBehind, Types, server
<1>. QED
  BY <1>1, <1>2, <1>3, <1>4, <1>5, <1>6, <1>7

\* With every change applied the client is where the server was.
LEMMA PullDonePreserves ==
    ASSUME NEW c \in Client, ReplicaInv, PullDone(c)
    PROVE  ReplicaInv'
<1>. USE DEF ReplicaInv
<1>a. reads[c] = 0 /\ writes[c] = 0
  BY NoLocks DEF PullDone, LockDiscipline, Disciplined
<1>b. version[c] = floor[c]
  <2>1. version[c] <= floor[c] /\ Awaited(c) = {}
    BY DEF PullDone, FetchedIsNext, FetchedOf
  <2>2. version[c] \in Nat /\ floor[c] \in Nat /\ version[c] + 1 \notin Awaited(c)
    BY <2>1 DEF Types
  <2>. QED
    BY <2>1, <2>2 DEF Awaited
<1>1. Types'
  <2>1. reads' = [reads EXCEPT ![c] = 1]
    BY <1>a DEF PullDone, Types
  <2>. QED
    BY <2>1 DEF PullDone, Types, server
<1>2. ServerLog'
  BY DEF PullDone, ServerLog, server
<1>3. ReplicaExact'
  BY DEF PullDone, ReplicaExact, Types, Alive, server
<1>4. FetchedIsNext'
  <2>. SUFFICES ASSUME NEW d \in Client PROVE FetchedOf(d)'
    BY DEF FetchedIsNext
  <2>1. CASE d = c
    BY <2>1 DEF PullDone, FetchedIsNext, FetchedOf, Awaited, Types, server
  <2>2. CASE d # c
    BY <2>2 DEF PullDone, FetchedIsNext, FetchedOf, Awaited, Types, server
  <2>. QED
    BY <2>1, <2>2
<1>5. FreshReads'
  <2>. SUFFICES ASSUME NEW d \in Client, Locks(d)' # 0
                PROVE  version'[d] = floor'[d]
    BY DEF FreshReads
  <2>1. CASE d = c
    BY <1>b, <2>1 DEF PullDone
  <2>2. CASE d # c
    BY <2>2 DEF PullDone, FreshReads, Locks, Types
  <2>. QED
    BY <2>1, <2>2
<1>6. LockDiscipline'
  <2>. SUFFICES ASSUME NEW d \in Client PROVE Disciplined(d)'
    BY DEF LockDiscipline
  <2>1. CASE d = c
    BY <2>1, <1>a DEF PullDone, LockDiscipline, Disciplined, Locks, Types
  <2>2. CASE d # c
    BY <2>2 DEF PullDone, LockDiscipline, Disciplined, Locks, Types
  <2>. QED
    BY <2>1, <2>2
<1>7. SentBehind'
  BY DEF PullDone, SentBehind, Types, server
<1>. QED
  BY <1>1, <1>2, <1>3, <1>4, <1>5, <1>6, <1>7

\* The write lock is taken under a read lock.
LEMMA LockWritePreserves ==
    ASSUME NEW c \in Client, ReplicaInv, LockWrite(c)
    PROVE  ReplicaInv'
<1>. USE DEF ReplicaInv
<1>1. Types'
  <2>1. writes' = [writes EXCEPT ![c] = 1]
    BY DEF LockWrite, Types
  <2>. QED
    BY <2>1 DEF LockWrite, Types, server
<1>2. ServerLog'
  BY DEF LockWrite, ServerLog, server
<1>3. ReplicaExact'
  BY DEF LockWrite, ReplicaExact, Types, Alive, server
<1>4. FetchedIsNext'
  BY FetchedUntouched DEF LockWrite, server, Types
<1>5. FreshReads'
  BY DEF LockWrite, FreshReads, LockDiscipline, Disciplined, Types, Locks
<1>6. LockDiscipline'
  <2>. SUFFICES ASSUME NEW d \in Client PROVE Disciplined(d)'
    BY DEF LockDiscipline
  <2>1. CASE d = c
    BY <2>1 DEF LockWrite, LockDiscipline, Disciplined, Locks, Types
  <2>2. CASE d # c
    BY <2>2 DEF LockWrite, LockDiscipline, Disciplined, Locks, Types
  <2>. QED
    BY <2>1, <2>2
<1>7. SentBehind'
  BY DEF LockWrite, SentBehind, Types, server
<1>. QED
  BY <1>1, <1>2, <1>3, <1>4, <1>5, <1>6, <1>7

\* A read lock is still held, so nothing is sent yet.
LEMMA UnlockWritePreserves ==
    ASSUME NEW c \in Client, ReplicaInv, UnlockWrite(c)
    PROVE  ReplicaInv'
<1>. USE DEF ReplicaInv
<1>a. status' = status /\ sent' = sent
  BY DEF UnlockWrite, MaybeEndTx, Types
<1>1. Types'
  <2>1. writes' \in [Client -> {0, 1}]
    BY DEF UnlockWrite, Types
  <2>2. /\ status' \in [Client -> {"closed", "ready", "pulling", "sending",
                             "panicked"}]
        /\ sent' \in [Client -> Nat]
    BY DEF UnlockWrite, MaybeEndTx, Types
  <2>3. mxFrame' \in [Client -> Nat] /\ DOMAIN unsent' = Client
    BY DEF UnlockWrite, Types
  <2>. QED
    BY <2>1, <2>2, <2>3 DEF UnlockWrite, Types, server
<1>2. ServerLog'
  BY DEF UnlockWrite, MaybeEndTx, ServerLog, server
<1>3. ReplicaExact'
  BY <1>a DEF UnlockWrite, ReplicaExact, Alive, server
<1>4. FetchedIsNext'
  BY <1>a, FetchedUntouched DEF UnlockWrite, server
<1>5. FreshReads'
  BY DEF UnlockWrite, FreshReads, Locks, Types
<1>6. LockDiscipline'
  <2>. SUFFICES ASSUME NEW d \in Client PROVE Disciplined(d)'
    BY DEF LockDiscipline
  <2>1. CASE d = c
    BY <2>1, <1>a DEF UnlockWrite, LockDiscipline, Disciplined, Locks, Types
  <2>2. CASE d # c
    BY <2>2, <1>a DEF UnlockWrite, LockDiscipline, Disciplined, Locks, Types
  <2>. QED
    BY <2>1, <2>2
<1>7. SentBehind'
  BY <1>a DEF UnlockWrite, SentBehind, server
<1>. QED
  BY <1>1, <1>2, <1>3, <1>4, <1>5, <1>6, <1>7

\* The last lock of a client that had the write lock starts the sending.
LEMMA UnlockReadPreserves ==
    ASSUME NEW c \in Client, ReplicaInv, UnlockRead(c)
    PROVE  ReplicaInv'
<1>. USE DEF ReplicaInv
<1>1. Types'
  <2>1. reads' \in [Client -> {0, 1}]
    BY DEF UnlockRead, Types
  <2>2. /\ status' \in [Client -> {"closed", "ready", "pulling", "sending",
                             "panicked"}]
        /\ sent' \in [Client -> Nat]
    <3>1. CASE reads[c] - 1 + writes[c] = 0 /\ hadWrite[c]
      <4>1. /\ status' = [status EXCEPT ![c] = "sending"]
            /\ sent' = [sent EXCEPT ![c] = 0]
        BY <3>1 DEF UnlockRead, MaybeEndTx
      <4>. QED
        BY <4>1 DEF Types
    <3>2. CASE ~(reads[c] - 1 + writes[c] = 0 /\ hadWrite[c])
      BY <3>2 DEF UnlockRead, MaybeEndTx, Types
    <3>. QED
      BY <3>1, <3>2
  <2>. QED
    BY <2>1, <2>2 DEF UnlockRead, Types, server
<1>2. ServerLog'
  BY DEF UnlockRead, MaybeEndTx, ServerLog, server
<1>3. ReplicaExact'
  BY DEF UnlockRead, MaybeEndTx, ReplicaExact, Types, Alive, server
<1>4. FetchedIsNext'
  <2>1. \A d \in Client : status'[d] = "pulling" <=> status[d] = "pulling"
    BY DEF UnlockRead, MaybeEndTx, Types
  <2>. QED
    BY <2>1, FetchedUntouched DEF UnlockRead, server
<1>5. FreshReads'
  BY DEF UnlockRead, MaybeEndTx, FreshReads, LockDiscipline, Disciplined, Types, Locks
<1>6. LockDiscipline'
  <2>. SUFFICES ASSUME NEW d \in Client PROVE Disciplined(d)'
    BY DEF LockDiscipline
  <2>1. CASE d = c
    <3>1. reads[c] = 1 /\ reads'[c] = 0 /\ writes[c] \in {0, 1} /\ version[c] = floor[c]
      BY DEF UnlockRead, Types, FreshReads, Locks
    <3>2. CASE writes[c] = 0 /\ hadWrite[c]
      BY <2>1, <3>1, <3>2 DEF UnlockRead, MaybeEndTx, LockDiscipline,
                              Disciplined, Locks, Types
    <3>3. CASE ~(writes[c] = 0 /\ hadWrite[c])
      BY <2>1, <3>1, <3>3 DEF UnlockRead, MaybeEndTx, LockDiscipline,
                              Disciplined, Locks, Types
    <3>. QED
      BY <3>2, <3>3
  <2>2. CASE d # c
    BY <2>2 DEF UnlockRead, MaybeEndTx, LockDiscipline, Disciplined, Locks, Types
  <2>. QED
    BY <2>1, <2>2
<1>7. SentBehind'
  BY DEF UnlockRead, MaybeEndTx, SentBehind, Types, server
<1>. QED
  BY <1>1, <1>2, <1>3, <1>4, <1>5, <1>6, <1>7

\* Frames are written under both locks.
LEMMA WriteFramePreserves ==
    ASSUME NEW c \in Client, ReplicaInv, WriteFrame(c)
    PROVE  ReplicaInv'
<1>. USE DEF ReplicaInv
<1>a. PICK f \in [page : 1..MaxPages, data : {c}, dbSize : 0..MaxPages] :
         wal' = [wal EXCEPT ![c] = PutFrame(wal[c], mxFrame[c], f)]
  BY DEF WriteFrame
<1>b. f \in Frame
  BY DEF Frame
<1>c. mxFrame[c] <= Len(wal[c]) /\ wal[c] \in Seq(Frame) /\ mxFrame[c] \in Nat
  BY DEF LockDiscipline, Disciplined, Types
<1> DEFINE log == PutFrame(wal[c], mxFrame[c], f)
<1>d. log \in Seq(Frame) /\ mxFrame[c] + 1 <= Len(log)
  BY <1>b, <1>c, PutFrameProperties
<1>. HIDE DEF log
<1>e. wal' = [wal EXCEPT ![c] = log]
  BY <1>a DEF log
<1>f. mxFrame' = [mxFrame EXCEPT ![c] = mxFrame[c] + 1]
  BY DEF WriteFrame
<1>1. Types'
  <2>1. wal' \in [Client -> Seq(Frame)]
    BY <1>d, <1>e DEF Types
  <2>2. mxFrame' \in [Client -> Nat]
    BY <1>c, <1>f DEF Types
  <2>. QED
    BY <2>1, <2>2 DEF WriteFrame, Types, server
<1>2. ServerLog'
  BY DEF WriteFrame, ServerLog, server
<1>3. ReplicaExact'
  BY DEF WriteFrame, ReplicaExact, Types, Alive, server
<1>4. FetchedIsNext'
  BY FetchedUntouched DEF WriteFrame
<1>5. FreshReads'
  BY DEF WriteFrame, FreshReads, Locks
<1>6. LockDiscipline'
  <2>. SUFFICES ASSUME NEW d \in Client PROVE Disciplined(d)'
    BY DEF LockDiscipline
  <2>1. CASE d = c
    BY <2>1, <1>d, <1>e, <1>f DEF WriteFrame, LockDiscipline, Disciplined, Locks, Types
  <2>2. CASE d # c
    BY <2>2, <1>e, <1>f DEF WriteFrame, LockDiscipline, Disciplined, Locks, Types
  <2>. QED
    BY <2>1, <2>2
<1>7. SentBehind'
  BY DEF WriteFrame, SentBehind, Types, server
<1>. QED
  BY <1>1, <1>2, <1>3, <1>4, <1>5, <1>6, <1>7

\* An accepted transaction extends the list by one version.
LEMMA AcceptPreserves ==
    ASSUME NEW c \in Client, ReplicaInv, Accept(c)
    PROVE  ReplicaInv'
<1>. USE DEF ReplicaInv
<1>a. PICK f \in 1..Len(wal[c]) :
         LET tx == extract_tx(wal[c], sent[c], f)
         IN  /\ IsNextCommit(c, f)
             /\ latest' = apply_tx(latest, tx)
             /\ latestVersion' = latestVersion + 1
             /\ changes' = Append(changes, [tx |-> tx, version |-> latestVersion + 1])
             /\ images' = [v \in 0..(latestVersion + 1) |->
                    IF v <= latestVersion THEN images[v] ELSE apply_tx(latest, tx)]
             /\ author' = Append(author, c)
             /\ sent' = [sent EXCEPT ![c] = f]
             /\ unsent' = [unsent EXCEPT ![c] = unsent[c] \ {[at |-> f, tx |-> tx]}]
  BY DEF Accept
<1> DEFINE tx == extract_tx(wal[c], sent[c], f)
<1>b. tx \in Transaction
  <2>1. wal[c] \in Seq(Frame) /\ sent[c] \in Nat /\ f \in Nat /\ f <= Len(wal[c])
    BY DEF Types
  <2>2. SubSeq(wal[c], sent[c] + 1, f) \in Seq(Frame)
    BY <2>1
  <2>3. wal[c][f] \in Frame
    BY <2>1
  <2>. QED
    BY <2>2, <2>3 DEF extract_tx, Transaction, Frame
<1>i. images' = [v \in 0..(latestVersion + 1) |->
                   IF v <= latestVersion THEN images[v] ELSE apply_tx(latest, tx)]
  BY <1>a
<1>. HIDE DEF tx
<1>c. latestVersion \in Nat
  BY DEF Types
<1>d. /\ changes' = Append(changes, [tx |-> tx, version |-> latestVersion + 1])
      /\ changes' \in Seq([tx : Transaction, version : Nat])
      /\ Len(changes') = Len(changes) + 1
      /\ \A i \in 1..Len(changes) : changes'[i] = changes[i]
      /\ changes'[Len(changes) + 1] = [tx |-> tx, version |-> latestVersion + 1]
  BY <1>a, <1>b, <1>c, AppendProperties DEF Types, tx
<1>e. author' \in Seq(Client) /\ Len(author') = Len(author) + 1
  BY <1>a DEF Types
<1>1. Types'
  <2>1. sent' \in [Client -> Nat]
    BY <1>a DEF Types
  <2>2. DOMAIN unsent' = Client
    BY <1>a DEF Types
  <2>3. latestVersion' \in Nat
    BY <1>a, <1>c
  <2>4. UNCHANGED <<status, version, db, wal, reads, writes, hadWrite, fetched,
                    mxFrame, txStart, floor>>
    BY DEF Accept
  <2>. QED
    BY <1>d, <1>e, <2>1, <2>2, <2>3, <2>4 DEF Types
<1>2. ServerLog'
  <2>1. latest' = images'[latestVersion']
    BY <1>a, <1>c
  <2>. SUFFICES ASSUME NEW i \in 1..latestVersion'
                PROVE  /\ changes'[i].version = i
                       /\ images'[i] = apply_tx(images'[i - 1], changes'[i].tx)
    BY <1>a, <1>d, <1>e, <2>1 DEF ServerLog
  <2>2. CASE i <= latestVersion
    BY <1>a, <1>c, <1>d, <2>2 DEF ServerLog
  <2>3. CASE i = latestVersion + 1
    <3>1. latest = images[latestVersion]
      BY DEF ServerLog
    <3>2. changes'[i] = [tx |-> tx, version |-> latestVersion + 1]
      BY <1>d, <2>3 DEF ServerLog
    <3>3. images'[i - 1] = latest /\ images'[i] = apply_tx(latest, tx)
      <4>1. /\ latestVersion \in 0..(latestVersion + 1)
            /\ latestVersion + 1 \in 0..(latestVersion + 1)
            /\ ~(latestVersion + 1 <= latestVersion) /\ i - 1 = latestVersion
        BY <1>c, <2>3
      <4>. QED
        BY <1>i, <2>3, <3>1, <4>1
    <3>. QED
      BY <2>3, <3>2, <3>3
  <2>4. i <= latestVersion \/ i = latestVersion + 1
    BY <1>a, <1>c
  <2>. QED
    BY <2>2, <2>3, <2>4
<1>3. ReplicaExact'
  <2>. SUFFICES ASSUME NEW d \in Client, Alive(d)
                PROVE  version[d] <= latestVersion' /\ db[d] = images'[version[d]]
    BY DEF Accept, ReplicaExact, Alive
  <2>1. version[d] \in Nat /\ version[d] <= latestVersion /\ db[d] = images[version[d]]
    BY DEF ReplicaExact, Types
  <2>2. version[d] \in 0..(latestVersion + 1) /\ version[d] <= latestVersion + 1
    BY <1>c, <2>1
  <2>3. images'[version[d]] = images[version[d]]
    BY <1>i, <2>1, <2>2
  <2>. QED
    BY <1>a, <2>1, <2>2, <2>3
<1>4. FetchedIsNext'
  <2>. SUFFICES ASSUME NEW d \in Client PROVE FetchedOf(d)'
    BY DEF FetchedIsNext
  <2>1. /\ status'[d] = status[d] /\ fetched'[d] = fetched[d]
        /\ version'[d] = version[d] /\ floor'[d] = floor[d]
        /\ Awaited(d)' = Awaited(d) /\ latestVersion <= latestVersion'
    BY <1>a, <1>c DEF Accept, Awaited
  <2>2. CASE status[d] # "pulling"
    BY <2>1, <2>2 DEF FetchedIsNext, FetchedOf
  <2>3. CASE status[d] = "pulling"
    <3>1. floor[d] <= latestVersion /\ version[d] \in Nat /\ floor[d] \in Nat
      BY <2>3 DEF FetchedIsNext, FetchedOf, Types
    <3>2. \A i \in Awaited(d) : changes'[i] = changes[i]
      <4>1. \A i \in Awaited(d) : i \in 1..Len(changes)
        BY <1>c, <3>1 DEF Awaited, ServerLog
      <4>. QED
        BY <1>d, <4>1
    <3>3. floor[d] <= latestVersion'
      BY <1>a, <1>c, <3>1
    <3>. QED
      BY <2>1, <2>3, <3>2, <3>3 DEF FetchedIsNext, FetchedOf
  <2>. QED
    BY <2>2, <2>3
<1>5. FreshReads'
  BY DEF Accept, FreshReads, Locks
<1>6. LockDiscipline'
  <2>. SUFFICES ASSUME NEW d \in Client PROVE Disciplined(d)'
    BY DEF LockDiscipline
  <2>1. CASE d = c
    BY <2>1, <1>a DEF Accept, LockDiscipline, Disciplined, Locks, Types
  <2>2. CASE d # c
    BY <2>2, <1>a DEF Accept, LockDiscipline, Disciplined, Locks, Types
  <2>. QED
    BY <2>1, <2>2
<1>7. SentBehind'
  <2>1. \A d \in Client : Alive(d) => version[d] <= latestVersion /\ version[d] \in Nat
    BY DEF ReplicaExact, Types
  <2>. QED
    BY <1>a, <1>c, <2>1 DEF Accept, SentBehind, Alive, Types
<1>. QED
  BY <1>1, <1>2, <1>3, <1>4, <1>5, <1>6, <1>7

\* A refused client is gone.
LEMMA RefusePreserves ==
    ASSUME NEW c \in Client, ReplicaInv, Refuse(c)
    PROVE  ReplicaInv'
<1>. USE DEF ReplicaInv
<1>1. Types'
  BY DropTypes DEF Refuse, ReplicaInv
<1>2. ServerLog'
  BY DEF Refuse, Drop, ServerLog, server
<1>3. ReplicaExact'
  BY DEF Refuse, Drop, ReplicaExact, Types, Alive, server
<1>4. FetchedIsNext'
  <2>. SUFFICES ASSUME NEW d \in Client PROVE FetchedOf(d)'
    BY DEF FetchedIsNext
  <2>1. CASE d = c
    BY <2>1 DEF Refuse, Drop, FetchedIsNext, FetchedOf, Awaited, Types, server
  <2>2. CASE d # c
    BY <2>2 DEF Refuse, Drop, FetchedIsNext, FetchedOf, Awaited, Types, server
  <2>. QED
    BY <2>1, <2>2
<1>5. FreshReads'
  BY DEF Refuse, Drop, FreshReads, LockDiscipline, Disciplined, Types, Locks
<1>6. LockDiscipline'
  BY DEF Refuse, Drop, LockDiscipline, Disciplined, Locks, Types
<1>7. SentBehind'
  BY DEF Refuse, Drop, SentBehind, Types, server
<1>. QED
  BY <1>1, <1>2, <1>3, <1>4, <1>5, <1>6, <1>7

\* The log is empty again.
LEMMA SendDonePreserves ==
    ASSUME NEW c \in Client, ReplicaInv, SendDone(c)
    PROVE  ReplicaInv'
<1>. USE DEF ReplicaInv
<1>a. reads[c] = 0 /\ writes[c] = 0
  BY NoLocks DEF SendDone, LockDiscipline, Disciplined
<1>1. Types'
  BY DEF SendDone, Types, server
<1>2. ServerLog'
  BY DEF SendDone, ServerLog, server
<1>3. ReplicaExact'
  BY DEF SendDone, ReplicaExact, Types, Alive, server
<1>4. FetchedIsNext'
  <2>1. \A d \in Client : status'[d] = "pulling" <=> status[d] = "pulling"
    BY DEF SendDone, Types
  <2>. QED
    BY <2>1, FetchedUntouched DEF SendDone, server
<1>5. FreshReads'
  BY DEF SendDone, FreshReads, LockDiscipline, Disciplined, Types, Locks
<1>6. LockDiscipline'
  <2>. SUFFICES ASSUME NEW d \in Client PROVE Disciplined(d)'
    BY DEF LockDiscipline
  <2>1. CASE d = c
    BY <1>a, <2>1 DEF SendDone, LockDiscipline, Disciplined, Locks, Types
  <2>2. CASE d # c
    BY <2>2 DEF SendDone, LockDiscipline, Disciplined, Locks, Types
  <2>. QED
    BY <2>1, <2>2
<1>7. SentBehind'
  BY DEF SendDone, SentBehind, Types, server
<1>. QED
  BY <1>1, <1>2, <1>3, <1>4, <1>5, <1>6, <1>7

\* Any step preserves the invariant.
LEMMA StepPreserves ==
    ASSUME ReplicaInv, [Next]_vars
    PROVE  ReplicaInv'
<1>1. CASE Next
  <2>1. PICK c \in Client : ClientStep(c)
    BY <1>1 DEF Next
  <2>. QED
    BY <2>1, OpenPreserves, CrashPreserves, LockReadPreserves,
       PullChangePreserves, PullDonePreserves, UnlockReadPreserves,
       LockWritePreserves, UnlockWritePreserves, WriteFramePreserves,
       AcceptPreserves, RefusePreserves, SendDonePreserves DEF ClientStep
<1>2. CASE UNCHANGED vars
  BY <1>2 DEF ReplicaInv, Types, ServerLog, ReplicaExact, FetchedIsNext, FetchedOf,
              Awaited, FreshReads, LockDiscipline, Disciplined, SentBehind,
              Alive, Locks, vars, server, client
<1>. QED
  BY <1>1, <1>2

-----------------------------------------------------------------------------
(* The write-ahead log *)

\* Among the naturals of a non-empty set one is the smallest.
LEMMA LeastNatural ==
    ASSUME NEW T, T \subseteq Nat, T # {}
    PROVE  \E x \in T : \A y \in T : x <= y
<1>1. PICK x \in T : \A y \in T : ~ (<<y, x>> \in OpToRel(<, Nat))
  BY NatLessThanWellFounded, WFMin
<1>2. \A y \in T : x <= y
  <2>. TAKE y \in T
  <2>1. x \in Nat /\ y \in Nat /\ <<y, x>> \in Nat \X Nat
    OBVIOUS
  <2>2. ~(y < x)
    BY <1>1, <2>1 DEF OpToRel
  <2>. QED
    BY <2>1, <2>2
<1>. QED
  BY <1>2

\* Two logs that agree up to frame m have the same transactions up to there.
LEMMA SamePrefix ==
    ASSUME NEW w \in Seq(Frame), NEW v \in Seq(Frame), NEW m \in Nat,
           m <= Len(w), m <= Len(v), \A i \in 1..m : v[i] = w[i],
           NEW s \in Nat, NEW f \in 1..m
    PROVE  /\ IsBoundary(v, f) <=> IsBoundary(w, f)
           /\ IsTransaction(v, s, f) <=> IsTransaction(w, s, f)
           /\ s < f => Entry(v, s, f) = Entry(w, s, f)
<1>1. /\ Len(w) \in Nat /\ Len(v) \in Nat
      /\ f \in 1..Len(w) /\ f \in 1..Len(v) /\ v[f] = w[f]
  OBVIOUS
<1>2. IsBoundary(v, f) <=> IsBoundary(w, f)
  BY <1>1 DEF IsBoundary
<1>3. ASSUME s < f
      PROVE  /\ IsTransaction(v, s, f) <=> IsTransaction(w, s, f)
             /\ Entry(v, s, f) = Entry(w, s, f)
  <2>1. s = 0 \/ s \in 1..m
    BY <1>3
  <2>2. IsBoundary(v, s) <=> IsBoundary(w, s)
    BY <1>1, <2>1 DEF IsBoundary
  <2>3. \A g \in (s + 1)..f : g \in 1..m /\ v[g] = w[g]
    BY <1>3
  <2>4. IsTransaction(v, s, f) <=> IsTransaction(w, s, f)
    BY <1>2, <2>2, <2>3 DEF IsTransaction
  <2>5. SubSeq(v, s + 1, f) = SubSeq(w, s + 1, f)
    <3>1. /\ \A i \in (s + 1)..f : v[i] \in Frame
          /\ \A i \in (s + 1)..f : w[i] \in Frame
      BY <1>1, <2>3
    <3>2. /\ SubSeq(v, s + 1, f) \in Seq(Frame)
          /\ Len(SubSeq(v, s + 1, f)) = f - s
          /\ \A i \in 1..(f - s) : SubSeq(v, s + 1, f)[i] = v[s + i]
      BY <1>3, <3>1, SubSeqProperties
    <3>3. /\ SubSeq(w, s + 1, f) \in Seq(Frame)
          /\ Len(SubSeq(w, s + 1, f)) = f - s
          /\ \A i \in 1..(f - s) : SubSeq(w, s + 1, f)[i] = w[s + i]
      BY <1>3, <3>1, SubSeqProperties
    <3>4. \A i \in 1..(f - s) : v[s + i] = w[s + i]
      BY <2>3
    <3>. QED
      BY <3>2, <3>3, <3>4, SeqEqual
  <2>. QED
    BY <1>1, <2>4, <2>5 DEF Entry, extract_tx
<1>. QED
  BY <1>2, <1>3 DEF IsTransaction

\* A client whose log, locks and commits a step does not touch keeps its part.
LEMMA LogUntouched ==
    ASSUME NEW d \in Client, LogShape(d), LogContent(d),
           wal'[d] = wal[d], mxFrame'[d] = mxFrame[d], txStart'[d] = txStart[d],
           sent'[d] = sent[d], writes'[d] = writes[d], unsent'[d] = unsent[d],
           hadWrite'[d] = hadWrite[d]
    PROVE  LogShape(d)' /\ LogContent(d)'
  BY DEF LogShape, LogContent

\* An empty log holds nothing, and nothing is waiting.
LEMMA LogEmpty ==
    ASSUME NEW d \in Client,
           wal'[d] = <<>>, mxFrame'[d] = 0, txStart'[d] = 0, sent'[d] = 0,
           unsent'[d] = {}
    PROVE  LogShape(d)' /\ LogContent(d)'
<1>1. Len(wal'[d]) = 0
  OBVIOUS
<1>. QED
  BY <1>1 DEF LogShape, LogContent, IsBoundary

\* reset_wal of a client with nothing left to send empties its log.
LEMMA LogReset ==
    ASSUME NEW c \in Client, ReplicaInv', wal'[c] = <<>>, mxFrame'[c] = 0,
           status'[c] # "sending", unsent'[c] = {}
    PROVE  LogShape(c)' /\ LogContent(c)'
<1>1. /\ txStart'[c] <= mxFrame'[c] /\ txStart'[c] \in Nat
      /\ sent'[c] = 0
  BY DEF ReplicaInv, LockDiscipline, Disciplined, Types
<1>. QED
  BY <1>1, LogEmpty

\* Only a client that had the write lock has commits to send.
LEMMA NothingToSend ==
    ASSUME NEW c \in Client, ReplicaInv, LogInv,
           status[c] \notin {"ready", "sending"}
    PROVE  unsent[c] = {}
  BY DEF ReplicaInv, LockDiscipline, Disciplined, LogInv, LogContent

\* A rolled-back or committed write transaction: what lies between its start
\* and mxFrame becomes a transaction of the log, or nothing.
LEMMA UnlockWriteLog ==
    ASSUME NEW c \in Client, ReplicaInv, LogInv, UnlockWrite(c)
    PROVE  LogShape(c)' /\ LogContent(c)'
<1> DEFINE w == wal[c]
           t == txStart[c]
           m == mxFrame[c]
<1>1. /\ w \in Seq(Frame) /\ Len(w) \in Nat /\ t \in Nat /\ m \in Nat
      /\ t <= m /\ m <= Len(w) /\ sent[c] = 0 /\ writes[c] # 0 /\ hadWrite[c]
      /\ writes'[c] = 0
  <2>1. writes[c] \in {0, 1} /\ writes[c] # 0 /\ writes' = [writes EXCEPT ![c] = writes[c] - 1]
    BY DEF UnlockWrite, ReplicaInv, Types
  <2>2. writes'[c] = 0
    BY <2>1 DEF ReplicaInv, Types
  <2>. QED
    BY <2>1, <2>2 DEF UnlockWrite, ReplicaInv, LockDiscipline, Disciplined, Types
<1>2. LogShape(c) /\ LogContent(c)
  BY DEF LogInv
<1>3. /\ wal'[c] = w /\ txStart'[c] = t /\ sent'[c] = 0 /\ hadWrite'[c] = hadWrite[c]
  <2>1. sent'[c] = sent[c] \/ sent' = [sent EXCEPT ![c] = 0]
    BY DEF UnlockWrite, MaybeEndTx
  <2>. QED
    BY <1>1, <2>1 DEF UnlockWrite, ReplicaInv, Types
<1>4. /\ \A f \in 1..Len(w) : w[f].dbSize # 0 => f <= m
      /\ IsBoundary(w, t)
      /\ \A f \in (t + 1)..(m - 1) : w[f].dbSize = 0
  BY <1>1, <1>2 DEF LogShape
<1>5. /\ \A s \in 0..Len(w) : \A f \in 1..Len(w) :
            IsTransaction(w, s, f) /\ f <= t => Entry(w, s, f) \in unsent[c]
      /\ \A u \in unsent[c] : \E s \in 0..Len(w) : \E f \in 1..Len(w) :
            IsTransaction(w, s, f) /\ u = Entry(w, s, f)
  BY <1>1, <1>2 DEF LogContent
<1>. HIDE DEF w, t, m
<1>6. CASE Committed(c)
  <2>1. m > t /\ w[m].dbSize # 0
    BY <1>6 DEF Committed, m, t, w
  <2>2. mxFrame'[c] = m /\ unsent'[c] = unsent[c] \cup {Entry(w, t, m)}
    BY <1>6 DEF UnlockWrite, Entry, ReplicaInv, Types, m, t, w
  <2>3. IsBoundary(w, m) /\ IsTransaction(w, t, m) /\ t \in 0..Len(w) /\ m \in 1..Len(w)
    BY <1>1, <1>4, <2>1 DEF IsBoundary, IsTransaction
  <2>4. ASSUME NEW s \in 0..Len(w), NEW f \in 1..Len(w), IsTransaction(w, s, f), f > t
        PROVE  s = t /\ f = m
    <3>1. w[f].dbSize # 0 /\ f <= m
      BY <1>4, <2>4 DEF IsTransaction, IsBoundary
    <3>2. f = m
      BY <1>1, <1>4, <2>4, <3>1
    <3>3. s < m /\ (s = 0 \/ w[s].dbSize # 0) /\ \A g \in (s + 1)..(m - 1) : w[g].dbSize = 0
      BY <2>4, <3>2 DEF IsTransaction, IsBoundary
    <3>4. s <= t
      BY <1>1, <1>4, <3>3
    <3>5. ~(s < t)
      BY <1>1, <1>4, <2>1, <3>3 DEF IsBoundary
    <3>. QED
      BY <1>1, <3>2, <3>4, <3>5
  <2>5. \A s \in 0..Len(w) : \A f \in 1..Len(w) :
            IsTransaction(w, s, f) => Entry(w, s, f) \in unsent'[c]
    BY <1>1, <1>5, <2>2, <2>4
  <2>6. \A u \in unsent'[c] : \E s \in 0..Len(w) : \E f \in 1..Len(w) :
            IsTransaction(w, s, f) /\ u = Entry(w, s, f)
    BY <1>5, <2>2, <2>3
  <2>7. LogShape(c)'
    BY <1>1, <1>3, <1>4, <2>2, <2>3 DEF LogShape, IsBoundary
  <2>8. LogContent(c)'
    BY <1>1, <1>3, <2>5, <2>6 DEF LogContent
  <2>. QED
    BY <2>7, <2>8
<1>7. CASE ~Committed(c)
  <2>1. m = t \/ w[m].dbSize = 0
    BY <1>1, <1>7 DEF Committed, m, t, w
  <2>2. mxFrame'[c] = t /\ unsent'[c] = unsent[c]
    BY <1>7 DEF UnlockWrite, ReplicaInv, Types, t
  <2>3. \A f \in 1..Len(w) : w[f].dbSize # 0 => f <= t
    BY <1>1, <1>4, <2>1
  <2>4. \A s \in 0..Len(w) : \A f \in 1..Len(w) :
            IsTransaction(w, s, f) => Entry(w, s, f) \in unsent[c]
    BY <1>5, <2>3 DEF IsTransaction, IsBoundary
  <2>5. LogShape(c)'
    BY <1>1, <1>3, <1>4, <2>2, <2>3 DEF LogShape, IsBoundary
  <2>6. LogContent(c)'
    BY <1>1, <1>3, <1>5, <2>2, <2>4 DEF LogContent
  <2>. QED
    BY <2>5, <2>6
<1>. QED
  BY <1>6, <1>7

\* The write lock is taken at the end of a transaction.
LEMMA LockWriteLog ==
    ASSUME NEW c \in Client, ReplicaInv, LogInv, LockWrite(c)
    PROVE  LogShape(c)' /\ LogContent(c)'
<1>1. /\ wal'[c] = wal[c] /\ sent'[c] = sent[c] /\ mxFrame'[c] = mxFrame[c]
      /\ unsent'[c] = unsent[c] /\ txStart'[c] = mxFrame[c] /\ writes'[c] # 0
      /\ hadWrite'[c] /\ writes[c] = 0 /\ mxFrame[c] \in Nat
  BY DEF LockWrite, ReplicaInv, Types
<1>2. LogShape(c) /\ LogContent(c)
  BY DEF LogInv
<1>3. LogShape(c)'
  BY <1>1, <1>2 DEF LogShape
<1>4. LogContent(c)'
  BY <1>1, <1>2 DEF LogContent
<1>. QED
  BY <1>3, <1>4

\* A frame is written behind every committed transaction, over what was rolled
\* back.
LEMMA WriteFrameLog ==
    ASSUME NEW c \in Client, ReplicaInv, LogInv, WriteFrame(c)
    PROVE  LogShape(c)' /\ LogContent(c)'
<1> DEFINE w == wal[c]
           v == wal'[c]
           t == txStart[c]
           m == mxFrame[c]
<1>1. /\ w \in Seq(Frame) /\ Len(w) \in Nat /\ t \in Nat /\ m \in Nat
      /\ t <= m /\ m <= Len(w) /\ sent[c] = 0 /\ writes[c] # 0 /\ hadWrite[c]
  BY DEF WriteFrame, ReplicaInv, LockDiscipline, Disciplined, Types
<1>2. /\ m = t \/ w[m].dbSize = 0
      /\ mxFrame'[c] = m + 1 /\ txStart'[c] = t /\ sent'[c] = 0
      /\ writes'[c] = writes[c] /\ hadWrite'[c] = hadWrite[c] /\ unsent'[c] = unsent[c]
  BY <1>1 DEF WriteFrame, Committed, ReplicaInv, Types
<1>3. PICK f \in Frame : v = PutFrame(w, m, f)
  BY DEF WriteFrame, Frame, ReplicaInv, Types
<1>4. LogShape(c) /\ LogContent(c)
  BY DEF LogInv
<1>5. /\ \A g \in 1..Len(w) : w[g].dbSize # 0 => g <= m
      /\ IsBoundary(w, t)
      /\ \A g \in (t + 1)..(m - 1) : w[g].dbSize = 0
  BY <1>1, <1>4 DEF LogShape
<1>6. /\ \A s \in 0..Len(w) : \A g \in 1..Len(w) :
            IsTransaction(w, s, g) /\ g <= t => Entry(w, s, g) \in unsent[c]
      /\ \A u \in unsent[c] : \E s \in 0..Len(w) : \E g \in 1..Len(w) :
            IsTransaction(w, s, g) /\ u = Entry(w, s, g)
  BY <1>1, <1>4 DEF LogContent
<1>. HIDE DEF w, v, t, m
<1>7. /\ v \in Seq(Frame) /\ Len(v) \in Nat /\ m + 1 <= Len(v)
      /\ \A i \in 1..m : v[i] = w[i]
      /\ \A i \in (m + 2)..Len(v) : i <= Len(w) /\ v[i] = w[i]
  <2>1. /\ PutFrame(w, m, f) \in Seq(Frame) /\ m + 1 <= Len(PutFrame(w, m, f))
        /\ \A i \in 1..m : PutFrame(w, m, f)[i] = w[i]
        /\ \A i \in (m + 2)..Len(PutFrame(w, m, f)) :
               i <= Len(w) /\ PutFrame(w, m, f)[i] = w[i]
    BY <1>1, PutFrameProperties
  <2>. QED
    BY <1>3, <2>1
<1>8. ASSUME NEW s \in Nat, NEW g \in 1..m
      PROVE  /\ IsBoundary(v, g) <=> IsBoundary(w, g)
             /\ IsTransaction(v, s, g) <=> IsTransaction(w, s, g)
             /\ s < g => Entry(v, s, g) = Entry(w, s, g)
  <2>1. m <= Len(v) /\ m <= Len(w)
    BY <1>1, <1>7
  <2>. QED
    BY <1>1, <1>7, <2>1, SamePrefix
<1>9. LogShape(c)'
  <2>1. \A g \in 1..Len(v) : v[g].dbSize # 0 => g <= m + 1
    BY <1>1, <1>5, <1>7
  <2>2. IsBoundary(v, t)
    BY <1>1, <1>5, <1>8 DEF IsBoundary
  <2>3. \A g \in (t + 1)..m : v[g].dbSize = 0
    BY <1>1, <1>2, <1>5, <1>7
  <2>4. (m + 1) - 1 = m
    BY <1>1
  <2>. QED
    BY <1>1, <1>2, <2>1, <2>2, <2>3, <2>4 DEF LogShape, IsBoundary, v
<1>10. LogContent(c)'
  <2>1. ASSUME NEW s \in 0..Len(v), NEW g \in 1..Len(v), IsTransaction(v, s, g), g <= t
        PROVE  Entry(v, s, g) \in unsent[c]
    <3>1. s \in Nat /\ g \in 1..m /\ s < g /\ s \in 0..Len(w) /\ g \in 1..Len(w)
      BY <1>1, <1>7, <2>1 DEF IsTransaction
    <3>2. IsTransaction(w, s, g) /\ Entry(v, s, g) = Entry(w, s, g)
      BY <1>8, <2>1, <3>1
    <3>. QED
      BY <1>6, <2>1, <3>1, <3>2
  <2>2. ASSUME NEW u \in unsent[c]
        PROVE  \E s \in 0..Len(v) : \E g \in 1..Len(v) :
                   IsTransaction(v, s, g) /\ u = Entry(v, s, g)
    <3>1. PICK s \in 0..Len(w), g \in 1..Len(w) :
              IsTransaction(w, s, g) /\ u = Entry(w, s, g)
      BY <1>6
    <3>2. s \in Nat /\ s < g /\ g \in 1..m
      BY <1>1, <1>5, <3>1 DEF IsTransaction, IsBoundary
    <3>3. IsTransaction(v, s, g) /\ Entry(v, s, g) = Entry(w, s, g)
      BY <1>8, <3>1, <3>2
    <3>4. s \in 0..Len(v) /\ g \in 1..Len(v)
      BY <1>1, <1>7, <3>2
    <3>. QED
      BY <3>1, <3>3, <3>4
  <2>. QED
    BY <1>1, <1>2, <2>1, <2>2 DEF LogContent, v
<1>. QED
  BY <1>9, <1>10

\* With IsNextCommit, the client finds the next transaction after sent[c].
LEMMA NextIsTransaction ==
    ASSUME NEW c \in Client, ReplicaInv, LogInv, NEW f \in 1..Len(wal[c]),
           IsNextCommit(c, f)
    PROVE  IsTransaction(wal[c], sent[c], f)
<1>1. IsBoundary(wal[c], sent[c]) /\ sent[c] \in Nat
  BY DEF LogInv, LogShape, ReplicaInv, Types
<1>. QED
  BY <1>1 DEF IsNextCommit, IsTransaction, IsBoundary

\* The accepted transaction, and no other, leaves the set.
LEMMA AcceptLog ==
    ASSUME NEW c \in Client, ReplicaInv, LogInv, Accept(c)
    PROVE  LogShape(c)' /\ LogContent(c)'
<1> DEFINE w == wal[c]
           b == sent[c]
<1>1. /\ w \in Seq(Frame) /\ Len(w) \in Nat /\ b \in Nat
      /\ writes[c] = 0 /\ hadWrite[c] \in BOOLEAN
  <2>1. Types /\ Locks(c) = 0
    BY DEF Accept, ReplicaInv, LockDiscipline, Disciplined
  <2>2. writes[c] = 0
    BY <2>1, NoLocks
  <2>. QED
    BY <2>1, <2>2 DEF Types
<1>2. PICK f \in 1..Len(w) :
          /\ IsNextCommit(c, f)
          /\ sent' = [sent EXCEPT ![c] = f]
          /\ unsent' = [unsent EXCEPT ![c] = unsent[c] \ {Entry(w, b, f)}]
  BY DEF Accept, Entry
<1>3. /\ wal'[c] = w /\ sent'[c] = f /\ unsent'[c] = unsent[c] \ {Entry(w, b, f)}
      /\ writes'[c] = 0 /\ mxFrame'[c] = mxFrame[c] /\ txStart'[c] = txStart[c]
      /\ hadWrite'[c] = hadWrite[c]
  BY <1>1, <1>2 DEF Accept, ReplicaInv, Types
<1>4. LogShape(c) /\ LogContent(c)
  BY DEF LogInv
<1>5. IsTransaction(w, b, f)
  BY <1>2, NextIsTransaction
<1>6. /\ \A s \in b..Len(w) : \A g \in 1..Len(w) :
            IsTransaction(w, s, g) => Entry(w, s, g) \in unsent[c]
      /\ \A u \in unsent[c] : \E s \in b..Len(w) : \E g \in 1..Len(w) :
            IsTransaction(w, s, g) /\ u = Entry(w, s, g)
      /\ ~hadWrite[c] => unsent[c] = {}
  BY <1>1, <1>4 DEF LogContent
<1>. HIDE DEF w, b
<1>7. LogShape(c)'
  BY <1>1, <1>3, <1>4, <1>5 DEF LogShape, IsTransaction, w
<1>8. \A s \in f..Len(w) : \A g \in 1..Len(w) :
            IsTransaction(w, s, g) => Entry(w, s, g) \in unsent'[c]
  <2>. SUFFICES ASSUME NEW s \in f..Len(w), NEW g \in 1..Len(w), IsTransaction(w, s, g)
                PROVE  Entry(w, s, g) \in unsent'[c]
    OBVIOUS
  <2>1. s \in b..Len(w) /\ g # f
    BY <1>1, <1>5 DEF IsTransaction
  <2>2. Entry(w, s, g) # Entry(w, b, f)
    BY <2>1 DEF Entry
  <2>. QED
    BY <1>3, <1>6, <2>1, <2>2
<1>9. ASSUME NEW u \in unsent'[c]
      PROVE  \E s \in f..Len(w) : \E g \in 1..Len(w) :
                 IsTransaction(w, s, g) /\ u = Entry(w, s, g)
  <2>1. PICK s \in b..Len(w), g \in 1..Len(w) :
            IsTransaction(w, s, g) /\ u = Entry(w, s, g)
    BY <1>3, <1>6
  <2>2. u # Entry(w, b, f)
    BY <1>3
  <2>3. /\ s < g /\ w[g].dbSize # 0 /\ (s = 0 \/ w[s].dbSize # 0)
        /\ \A h \in (s + 1)..(g - 1) : w[h].dbSize = 0
    BY <2>1 DEF IsTransaction, IsBoundary
  <2>4. /\ b < f /\ w[f].dbSize # 0
        /\ \A h \in (b + 1)..(f - 1) : w[h].dbSize = 0
    BY <1>5 DEF IsTransaction, IsBoundary
  <2>5. CASE s = b
    <3>1. g = f
      BY <1>1, <2>1, <2>3, <2>4, <2>5
    <3>. QED
      BY <2>1, <2>2, <2>5, <3>1
  <2>6. CASE s # b
    <3>1. s \in f..Len(w)
      BY <1>1, <2>1, <2>3, <2>4, <2>6
    <3>. QED
      BY <2>1, <3>1
  <2>. QED
    BY <2>5, <2>6
<1>10. LogContent(c)'
  BY <1>3, <1>6, <1>8, <1>9 DEF LogContent
<1>. QED
  BY <1>7, <1>10

\* A log without a next commit frame has been sent completely.
LEMMA SendDoneLog ==
    ASSUME NEW c \in Client, ReplicaInv, ReplicaInv', LogInv, SendDone(c)
    PROVE  LogShape(c)' /\ LogContent(c)'
<1> DEFINE w == wal[c]
           T == {f \in 1..Len(w) : f > sent[c] /\ w[f].dbSize # 0}
<1>1. sent[c] \in Nat /\ Len(w) \in Nat /\ ~ \E f \in 1..Len(w) : IsNextCommit(c, f)
  BY DEF SendDone, ReplicaInv, Types
<1>2. T = {}
  <2>. SUFFICES ASSUME T # {} PROVE FALSE
    OBVIOUS
  <2>1. T \subseteq Nat
    OBVIOUS
  <2>2. PICK f \in T : \A y \in T : f <= y
    BY <2>1, LeastNatural
  <2>3. f \in 1..Len(w) /\ f > sent[c] /\ w[f].dbSize # 0
    OBVIOUS
  <2>4. \A g \in (sent[c] + 1)..(f - 1) : g \in 1..Len(w) /\ ~(f <= g)
    BY <1>1, <2>3
  <2>5. \A g \in (sent[c] + 1)..(f - 1) : w[g].dbSize = 0
    BY <1>1, <2>2, <2>4
  <2>6. IsNextCommit(c, f)
    BY <1>1, <2>3, <2>5 DEF IsNextCommit
  <2>. QED
    BY <1>1, <2>3, <2>6
<1>3. unsent[c] = {}
  <2>. SUFFICES ASSUME NEW u \in unsent[c] PROVE FALSE
    OBVIOUS
  <2>1. PICK s \in sent[c]..Len(w), f \in 1..Len(w) : IsTransaction(w, s, f)
    BY DEF LogInv, LogContent
  <2>2. f \in T
    BY <1>1, <2>1 DEF IsTransaction, IsBoundary
  <2>. QED
    BY <1>2, <2>2
<1>4. /\ wal'[c] = <<>> /\ mxFrame'[c] = 0 /\ unsent'[c] = {}
      /\ status'[c] # "sending"
  BY <1>3 DEF SendDone, ReplicaInv, Types
<1>. QED
  BY <1>4, LogReset

\* A step of one client leaves the logs of the others alone.
LEMMA OthersUntouched ==
    ASSUME ReplicaInv, NEW c \in Client, ClientStep(c), NEW d \in Client, d # c
    PROVE  /\ wal'[d] = wal[d] /\ mxFrame'[d] = mxFrame[d]
           /\ txStart'[d] = txStart[d] /\ sent'[d] = sent[d]
           /\ writes'[d] = writes[d] /\ unsent'[d] = unsent[d]
           /\ hadWrite'[d] = hadWrite[d] /\ db'[d] = db[d]
<1>. USE DEF ReplicaInv, Types
<1>1. CASE Open(c) \/ LockRead(c) \/ PullDone(c)
  BY <1>1 DEF Open, LockRead, PullDone
<1>2. CASE Crash(c) \/ Refuse(c)
  BY <1>2 DEF Crash, Refuse, Drop
<1>3. CASE PullChange(c)
  BY <1>3 DEF PullChange
<1>4. CASE UnlockRead(c) \/ LockWrite(c)
  BY <1>4 DEF UnlockRead, LockWrite, MaybeEndTx
<1>5. CASE UnlockWrite(c)
  BY <1>5 DEF UnlockWrite, MaybeEndTx
<1>6. CASE WriteFrame(c) \/ SendDone(c)
  BY <1>6 DEF WriteFrame, SendDone
<1>7. CASE Accept(c)
  BY <1>7 DEF Accept
<1>. QED
  BY <1>1, <1>2, <1>3, <1>4, <1>5, <1>6, <1>7 DEF ClientStep

\* Every step keeps the logs and what SQLite was told together.
LEMMA StepLog ==
    ASSUME ReplicaInv, ReplicaInv', LogInv, NEW c \in Client, ClientStep(c)
    PROVE  LogInv'
<1>. SUFFICES ASSUME NEW d \in Client PROVE LogShape(d)' /\ LogContent(d)'
  BY DEF LogInv
<1>1. LogShape(d) /\ LogContent(d)
  BY DEF LogInv
<1>2. CASE d # c
  <2>1. /\ wal'[d] = wal[d] /\ mxFrame'[d] = mxFrame[d] /\ txStart'[d] = txStart[d]
        /\ sent'[d] = sent[d] /\ writes'[d] = writes[d]
        /\ unsent'[d] = unsent[d] /\ hadWrite'[d] = hadWrite[d]
    BY <1>2, OthersUntouched
  <2>. QED
    BY <1>1, <2>1, LogUntouched
<1>3. CASE d = c
  <2>1. CASE Open(c) \/ PullChange(c)
    <3>1. unsent[c] = {}
      BY <2>1, NothingToSend DEF Open, PullChange
    <3>2. /\ wal'[c] = <<>> /\ mxFrame'[c] = 0 /\ unsent'[c] = {}
          /\ status'[c] # "sending"
      <4>1. CASE Open(c)
        BY <3>1, <4>1 DEF Open, ReplicaInv, Types
      <4>2. CASE PullChange(c)
        BY <3>1, <4>2 DEF PullChange, ReplicaInv, Types
      <4>. QED
        BY <2>1, <4>1, <4>2
    <3>. QED
      BY <1>3, <3>2, LogReset
  <2>2. CASE Crash(c) \/ Refuse(c)
    <3>1. /\ wal'[c] = <<>> /\ mxFrame'[c] = 0 /\ unsent'[c] = {}
          /\ status'[c] # "sending"
      <4>1. CASE Crash(c)
        BY <4>1 DEF Crash, Drop, ReplicaInv, Types
      <4>2. CASE Refuse(c)
        BY <4>2 DEF Refuse, Drop, ReplicaInv, Types
      <4>. QED
        BY <2>2, <4>1, <4>2
    <3>. QED
      BY <1>3, <3>1, LogReset
  <2>3. CASE LockRead(c) \/ PullDone(c) \/ UnlockRead(c)
    <3>1. /\ wal'[c] = wal[c] /\ mxFrame'[c] = mxFrame[c]
          /\ txStart'[c] = txStart[c] /\ writes'[c] = writes[c]
          /\ unsent'[c] = unsent[c] /\ hadWrite'[c] = hadWrite[c]
      BY <2>3 DEF LockRead, PullDone, UnlockRead
    <3>2. sent'[c] = sent[c]
      BY <2>3 DEF LockRead, PullDone, UnlockRead, MaybeEndTx, ReplicaInv, Types,
                  LockDiscipline, Disciplined
    <3>. QED
      BY <1>1, <1>3, <3>1, <3>2, LogUntouched
  <2>4. CASE LockWrite(c)
    BY <1>3, <2>4, LockWriteLog
  <2>5. CASE UnlockWrite(c)
    BY <1>3, <2>5, UnlockWriteLog
  <2>6. CASE WriteFrame(c)
    BY <1>3, <2>6, WriteFrameLog
  <2>7. CASE Accept(c)
    BY <1>3, <2>7, AcceptLog
  <2>8. CASE SendDone(c)
    BY <1>3, <2>8, SendDoneLog
  <2>. QED
    BY <2>1, <2>2, <2>3, <2>4, <2>5, <2>6, <2>7, <2>8 DEF ClientStep
<1>. QED
  BY <1>2, <1>3

-----------------------------------------------------------------------------
(* What apply_tx computes.  FoldLeft is a recursive function over the sets of
   indices of the writes; that the recursion has a solution, and what holds
   after each write, are shown with the least index for which they fail. *)

\* g is the recursion of FoldLeft over the subsets of D.
IsFold(g, D, image, ws) ==
    g = [s \in SUBSET D |->
            IF s = {} THEN image
            ELSE WritePage(g[s \ {Max(s)}], ws[Max(s)])]

\* If the recursion has a solution, FoldLeft is one at the set of all indices.
LEMMA FoldIsChosen ==
    ASSUME NEW image, NEW ws, NEW h, IsFold(h, DOMAIN ws, image, ws)
    PROVE  \E g : /\ IsFold(g, DOMAIN ws, image, ws)
                  /\ FoldLeft(WritePage, image, ws) = g[DOMAIN ws]
<1>1. \E g : /\ g = CHOOSE k : IsFold(k, DOMAIN ws, image, ws)
             /\ FoldLeft(WritePage, image, ws) = g[DOMAIN ws]
  BY Zenon DEF FoldLeft, MapThenFoldSet, IsFold
<1>. QED
  BY <1>1, Zenon

\* FoldLeft takes the largest index last.
LEMMA MaxIsLast ==
    ASSUME NEW n \in Nat, NEW s, s \subseteq 1..(n + 1), n + 1 \in s
    PROVE  Max(s) = n + 1
<1>1. \A x \in s : x \in Nat /\ x <= n + 1
  OBVIOUS
<1>2. \A y \in s : n + 1 >= y
  BY <1>1
<1>3. \E x \in s : \A y \in s : x >= y
  BY <1>2
<1>4. Max(s) \in s /\ \A y \in s : Max(s) >= y
  BY <1>3 DEF Max
<1>5. Max(s) <= n + 1 /\ Max(s) >= n + 1 /\ Max(s) \in Nat
  BY <1>1, <1>4
<1>. QED
  BY <1>5

\* A solution for the first n indices extends to one more.
LEMMA FoldStep ==
    ASSUME NEW image, NEW ws, NEW n \in Nat, NEW g, IsFold(g, 1..n, image, ws)
    PROVE  \E h : IsFold(h, 1..(n + 1), image, ws)
<1> DEFINE h == [s \in SUBSET (1..(n + 1)) |->
                    IF n + 1 \in s THEN WritePage(g[s \ {n + 1}], ws[n + 1])
                    ELSE g[s]]
<1>1. \A s \in SUBSET (1..(n + 1)) : n + 1 \notin s => s \in SUBSET (1..n)
  OBVIOUS
<1>2. ASSUME NEW s \in SUBSET (1..(n + 1)), n + 1 \in s
      PROVE  h[s] = WritePage(h[s \ {Max(s)}], ws[Max(s)])
  <2>1. Max(s) = n + 1
    BY <1>2, MaxIsLast
  <2>2. s \ {n + 1} \in SUBSET (1..(n + 1)) /\ n + 1 \notin s \ {n + 1}
    OBVIOUS
  <2>3. h[s \ {n + 1}] = g[s \ {n + 1}]
    BY <2>2
  <2>4. h[s] = WritePage(g[s \ {n + 1}], ws[n + 1])
    BY <1>2
  <2>. QED
    BY <2>1, <2>3, <2>4
<1>3. ASSUME NEW s \in SUBSET (1..(n + 1)), n + 1 \notin s, s # {}
      PROVE  h[s] = WritePage(h[s \ {Max(s)}], ws[Max(s)])
  <2>1. s \in SUBSET (1..n)
    BY <1>1, <1>3
  <2>2. g[s] = WritePage(g[s \ {Max(s)}], ws[Max(s)])
    BY <1>3, <2>1 DEF IsFold
  <2>3. h[s] = g[s]
    BY <1>3
  <2>4. s \ {Max(s)} \in SUBSET (1..(n + 1)) /\ n + 1 \notin s \ {Max(s)}
    BY <1>3
  <2>5. h[s \ {Max(s)}] = g[s \ {Max(s)}]
    BY <2>4
  <2>. QED
    BY <2>2, <2>3, <2>5
<1>4. h[{}] = image
  <2>1. {} \in SUBSET (1..n) /\ {} \in SUBSET (1..(n + 1)) /\ n + 1 \notin {}
    OBVIOUS
  <2>2. g[{}] = image
    BY <2>1 DEF IsFold
  <2>. QED
    BY <2>1, <2>2
<1>5. h = [s \in SUBSET (1..(n + 1)) |-> h[s]]
  OBVIOUS
<1> HIDE DEF h
<1>6. \A s \in SUBSET (1..(n + 1)) :
          h[s] = IF s = {} THEN image
                 ELSE WritePage(h[s \ {Max(s)}], ws[Max(s)])
  BY <1>2, <1>3, <1>4
<1>7. IsFold(h, 1..(n + 1), image, ws)
  BY <1>5, <1>6 DEF IsFold
<1>. QED
  BY <1>7

\* The recursion has a solution for any number of writes.
LEMMA FoldExists ==
    ASSUME NEW image, NEW ws, NEW n \in Nat
    PROVE  \E g : IsFold(g, 1..n, image, ws)
<1> DEFINE T == {m \in Nat : ~ \E g : IsFold(g, 1..m, image, ws)}
<1>1. SUFFICES ASSUME T # {} PROVE FALSE
  OBVIOUS
<1>2. PICK m \in T : \A y \in T : m <= y
  BY <1>1, LeastNatural
<1>3. 0 \notin T
  <2> DEFINE z == [s \in SUBSET (1..0) |-> image]
  <2>1. \A s \in SUBSET (1..0) : s = {}
    OBVIOUS
  <2>2. z = [s \in SUBSET (1..0) |-> IF s = {} THEN image
                 ELSE WritePage(z[s \ {Max(s)}], ws[Max(s)])]
    BY <2>1
  <2> HIDE DEF z
  <2>3. IsFold(z, 1..0, image, ws)
    BY <2>2 DEF IsFold
  <2>. QED
    BY <2>3
<1>4. m - 1 \in Nat /\ m \in Nat /\ (m - 1) + 1 = m
  BY <1>2, <1>3
<1>5. m - 1 \notin T
  BY <1>2, <1>4
<1>6. PICK g : IsFold(g, 1..(m - 1), image, ws)
  BY <1>4, <1>5
<1>7. \E h : IsFold(h, 1..((m - 1) + 1), image, ws)
  BY <1>4, <1>6, FoldStep
<1>. QED
  BY <1>2, <1>4, <1>7

\* Writing page after page: what FoldLeft computes.
LEMMA FoldWrites ==
    ASSUME NEW image, NEW ws \in Seq(Frame)
    PROVE  \E F : /\ F[0] = image
                  /\ \A n \in 1..Len(ws) : F[n] = WritePage(F[n - 1], ws[n])
                  /\ FoldLeft(WritePage, image, ws) = F[Len(ws)]
<1>1. Len(ws) \in Nat /\ DOMAIN ws = 1..Len(ws)
  OBVIOUS
<1>2. PICK g : /\ IsFold(g, 1..Len(ws), image, ws)
               /\ FoldLeft(WritePage, image, ws) = g[1..Len(ws)]
  BY <1>1, FoldExists, FoldIsChosen
<1> DEFINE F == [n \in 0..Len(ws) |-> g[1..n]]
<1>3. F[0] = image
  <2>1. 1..0 = {} /\ {} \in SUBSET (1..Len(ws)) /\ F[0] = g[1..0]
    BY <1>1
  <2>. QED
    BY <1>2, <2>1 DEF IsFold
<1>4. ASSUME NEW n \in 1..Len(ws) PROVE F[n] = WritePage(F[n - 1], ws[n])
  <2>1. /\ n - 1 \in Nat /\ n \in Nat /\ (n - 1) + 1 = n
        /\ n \in 0..Len(ws) /\ n - 1 \in 0..Len(ws)
    BY <1>1
  <2>2. n \in 1..n /\ 1..n # {} /\ 1..n \in SUBSET (1..Len(ws))
    BY <1>1, <2>1
  <2>3. Max(1..n) = n
    BY <2>1, <2>2, MaxIsLast
  <2>4. (1..n) \ {n} = 1..(n - 1)
    BY <2>1
  <2>5. g[1..n] = WritePage(g[(1..n) \ {Max(1..n)}], ws[Max(1..n)])
    BY <1>2, <2>2 DEF IsFold
  <2>. QED
    BY <2>1, <2>3, <2>4, <2>5
<1>5. FoldLeft(WritePage, image, ws) = F[Len(ws)]
  BY <1>1, <1>2
<1> HIDE DEF F
<1>. QED
  BY <1>3, <1>4, <1>5

Page == Client \cup {Zero, Empty}

\* One write puts its page and keeps the others.
LEMMA WritePageResult ==
    ASSUME NEW image \in Seq(Page), NEW w \in Frame, NEW new, new = WritePage(image, w)
    PROVE  /\ new \in Seq(Page)
           /\ Len(new) >= Len(image) /\ Len(new) >= w.page
           /\ w.page \in 1..Len(new) /\ new[w.page] = w.data
           /\ \A p \in 1..Len(new) : p # w.page =>
                  (p <= Len(image) => new[p] = image[p])
<1> DEFINE n == IF w.page > Len(image) THEN w.page ELSE Len(image)
<1>1. /\ w.page \in Nat /\ w.page >= 1 /\ w.data \in Page /\ Len(image) \in Nat
      /\ \A p \in 1..Len(image) : image[p] \in Page
  BY ConstantsAssumption DEF Frame, Page
<1>2. n \in Nat /\ n >= Len(image) /\ n >= w.page
  BY <1>1
<1>3. new = [p \in 1..n |-> IF p = w.page THEN w.data
                            ELSE IF p <= Len(image) THEN image[p] ELSE Zero]
  BY DEF WritePage
<1>. HIDE DEF n
<1>4. new \in [1..n -> Page]
  BY <1>1, <1>3 DEF Page
<1>5. new \in Seq(Page) /\ Len(new) = n
  BY <1>2, <1>4, SeqDef
<1>. QED
  BY <1>1, <1>2, <1>3, <1>5

\* The image r after the first n writes of ws: every page has the last content
\* written to it, or the one it had.
Written(image, ws, n, r) ==
    /\ r \in Seq(Page)
    /\ Len(r) >= Len(image)
    /\ \A i \in 1..n : ws[i].page <= Len(r)
    /\ \A p \in 1..Len(r) :
           \/ \E i \in 1..n : /\ ws[i].page = p /\ ws[i].data = r[p]
                              /\ \A x \in (i + 1)..n : ws[x].page # p
           \/ /\ \A i \in 1..n : ws[i].page # p
              /\ p <= Len(image) => r[p] = image[p]

\* One write more.
LEMMA WrittenStep ==
    ASSUME NEW image \in Seq(Page), NEW ws \in Seq(Frame), NEW n \in 1..Len(ws),
           NEW r, Written(image, ws, n - 1, r), NEW new, new = WritePage(r, ws[n])
    PROVE  Written(image, ws, n, new)
<1>1. /\ r \in Seq(Page) /\ ws[n] \in Frame /\ n \in Nat /\ n >= 1 /\ Len(r) \in Nat
      /\ Len(image) \in Nat /\ Len(r) >= Len(image) /\ n - 1 \in Nat
  BY DEF Written
<1>2. /\ new \in Seq(Page)
      /\ Len(new) >= Len(r) /\ Len(new) >= ws[n].page
      /\ ws[n].page \in 1..Len(new) /\ new[ws[n].page] = ws[n].data
      /\ \A p \in 1..Len(new) : p # ws[n].page =>
             (p <= Len(r) => new[p] = r[p])
  <2>1. r \in Seq(Page) /\ ws[n] \in Frame
    BY <1>1
  <2>. QED
    BY <2>1, WritePageResult
<1>n. Len(new) \in Nat
  BY <1>2
<1>3. \A i \in 1..n : i \in 1..(n - 1) \/ i = n
  BY <1>1
<1>p. \A i \in 1..n : ws[i].page \in Nat
  <2>. TAKE i \in 1..n
  <2>1. i \in 1..Len(ws)
    BY <1>1
  <2>2. ws[i] \in Frame
    BY <2>1
  <2>. QED
    BY <2>2, ConstantsAssumption DEF Frame
<1>4. \A i \in 1..n : ws[i].page <= Len(new)
  <2>. TAKE i \in 1..n
  <2>1. CASE i = n
    BY <1>2, <1>n, <1>p, <2>1
  <2>2. CASE i \in 1..(n - 1)
    <3>1. ws[i].page <= Len(r)
      BY <2>2 DEF Written
    <3>. QED
      BY <1>1, <1>2, <1>n, <1>p, <3>1
  <2>. QED
    BY <1>3, <2>1, <2>2
<1>5. ASSUME NEW p \in 1..Len(new)
      PROVE  \/ \E i \in 1..n : /\ ws[i].page = p /\ ws[i].data = new[p]
                                /\ \A x \in (i + 1)..n : ws[x].page # p
             \/ /\ \A i \in 1..n : ws[i].page # p
                /\ p <= Len(image) => new[p] = image[p]
  <2>1. CASE p = ws[n].page
    <3>1. n \in 1..n /\ (n + 1)..n = {} /\ ws[n].page = p /\ ws[n].data = new[p]
      BY <1>1, <1>2, <1>n, <2>1
    <3>. QED
      BY <3>1
  <2>2. CASE p # ws[n].page /\ p \in 1..Len(r)
    <3>1. new[p] = r[p]
      BY <1>2, <1>n, <2>2
    <3>2. CASE \E i \in 1..(n - 1) : /\ ws[i].page = p /\ ws[i].data = r[p]
                                     /\ \A x \in (i + 1)..(n - 1) : ws[x].page # p
      <4>1. PICK i \in 1..(n - 1) : /\ ws[i].page = p /\ ws[i].data = r[p]
                                    /\ \A x \in (i + 1)..(n - 1) : ws[x].page # p
        BY <3>2
      <4>2. i \in 1..n /\ \A x \in (i + 1)..n : x \in (i + 1)..(n - 1) \/ x = n
        BY <1>1
      <4>3. \A x \in (i + 1)..n : ws[x].page # p
        BY <2>2, <4>1, <4>2
      <4>. QED
        BY <3>1, <4>1, <4>2, <4>3
    <3>3. CASE /\ \A i \in 1..(n - 1) : ws[i].page # p
               /\ p <= Len(image) => r[p] = image[p]
      BY <1>3, <2>2, <3>1, <3>3
    <3>. QED
      BY <2>2, <3>2, <3>3 DEF Written
  <2>3. CASE p # ws[n].page /\ ~(p \in 1..Len(r))
    <3>1. p > Len(r) /\ p \in Nat
      BY <1>1, <1>2, <1>n, <2>3
    <3>2. \A i \in 1..(n - 1) : ws[i].page <= Len(r)
      BY DEF Written
    <3>3. \A i \in 1..n : ws[i].page # p
      <4>. TAKE i \in 1..n
      <4>. QED
        BY <1>1, <1>3, <1>p, <2>3, <3>1, <3>2
    <3>4. ~(p <= Len(image))
      BY <1>1, <3>1
    <3>. QED
      BY <3>3, <3>4
  <2>. QED
    BY <2>1, <2>2, <2>3
<1>6. Len(new) >= Len(image)
  BY <1>1, <1>2, <1>n
<1>. QED
  BY <1>2, <1>n, <1>4, <1>5, <1>6 DEF Written

\* All writes of a transaction, one after the other.
LEMMA FoldWritten ==
    ASSUME NEW image \in Seq(Page), NEW ws \in Seq(Frame)
    PROVE  Written(image, ws, Len(ws), FoldLeft(WritePage, image, ws))
<1>1. PICK F : /\ F[0] = image
               /\ \A n \in 1..Len(ws) : F[n] = WritePage(F[n - 1], ws[n])
               /\ FoldLeft(WritePage, image, ws) = F[Len(ws)]
  BY FoldWrites
<1> DEFINE T == {n \in 0..Len(ws) : ~Written(image, ws, n, F[n])}
<1>2. Len(ws) \in Nat /\ Len(ws) \in 0..Len(ws)
  OBVIOUS
<1>3. SUFFICES ASSUME T # {} PROVE FALSE
  BY <1>1, <1>2
<1>4. T \subseteq Nat
  OBVIOUS
<1>5. PICK m \in T : \A y \in T : m <= y
  BY <1>3, <1>4, LeastNatural
<1>6. Written(image, ws, 0, F[0])
  <2>1. Written(image, ws, 0, image)
    BY DEF Written
  <2>. QED
    BY <1>1, <2>1
<1>7. m \in 1..Len(ws) /\ m - 1 \in 0..Len(ws) /\ ~(m <= m - 1)
  BY <1>2, <1>5, <1>6
<1>8. Written(image, ws, m - 1, F[m - 1])
  BY <1>5, <1>7
<1>9. F[m] = WritePage(F[m - 1], ws[m])
  BY <1>1, <1>7
<1>10. Written(image, ws, m, F[m])
  BY <1>7, <1>8, <1>9, WrittenStep
<1>. QED
  BY <1>5, <1>10

\* The pages that the image lacks are written by the transaction.
Covers(image, tx) ==
    \A p \in (Len(image) + 1)..tx.dbSize :
        \E i \in DOMAIN tx.writes : tx.writes[i].page = p

\* Every page of new has the last content tx wrote to it, or that of image.
Updated(image, tx, new) ==
    \A p \in 1..tx.dbSize :
        \/ \E i \in DOMAIN tx.writes :
               /\ tx.writes[i].page = p /\ tx.writes[i].data = new[p]
               /\ \A x \in (i + 1)..Len(tx.writes) : tx.writes[x].page # p
        \/ /\ \A i \in DOMAIN tx.writes : tx.writes[i].page # p
           /\ p \in 1..Len(image) /\ new[p] = image[p]

\* What apply_tx computes: an image of the size of the transaction, whose pages
\* have the last content the transaction wrote to them, or the one they had.
LEMMA ApplyResult ==
    ASSUME NEW image \in Seq(Page), NEW tx \in Transaction, Covers(image, tx),
           NEW new, new = apply_tx(image, tx)
    PROVE  /\ new \in Seq(Page) /\ Len(new) = tx.dbSize
           /\ Updated(image, tx, new)
<1> DEFINE ws == tx.writes
           r == FoldLeft(WritePage, image, ws)
<1>1. /\ ws \in Seq(Frame) /\ tx.dbSize \in Nat /\ Len(image) \in Nat
      /\ DOMAIN ws = 1..Len(ws) /\ Len(ws) \in Nat
  BY ConstantsAssumption DEF Transaction
<1>2. Written(image, ws, Len(ws), r)
  BY <1>1, FoldWritten
<1>3. new = IF Len(r) > tx.dbSize THEN SubSeq(r, 1, tx.dbSize) ELSE r
  BY DEF apply_tx
<1>4. \A p \in (Len(image) + 1)..tx.dbSize : \E i \in 1..Len(ws) : ws[i].page = p
  BY <1>1 DEF Covers
<1>. HIDE DEF ws, r
<1>5. r \in Seq(Page) /\ Len(r) \in Nat /\ Len(r) >= Len(image)
  BY <1>2 DEF Written
<1>6. Len(r) >= tx.dbSize
  <2>1. CASE tx.dbSize <= Len(image)
    BY <1>1, <1>5, <2>1
  <2>2. CASE tx.dbSize > Len(image)
    <3>1. tx.dbSize \in (Len(image) + 1)..tx.dbSize
      BY <1>1, <2>2
    <3>2. PICK i \in 1..Len(ws) : ws[i].page = tx.dbSize
      BY <1>4, <3>1
    <3>. QED
      BY <1>1, <1>2, <1>5, <3>2 DEF Written
  <2>. QED
    BY <1>1, <2>1, <2>2
<1>7. /\ new \in Seq(Page) /\ Len(new) = tx.dbSize
      /\ \A p \in 1..tx.dbSize : new[p] = r[p]
  <2>1. CASE Len(r) > tx.dbSize
    BY <1>1, <1>3, <1>5, <2>1
  <2>2. CASE ~(Len(r) > tx.dbSize)
    BY <1>1, <1>3, <1>5, <1>6, <2>2
  <2>. QED
    BY <2>1, <2>2
<1>8. ASSUME NEW p \in 1..tx.dbSize
      PROVE  \/ \E i \in 1..Len(ws) :
                    /\ ws[i].page = p /\ ws[i].data = new[p]
                    /\ \A x \in (i + 1)..Len(ws) : ws[x].page # p
             \/ /\ \A i \in 1..Len(ws) : ws[i].page # p
                /\ p \in 1..Len(image) /\ new[p] = image[p]
  <2>1. p \in 1..Len(r) /\ new[p] = r[p]
    BY <1>1, <1>5, <1>6, <1>7
  <2>2. \/ \E i \in 1..Len(ws) :
               /\ ws[i].page = p /\ ws[i].data = r[p]
               /\ \A x \in (i + 1)..Len(ws) : ws[x].page # p
        \/ /\ \A i \in 1..Len(ws) : ws[i].page # p
           /\ p <= Len(image) => r[p] = image[p]
    BY <1>2, <2>1 DEF Written
  <2>3. CASE \A i \in 1..Len(ws) : ws[i].page # p
    <3>1. p \notin (Len(image) + 1)..tx.dbSize
      BY <1>4, <2>3
    <3>2. p \in 1..Len(image)
      BY <1>1, <3>1
    <3>3. p <= Len(image)
      BY <1>1, <3>2
    <3>. QED
      BY <2>1, <2>2, <2>3, <3>2, <3>3
  <2>. QED
    BY <2>1, <2>2, <2>3
<1>. QED
  BY <1>1, <1>7, <1>8 DEF ws, Updated

-----------------------------------------------------------------------------
(* The pages of the transactions *)

\* What is accepted is the first transaction of a log, made from the newest
\* image.
LEMMA CommitStep ==
    ASSUME ReplicaInv, NEW c \in Client, Accept(c)
    PROVE  /\ author' = Append(author, c)
           /\ status[c] = "sending" /\ sent[c] = 0 /\ db[c] = latest
<1>1. author' = Append(author, c) /\ status[c] = "sending" /\ version[c] = latestVersion
  BY DEF Accept
<1>2. sent[c] = 0
  BY <1>1 DEF ReplicaInv, SentBehind, Types
<1>3. db[c] = latest
  BY <1>1 DEF ReplicaInv, ReplicaExact, ServerLog, Alive
<1>. QED
  BY <1>1, <1>2, <1>3

\* An accepted transaction writes every page that the newest image lacks.
LEMMA AcceptCovers ==
    ASSUME NEW c \in Client, ReplicaInv, PageInv, Accept(c)
    PROVE  \E tx \in Transaction :
               /\ Covers(latest, tx)
               /\ latest' = apply_tx(latest, tx)
               /\ changes' = Append(changes, [tx |-> tx, version |-> latestVersion + 1])
<1>1. PICK f \in 1..Len(wal[c]) :
          /\ IsNextCommit(c, f)
          /\ latest' = apply_tx(latest, extract_tx(wal[c], sent[c], f))
          /\ changes' = Append(changes, [tx |-> extract_tx(wal[c], sent[c], f),
                                         version |-> latestVersion + 1])
  BY DEF Accept
<1>2. sent[c] = 0 /\ db[c] = latest
  BY CommitStep
<1> DEFINE w == wal[c]
           tx == extract_tx(w, 0, f)
<1>3. w \in Seq(Frame) /\ f \in 1..Len(w) /\ Len(w) \in Nat /\ w[f] \in Frame
  BY DEF ReplicaInv, Types
<1>4. /\ SubSeq(w, 1, f) \in Seq(Frame) /\ Len(SubSeq(w, 1, f)) = f
      /\ \A i \in 1..f : SubSeq(w, 1, f)[i] = w[i]
  BY <1>3
<1>5. tx.writes = SubSeq(w, 1, f) /\ tx.dbSize = w[f].dbSize
  BY DEF extract_tx
<1>6. tx \in Transaction
  BY <1>3, <1>4 DEF extract_tx, Transaction, Frame
<1>7. Covers(latest, tx)
  <2>1. w[f].dbSize # 0
    BY <1>1 DEF IsNextCommit
  <2>2. \A p \in (Len(latest) + 1)..w[f].dbSize : \E i \in 1..f : w[i].page = p
    BY <1>2, <1>3, <2>1 DEF PageInv, PagesCovered
  <2>3. DOMAIN tx.writes = 1..f
    BY <1>3, <1>4, <1>5
  <2>. QED
    BY <1>4, <1>5, <2>2, <2>3 DEF Covers
<1>. QED
  BY <1>1, <1>2, <1>6, <1>7

\* The server's image changes with Accept alone.
LEMMA SameLatest ==
    ASSUME NEW c \in Client, ClientStep(c), ~Accept(c)
    PROVE  latest' = latest /\ changes' = changes
  BY DEF ClientStep, Open, Crash, LockRead, PullChange, PullDone, UnlockRead,
         LockWrite, UnlockWrite, WriteFrame, Refuse, SendDone, server

\* A frame that is written after mxFrame keeps what earlier commit frames rely on;
\* a commit frame is only written when the log has the pages it adds.
LEMMA WriteFrameCovers ==
    ASSUME NEW c \in Client, ReplicaInv, LogInv, PageInv, WriteFrame(c)
    PROVE  PagesCovered(c)'
<1> DEFINE w == wal[c]
           v == wal'[c]
           m == mxFrame[c]
<1>1. /\ w \in Seq(Frame) /\ Len(w) \in Nat /\ m \in Nat /\ m <= Len(w)
      /\ db'[c] = db[c]
  BY DEF ReplicaInv, Types, LockDiscipline, Disciplined, WriteFrame
<1>2. PICK f \in [page : 1..MaxPages, data : {c}, dbSize : 0..MaxPages] :
          /\ f.dbSize # 0 =>
                 \A p \in (Len(db[c]) + 1)..f.dbSize :
                     \E i \in 1..(m + 1) : PutFrame(w, m, f)[i].page = p
          /\ wal' = [wal EXCEPT ![c] = PutFrame(w, m, f)]
  BY DEF WriteFrame
<1>3. f \in Frame /\ v = PutFrame(w, m, f)
  BY <1>2 DEF Frame, ReplicaInv, Types
<1>4. /\ v \in Seq(Frame) /\ m + 1 <= Len(v)
      /\ \A i \in 1..m : v[i] = w[i]
      /\ v[m + 1] = f
      /\ \A i \in (m + 2)..Len(v) : i <= Len(w) /\ v[i] = w[i]
  <2>. HIDE DEF w, v, m
  <2>. QED
    BY <1>1, <1>3, PutFrameProperties
<1>5. Len(v) \in Nat
  BY <1>4
<1>6. /\ \A g \in 1..Len(w) : w[g].dbSize # 0 => g <= m
      /\ \A g \in 1..Len(w) : w[g].dbSize # 0 =>
             \A p \in (Len(db[c]) + 1)..w[g].dbSize : \E i \in 1..g : w[i].page = p
  BY DEF LogInv, LogShape, PageInv, PagesCovered
<1>7. f.dbSize # 0 => \A p \in (Len(db[c]) + 1)..f.dbSize :
                          \E i \in 1..(m + 1) : v[i].page = p
  BY <1>2, <1>3
<1>. HIDE DEF w, v, m
<1>8. ASSUME NEW g \in 1..Len(v), v[g].dbSize # 0, NEW p \in (Len(db[c]) + 1)..v[g].dbSize
      PROVE  \E i \in 1..g : v[i].page = p
  <2>1. CASE g <= m
    <3>1. g \in 1..m /\ g \in 1..Len(w) /\ v[g] = w[g]
      BY <1>1, <1>4, <2>1
    <3>2. PICK i \in 1..g : w[i].page = p
      BY <1>6, <1>8, <3>1
    <3>3. i \in 1..m
      BY <1>1, <2>1
    <3>. QED
      BY <1>4, <3>2, <3>3
  <2>2. CASE g = m + 1
    BY <1>4, <1>7, <1>8, <2>2
  <2>3. CASE g > m + 1
    <3>1. g \in (m + 2)..Len(v) /\ g \in Nat
      BY <1>1, <1>5, <2>3
    <3>2. g \in 1..Len(w) /\ v[g] = w[g]
      BY <1>1, <1>4, <3>1
    <3>3. g <= m
      BY <1>6, <1>8, <3>2
    <3>. QED
      BY <1>1, <2>3, <3>1, <3>3
  <2>. QED
    BY <1>1, <1>5, <2>1, <2>2, <2>3
<1>. QED
  BY <1>1, <1>8 DEF PagesCovered, v

\* Images stay sequences of pages, and commit frames covered, whatever a client
\* does: its image changes only when its log is emptied.
LEMMA StepPages ==
    ASSUME ReplicaInv, LogInv, PageInv, NEW c \in Client, ClientStep(c)
    PROVE  PageInv'
<1>1. latest' \in Seq(Client \cup {Zero, Empty})
  <2>1. CASE Accept(c)
    <3>1. PICK tx \in Transaction : Covers(latest, tx) /\ latest' = apply_tx(latest, tx)
      BY <2>1, AcceptCovers
    <3>2. latest \in Seq(Page)
      BY DEF PageInv, Page
    <3>3. latest' \in Seq(Page)
      BY <3>1, <3>2, ApplyResult
    <3>. QED
      BY <3>3 DEF Page
  <2>2. CASE ~Accept(c)
    BY <2>2, SameLatest DEF PageInv
  <2>. QED
    BY <2>1, <2>2
<1>2. ASSUME NEW d \in Client PROVE PagesCovered(d)'
  <2>0. PagesCovered(d)
    BY DEF PageInv
  <2>1. CASE d # c
    BY <2>0, <2>1, OthersUntouched DEF PagesCovered
  <2>2. CASE d = c
    <3>1. CASE WriteFrame(c)
      BY <2>2, <3>1, WriteFrameCovers
    <3>2. CASE Open(c) \/ PullChange(c) \/ SendDone(c)
      <4>1. wal'[c] = <<>>
        BY <3>2 DEF Open, PullChange, SendDone, ReplicaInv, Types
      <4>2. Len(wal'[c]) = 0
        BY <4>1
      <4>. QED
        BY <2>2, <4>2 DEF PagesCovered
    <3>3. CASE Crash(c) \/ Refuse(c)
      <4>1. wal'[c] = <<>>
        BY <3>3 DEF Crash, Refuse, Drop, ReplicaInv, Types
      <4>2. Len(wal'[c]) = 0
        BY <4>1
      <4>. QED
        BY <2>2, <4>2 DEF PagesCovered
    <3>4. CASE LockRead(c) \/ PullDone(c) \/ UnlockRead(c) \/ LockWrite(c)
                 \/ UnlockWrite(c) \/ Accept(c)
      <4>1. UNCHANGED <<wal, db>>
        BY <3>4 DEF LockRead, PullDone, UnlockRead, LockWrite, UnlockWrite, Accept
      <4>. QED
        BY <2>0, <4>1 DEF PagesCovered
    <3>. QED
      BY <3>1, <3>2, <3>3, <3>4 DEF ClientStep
  <2>. QED
    BY <2>1, <2>2
<1>. QED
  BY <1>1, <1>2 DEF PageInv

\* One more transaction: its pages have it as their last writer, the others
\* the one they had.
LEMMA AcceptLastWriter ==
    ASSUME NEW c \in Client, ReplicaInv, PageInv, LastWriterWins, Accept(c)
    PROVE  LastWriterWins'
<1> DEFINE n == Len(changes)
           Touches(j, p) ==
               \/ changes'[j].tx.dbSize < p
               \/ \E i \in DOMAIN changes'[j].tx.writes :
                      changes'[j].tx.writes[i].page = p
<1>1. PICK tx \in Transaction :
          /\ Covers(latest, tx) /\ latest' = apply_tx(latest, tx)
          /\ changes' = Append(changes, [tx |-> tx, version |-> latestVersion + 1])
  BY AcceptCovers
<1>2. /\ n \in Nat /\ DOMAIN changes = 1..n /\ Len(changes') = n + 1
      /\ DOMAIN changes' = 1..(n + 1) /\ changes' # <<>>
      /\ \A i \in 1..n : changes'[i] = changes[i]
      /\ changes'[n + 1].tx = tx
  <2>1. changes \in Seq([tx : Transaction, version : Nat])
    BY DEF ReplicaInv, Types
  <2>2. [tx |-> tx, version |-> latestVersion + 1] \in [tx : Transaction, version : Nat]
    BY DEF ReplicaInv, Types
  <2>3. changes' \in Seq([tx : Transaction, version : Nat])
    BY <1>1, <2>1, <2>2
  <2>. QED
    BY <1>1, <2>1, <2>2, <2>3, AppendProperties
<1>3. latest \in Seq(Page) /\ DOMAIN latest = 1..Len(latest) /\ Len(latest) \in Nat
  BY DEF PageInv, Page
<1>4. latest' \in Seq(Page) /\ Len(latest') = tx.dbSize /\ Updated(latest, tx, latest')
  BY <1>1, <1>3, ApplyResult
<1>5. DOMAIN latest' = 1..tx.dbSize /\ tx.dbSize \in Nat
  BY <1>4, ConstantsAssumption DEF Transaction
<1>6. Len(latest') = Last(changes').tx.dbSize
  BY <1>2, <1>4 DEF Last
<1>7. ASSUME NEW p \in DOMAIN latest'
      PROVE  /\ LastTouch(p)' = {} => latest'[p] = Empty /\ p = 1
             /\ \A i \in LastTouch(p)' :
                    /\ changes'[i].tx.dbSize >= p
                    /\ \E w \in DOMAIN changes'[i].tx.writes :
                           /\ changes'[i].tx.writes[w].page = p
                           /\ changes'[i].tx.writes[w].data = latest'[p]
                           /\ \A x \in (w + 1)..Len(changes'[i].tx.writes) :
                                  changes'[i].tx.writes[x].page # p
  <2>1. p \in 1..tx.dbSize /\ p \in Nat /\ ~(tx.dbSize < p) /\ tx.dbSize >= p
    BY <1>5
  <2>2. LastTouch(p)' = {i \in 1..(n + 1) :
            Touches(i, p) /\ \A j \in (i + 1)..(n + 1) : ~Touches(j, p)}
    BY <1>2 DEF LastTouch
  <2>3. CASE \E i \in DOMAIN tx.writes : tx.writes[i].page = p
    <3>1. Touches(n + 1, p)
      BY <1>2, <2>3
    <3>. HIDE DEF Touches
    <3>2. LastTouch(p)' = {n + 1}
      <4>1. n + 1 \in 1..(n + 1) /\ ((n + 1) + 1)..(n + 1) = {}
        BY <1>2
      <4>2. \A i \in 1..(n + 1) : i # n + 1 => n + 1 \in (i + 1)..(n + 1)
        BY <1>2
      <4>. QED
        BY <2>2, <3>1, <4>1, <4>2
    <3>3. \E i \in DOMAIN tx.writes :
              /\ tx.writes[i].page = p /\ tx.writes[i].data = latest'[p]
              /\ \A x \in (i + 1)..Len(tx.writes) : tx.writes[x].page # p
      BY <1>4, <2>1, <2>3 DEF Updated
    <3>. QED
      BY <1>2, <2>1, <3>2, <3>3
  <2>4. CASE ~ \E i \in DOMAIN tx.writes : tx.writes[i].page = p
    <3>1. ~Touches(n + 1, p)
      BY <1>2, <2>1, <2>4
    <3>2. p \in DOMAIN latest /\ latest'[p] = latest[p]
      BY <1>3, <1>4, <2>1, <2>4 DEF Updated
    <3>3. LastTouch(p)' = LastTouch(p)
      <4>1. LastTouch(p) = {i \in 1..n : Touches(i, p) /\ \A j \in (i + 1)..n : ~Touches(j, p)}
        <5>1. \A j \in 1..n : Touches(j, p) <=>
                  \/ changes[j].tx.dbSize < p
                  \/ \E i \in DOMAIN changes[j].tx.writes : changes[j].tx.writes[i].page = p
          BY <1>2
        <5>2. \A i \in 1..n : \A j \in (i + 1)..n : j \in 1..n
          BY <1>2
        <5>. HIDE DEF Touches
        <5>. QED
          BY <1>2, <5>1, <5>2 DEF LastTouch
      <4>. HIDE DEF Touches
      <4>2. \A i \in 1..n : \A j : j \in (i + 1)..(n + 1) <=> j \in (i + 1)..n \/ j = n + 1
        BY <1>2
      <4>3. \A i : i \in 1..(n + 1) <=> i \in 1..n \/ i = n + 1
        BY <1>2
      <4>. QED
        BY <2>2, <3>1, <4>1, <4>2, <4>3
    <3>4. /\ LastTouch(p) = {} => latest[p] = Empty /\ p = 1
          /\ \A i \in LastTouch(p) :
                 /\ changes[i].tx.dbSize >= p
                 /\ \E w \in DOMAIN changes[i].tx.writes :
                        /\ changes[i].tx.writes[w].page = p
                        /\ changes[i].tx.writes[w].data = latest[p]
                        /\ \A x \in (w + 1)..Len(changes[i].tx.writes) :
                               changes[i].tx.writes[x].page # p
      BY <3>2 DEF LastWriterWins
    <3>5. \A i \in LastTouch(p) : i \in 1..n
      BY <1>2 DEF LastTouch
    <3>6. \A i \in LastTouch(p) : changes'[i] = changes[i]
      BY <1>2, <3>5
    <3>. QED
      BY <3>2, <3>3, <3>4, <3>6
  <2>. QED
    BY <2>3, <2>4
<1>. QED
  BY <1>6, <1>7 DEF LastWriterWins

-----------------------------------------------------------------------------
(* The inductive invariant *)

\* Any step preserves replicas, logs and pages.
LEMMA StepIndInv ==
    ASSUME IndInv, [Next]_vars
    PROVE  IndInv'
<1>1. ReplicaInv'
  BY StepPreserves DEF IndInv
<1>2. CASE Next
  <2>1. PICK c \in Client : ClientStep(c)
    BY <1>2 DEF Next
  <2>. QED
    BY <1>1, <2>1, StepLog, StepPages DEF IndInv
<1>3. CASE UNCHANGED vars
  <2>1. /\ wal' = wal /\ mxFrame' = mxFrame /\ txStart' = txStart /\ sent' = sent
        /\ writes' = writes /\ unsent' = unsent /\ hadWrite' = hadWrite
    BY <1>3 DEF vars, client
  <2>2. LogInv'
    BY <2>1, LogUntouched DEF IndInv, LogInv
  <2>3. PageInv'
    BY <1>3 DEF IndInv, PageInv, PagesCovered, vars, client, server
  <2>. QED
    BY <1>1, <2>2, <2>3 DEF IndInv
<1>. QED
  BY <1>2, <1>3

\* Initially nobody has opened the database, and every log is empty.
LEMMA InitIndInv ==
    ASSUME Init
    PROVE  IndInv
<1>1. ReplicaInv
  BY ConstantsAssumption
     DEF Init, make_initial_db, ReplicaInv, Types, ServerLog, ReplicaExact,
         FetchedIsNext, FetchedOf, FreshReads, LockDiscipline, Disciplined,
         SentBehind, Alive, Locks
<1>2. LogInv
  <2>. SUFFICES ASSUME NEW d \in Client PROVE LogShape(d) /\ LogContent(d)
    BY DEF LogInv
  <2>1. /\ wal[d] = <<>> /\ Len(wal[d]) = 0 /\ unsent[d] = {} /\ sent[d] = 0
        /\ mxFrame[d] = 0 /\ txStart[d] = 0 /\ writes[d] = 0
    BY DEF Init
  <2>. QED
    BY <2>1 DEF LogShape, LogContent, IsBoundary
<1>3. PageInv
  <2>1. latest = <<Empty>> /\ \A c \in Client : Len(wal[c]) = 0
    BY DEF Init, make_initial_db
  <2>. QED
    BY <2>1 DEF PageInv, PagesCovered
<1>. QED
  BY <1>1, <1>2, <1>3 DEF IndInv

\* The server's list is the history of its image, every client's image is the
\* database at the client's version, a transaction reads what was newest at its
\* first lock, locks and logs fit together, and a log holds exactly the
\* transactions SQLite committed and that are not sent yet: for any number of
\* clients, any size of the database and any transactions.
THEOREM Invariance == Spec => []IndInv
<1>1. Init => IndInv
  BY InitIndInv
<1>2. IndInv /\ [Next]_vars => IndInv'
  BY StepIndInv
<1>. QED
  BY <1>1, <1>2, PTL DEF Spec

\* A client's image is at every moment the database of the version the client
\* believes to have (pull_changes applies what commit_change recorded).
THEOREM Replication == Spec => []ReplicaExact
<1>1. IndInv => ReplicaExact
  BY DEF IndInv, ReplicaInv
<1>. QED
  BY <1>1, Invariance, PTL

\* What a client reads inside a transaction is the version that was newest when
\* it asked for its first lock (maybe_begin_tx).
THEOREM Freshness == Spec => []FreshReads
<1>1. IndInv => FreshReads
  BY DEF IndInv, ReplicaInv
<1>. QED
  BY <1>1, Invariance, PTL

\* What maybe_end_tx sends next is a transaction SQLite committed, frame by
\* frame, and nothing of one that it rolled back.
THEOREM SendsCommitted == Spec => []SendsWhatWasCommitted
<1>1. IndInv => SendsWhatWasCommitted
  <2>. SUFFICES ASSUME IndInv, NEW c \in Client, NEW f \in 1..Len(wal[c]),
                       status[c] = "sending", IsNextCommit(c, f)
                PROVE  [at |-> f, tx |-> extract_tx(wal[c], sent[c], f)] \in unsent[c]
    BY DEF SendsWhatWasCommitted
  <2>1. IsTransaction(wal[c], sent[c], f)
    BY NextIsTransaction DEF IndInv
  <2>2. Types /\ Locks(c) = 0
    BY DEF IndInv, ReplicaInv, LockDiscipline, Disciplined
  <2>3. writes[c] = 0
    BY <2>2, NoLocks
  <2>4. sent[c] \in sent[c]..Len(wal[c])
    BY <2>1, <2>2 DEF IsTransaction, Types
  <2>5. Entry(wal[c], sent[c], f) \in unsent[c]
    BY <2>1, <2>3, <2>4 DEF IndInv, LogInv, LogContent
  <2>. QED
    BY <2>5 DEF Entry
<1>. QED
  BY <1>1, Invariance, PTL

\* A client that lives on after its last lock has on the server whatever SQLite
\* told the application to be committed.
THEOREM Durability == Spec => []AckedIsDurable
<1>1. IndInv => AckedIsDurable
  <2>. SUFFICES ASSUME IndInv, NEW c \in Client, status[c] = "ready", Locks(c) = 0
                PROVE  unsent[c] = {}
    BY DEF AckedIsDurable
  <2>1. ~hadWrite[c]
    BY DEF IndInv, ReplicaInv, LockDiscipline, Disciplined
  <2>. QED
    BY <2>1 DEF IndInv, LogInv, LogContent
<1>. QED
  BY <1>1, Invariance, PTL

\* Replaying the server's transactions gives what the last writer of each page
\* wrote: the image has the size of the last transaction, and a page the last
\* content written to it since the database was last cut below it (apply_tx,
\* commit_change), for every history of transactions.
THEOREM LastWriters == Spec => []LastWriterWins
<1>1. Init => LastWriterWins
  <2>. SUFFICES ASSUME Init PROVE LastWriterWins
    OBVIOUS
  <2>1. latest = <<Empty>> /\ changes = <<>>
    BY DEF Init, make_initial_db
  <2>2. \A p : LastTouch(p) = {}
    BY <2>1 DEF LastTouch
  <2>. QED
    BY <2>1, <2>2 DEF LastWriterWins
<1>2. IndInv /\ LastWriterWins /\ [Next]_vars => LastWriterWins'
  <2>. SUFFICES ASSUME IndInv, LastWriterWins, [Next]_vars PROVE LastWriterWins'
    OBVIOUS
  <2>1. CASE UNCHANGED <<latest, changes>>
    <3>1. \A p : LastTouch(p)' = LastTouch(p)
      BY <2>1 DEF LastTouch
    <3>. QED
      BY <2>1, <3>1 DEF LastWriterWins
  <2>2. CASE \E c \in Client : Accept(c)
    BY <2>2, AcceptLastWriter DEF IndInv
  <2>. QED
    BY <2>1, <2>2, SameLatest DEF Next, vars, server
<1>. QED
  BY <1>1, <1>2, Invariance, PTL DEF Spec

-----------------------------------------------------------------------------
(* Commits *)

\* Only Accept changes the version of the server.
LEMMA OtherSteps ==
    ASSUME NEW c \in Client, ClientStep(c), ~Accept(c)
    PROVE  latestVersion' = latestVersion
  BY DEF ClientStep, Open, Crash, LockRead, PullChange, PullDone, UnlockRead,
         LockWrite, UnlockWrite, WriteFrame, Refuse, SendDone, server

\* No transaction is committed that was not computed from the newest image.
THEOREM NoUpdateLost == Spec => NoLostUpdate
<1> DEFINE Safe == latestVersion' # latestVersion =>
                       \E c \in Client :
                           /\ author' = Append(author, c)
                           /\ status[c] = "sending" /\ sent[c] = 0
                           /\ db[c] = latest
<1>1. IndInv /\ [Next]_vars => [Safe]_vars
  <2>. SUFFICES ASSUME ReplicaInv, Next PROVE Safe
    BY DEF vars, IndInv
  <2>1. PICK c \in Client : ClientStep(c)
    BY DEF Next
  <2>2. CASE Accept(c)
    BY <2>2, CommitStep
  <2>3. CASE ~Accept(c)
    BY <2>1, <2>3, OtherSteps
  <2>. QED
    BY <2>2, <2>3
<1>. QED
  BY <1>1, Invariance, PTL DEF Spec, NoLostUpdate

-----------------------------------------------------------------------------
(* Refinement *)

\* The steps of one client leave the view of every other client alone.
LEMMA ViewOfOthers ==
    ASSUME ReplicaInv, NEW c \in Client, ClientStep(c), NEW d \in Client, d # c
    PROVE  View'[d] = View[d]
<1>1. /\ status'[d] = status[d] /\ floor'[d] = floor[d]
      /\ version'[d] = version[d] /\ sent'[d] = sent[d]
      /\ reads'[d] = reads[d] /\ writes'[d] = writes[d]
  BY DEF ClientStep, Open, Crash, Drop, LockRead, FetchChanges, PullChange,
         PullDone, UnlockRead, LockWrite, UnlockWrite, WriteFrame, MaybeEndTx,
         Accept, Refuse, SendDone, ReplicaInv, Types
<1>. QED
  BY <1>1 DEF View, Locks

\* A step changes the view of at most one client.
LEMMA ViewUpdate ==
    ASSUME ReplicaInv, NEW c \in Client, ClientStep(c), NEW x, View'[c] = x
    PROVE  View' = [View EXCEPT ![c] = x]
<1>1. \A d \in Client : View'[d] = [View EXCEPT ![c] = x][d]
  BY ViewOfOthers DEF View
<1>. QED
  BY <1>1 DEF View

\* Asking for the first lock opens a transaction of the store, an accepted
\* commit is its commit, and giving up the last lock, a refusal or a crash ends
\* it; pulling and writing the log are invisible.
LEMMA ViewOfClient ==
    ASSUME ReplicaInv, ReplicaInv', NEW c \in Client, ClientStep(c)
    PROVE  \/ View'[c] = View[c] /\ latestVersion' = latestVersion
           \/ View[c] = None /\ View'[c] = latestVersion /\ latestVersion' = latestVersion
           \/ View'[c] = None /\ latestVersion' = latestVersion
           \/ /\ View[c] = latestVersion /\ View'[c] = None
              /\ latestVersion' = latestVersion + 1
<1>1. Locks(c) = 0 \/ status[c] = "ready"
  BY DEF ReplicaInv, LockDiscipline, Disciplined
<1>2. Locks(c)' = 0 \/ status'[c] = "ready"
  BY DEF ReplicaInv, LockDiscipline, Disciplined
<1>3. reads[c] \in {0, 1} /\ writes[c] \in {0, 1}
  BY DEF ReplicaInv, Types
<1>4. CASE Open(c)
  BY <1>1, <1>4 DEF Open, View, Locks, ReplicaInv, Types, server
<1>5. CASE Crash(c)
  BY <1>5 DEF Crash, Drop, View, Locks, ReplicaInv, Types, server
<1>6. CASE LockRead(c)
  <2>1. CASE Locks(c) = 0
    BY <1>6, <2>1 DEF LockRead, FetchChanges, View, ReplicaInv, Types, server
  <2>2. CASE Locks(c) # 0
    <3>1. Locks(c)' # 0 /\ status' = status /\ version' = version
      BY <1>3, <1>6, <2>2 DEF LockRead, Locks, ReplicaInv, Types
    <3>. QED
      BY <1>6, <2>2, <3>1 DEF LockRead, View, server
  <2>. QED
    BY <2>1, <2>2
<1>7. CASE PullChange(c)
  BY <1>7 DEF PullChange, View, server
<1>8. CASE PullDone(c)
  <2>1. Locks(c)' # 0 /\ status'[c] = "ready"
    BY <1>3, <1>8 DEF PullDone, Locks, ReplicaInv, Types
  <2>2. version'[c] = floor'[c] /\ floor'[c] = floor[c]
    BY <1>8, <2>1 DEF ReplicaInv, FreshReads, PullDone
  <2>. QED
    BY <1>8, <2>1, <2>2 DEF PullDone, View, server
<1>9. CASE LockWrite(c)
  <2>1. Locks(c) # 0 /\ Locks(c)' # 0
    BY <1>3, <1>9 DEF LockWrite, Locks, ReplicaInv, Types
  <2>. QED
    BY <1>9, <2>1 DEF LockWrite, View, server
<1>10. CASE UnlockWrite(c)
  <2>1. Locks(c) # 0 /\ Locks(c)' # 0 /\ status' = status
    BY <1>3, <1>10 DEF UnlockWrite, MaybeEndTx, Locks, ReplicaInv, Types
  <2>. QED
    BY <1>10, <2>1 DEF UnlockWrite, View, server
<1>11. CASE UnlockRead(c)
  <2>1. Locks(c) # 0 /\ status[c] = "ready" /\ version' = version
    BY <1>3, <1>11 DEF UnlockRead, Locks
  <2>2. CASE Locks(c)' # 0 \/ ~hadWrite[c]
    <3>1. status'[c] = "ready"
      BY <1>3, <1>11, <2>2 DEF UnlockRead, MaybeEndTx, Locks, ReplicaInv, Types
    <3>. QED
      BY <1>11, <2>1, <3>1 DEF UnlockRead, View, server
  <2>3. CASE Locks(c)' = 0 /\ hadWrite[c]
    <3>1. status'[c] = "sending" /\ sent'[c] = 0
      BY <1>3, <1>11, <2>3 DEF UnlockRead, MaybeEndTx, Locks, ReplicaInv, Types
    <3>. QED
      BY <1>11, <2>1, <3>1 DEF UnlockRead, View, server
  <2>. QED
    BY <2>2, <2>3
<1>12. CASE WriteFrame(c)
  BY <1>12 DEF WriteFrame, View, Locks, server
<1>13. CASE Accept(c)
  <2>1. status[c] = "sending" /\ sent[c] = 0 /\ version[c] = latestVersion
    BY <1>13, CommitStep DEF Accept
  <2>2. sent'[c] # 0 /\ latestVersion' = latestVersion + 1
    BY <1>13 DEF Accept, ReplicaInv, Types
  <2>3. status'[c] = "sending" /\ Locks(c)' = 0
    BY <1>2, <1>13, <2>1 DEF Accept
  <2>. QED
    BY <2>1, <2>2, <2>3 DEF View
<1>14. CASE Refuse(c)
  BY <1>14 DEF Refuse, Drop, View, Locks, ReplicaInv, Types, server
<1>15. CASE SendDone(c)
  <2>1. status'[c] = "ready" /\ Locks(c)' = 0
    BY <1>1, <1>15 DEF SendDone, Locks, ReplicaInv, Types
  <2>. QED
    BY <1>15, <2>1 DEF SendDone, View, server
<1>. QED
  BY <1>4, <1>5, <1>6, <1>7, <1>8, <1>9, <1>10, <1>11, <1>12, <1>13, <1>14,
     <1>15 DEF ClientStep

\* Every step is a step of the store or leaves it unchanged.
LEMMA StepSimulation ==
    ASSUME ReplicaInv, ReplicaInv', [Next]_vars
    PROVE  [Store!Next]_(Store!vars)
<1>1. CASE UNCHANGED vars
  BY <1>1 DEF Store!vars, View, Locks, vars, server, client
<1>2. CASE Next
  <2>1. PICK c \in Client : ClientStep(c)
    BY <1>2 DEF Next
  <2>2. View' = [View EXCEPT ![c] = View'[c]]
    BY <2>1, ViewUpdate
  <2>3. View = [View EXCEPT ![c] = View[c]]
    BY DEF View
  <2>4. CASE View'[c] = View[c] /\ latestVersion' = latestVersion
    BY <2>2, <2>3, <2>4 DEF Store!vars
  <2>5. CASE /\ View[c] = None /\ View'[c] = latestVersion
             /\ latestVersion' = latestVersion
    BY <2>2, <2>5 DEF Store!Next, Store!Begin
  <2>6. CASE View'[c] = None /\ View[c] # None /\ latestVersion' = latestVersion
    BY <2>2, <2>6 DEF Store!Next, Store!End
  <2>7. CASE /\ View[c] = latestVersion /\ View'[c] = None
             /\ latestVersion' = latestVersion + 1
    BY <2>2, <2>7 DEF Store!Next, Store!Commit
  <2>. QED
    BY <2>1, <2>4, <2>5, <2>6, <2>7, ViewOfClient
<1>. QED
  BY <1>1, <1>2

\* Every behaviour of the clients and the server, seen through View, is one of
\* a single store with optimistic transactions.
THEOREM Refinement == Spec => ImplementsStore
<1>1. Init => Store!Init
  BY DEF Init, Store!Init, View, Locks
<1>2. IndInv /\ IndInv' /\ [Next]_vars => [Store!Next]_(Store!vars)
  BY StepSimulation DEF IndInv
<1>. QED
  BY <1>1, <1>2, Invariance, PTL DEF Spec, ImplementsStore, Store!Spec

-----------------------------------------------------------------------------
(* Snapshots *)

\* No step changes the image of a client that holds a lock and keeps one.
LEMMA ImageKept ==
    ASSUME ReplicaInv, NEW c \in Client, ClientStep(c), NEW d \in Client,
           Locks(d) # 0, Locks(d)' # 0
    PROVE  db'[d] = db[d]
<1>1. status[d] = "ready"
  BY DEF ReplicaInv, LockDiscipline, Disciplined
<1>2. CASE Open(c) \/ PullChange(c)
  BY <1>1, <1>2 DEF Open, PullChange, ReplicaInv, Types
<1>3. CASE Crash(c) \/ Refuse(c)
  <2>1. d # c
    BY <1>3 DEF Crash, Refuse, Drop, Locks, ReplicaInv, Types
  <2>. QED
    BY <1>3, <2>1 DEF Crash, Refuse, Drop, ReplicaInv, Types
<1>4. CASE ~(Open(c) \/ PullChange(c) \/ Crash(c) \/ Refuse(c))
  BY <1>4 DEF ClientStep, LockRead, PullDone, UnlockRead, LockWrite,
              UnlockWrite, WriteFrame, Accept, SendDone
<1>. QED
  BY <1>2, <1>3, <1>4

\* A transaction reads one image from its first lock to its last.
THEOREM SnapshotKept == Spec => StableSnapshot
<1> DEFINE Kept == \A c \in Client :
                       Locks(c) # 0 /\ Locks(c)' # 0 => db'[c] = db[c]
<1>1. IndInv /\ [Next]_vars => [Kept]_vars
  <2>. SUFFICES ASSUME ReplicaInv, Next PROVE Kept
    BY DEF vars, IndInv
  <2>1. PICK b \in Client : ClientStep(b)
    BY DEF Next
  <2>. QED
    BY <2>1, ImageKept
<1>. QED
  BY <1>1, Invariance, PTL DEF Spec, StableSnapshot
=============================================================================
