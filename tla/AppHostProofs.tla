---------------------------- MODULE AppHostProofs ----------------------------
(***************************************************************************)
(* Proofs about AppHost, for any number of applications, requests,         *)
(* instances, edits and faults: its inductive invariant, and from it that  *)
(* transactions stay apart, what a reload may cost the requests and that   *)
(* sync_apps is never satisfied with old code.                             *)
(***************************************************************************)
EXTENDS AppHost, TLAPS

(* The types of updated records. *)

LEMMA InstType ==
  ASSUME NEW f \in [Ids -> Instance], NEW i \in Ids,
         NEW s \in {"none", "ended", "init", "run"} \cup Dead,
         NEW g, g = [f EXCEPT ![i].st = s]
  PROVE  /\ g \in [Ids -> Instance]
         /\ \A j \in Ids : /\ g[j].app = f[j].app
                           /\ g[j].ver = f[j].ver
                           /\ g[j].st = IF j = i THEN s ELSE f[j].st
<1>1. [f[i] EXCEPT !.st = s] \in Instance
  BY DEF Instance, Alive, Dead
<1>2. g = [f EXCEPT ![i] = [f[i] EXCEPT !.st = s]]
  OBVIOUS
<1>3. \A j \in Ids : f[j] \in Instance
  OBVIOUS
<1> HIDE DEF Ids
<1>4. g \in [Ids -> Instance]
  BY <1>1, <1>2
<1>5. /\ [f[i] EXCEPT !.st = s].app = f[i].app
      /\ [f[i] EXCEPT !.st = s].ver = f[i].ver
      /\ [f[i] EXCEPT !.st = s].st = s
  BY <1>3 DEF Instance
<1> QED
  BY <1>2, <1>4, <1>5

LEMMA HolderType ==
  ASSUME NEW f \in [Requests -> Holder], NEW r \in Requests,
         NEW at \in Place,
         NEW g, g = [f EXCEPT ![r].at = at]
  PROVE  /\ g \in [Requests -> Holder]
         /\ \A q \in Requests : g[q].i = f[q].i /\ g[q].at = IF q = r THEN at ELSE f[q].at
<1>1. f[r] \in Holder /\ [f[r] EXCEPT !.at = at] \in Holder
  BY DEF Holder, Place
<1>2. g = [f EXCEPT ![r] = [f[r] EXCEPT !.at = at]]
  OBVIOUS
<1>3. g \in [Requests -> Holder]
  BY <1>1, <1>2
<1>4. [f[r] EXCEPT !.at = at].i = f[r].i /\ [f[r] EXCEPT !.at = at].at = at
  BY <1>1 DEF Holder, Place
<1> QED
  BY <1>2, <1>3, <1>4

(* A request that needs a store has an instance that runs. *)

LEMMA StoreRuns ==
  ASSUME IndInv, NEW r \in Requests, InStore(r)
  PROVE  /\ req[r].i \in Ids
         /\ inst[req[r].i].st = "run"
BY DEF IndInv, TypeOK, InstancesRun, Ids, Holder, Live, Runs, InStore, Place

LEMMA InitInv == Init => IndInv
<1> SUFFICES ASSUME Init PROVE IndInv
  OBVIOUS
<1> USE HostAssumption DEF Init
<1>1. TypeOK
  BY DEF TypeOK, Alive, Writes, Instance, SyncState, Holder, Place
<1>2. OneTransaction
  BY DEF OneTransaction, Runs
<1>3. InstancesRun
  BY DEF InstancesRun, Live, Runs, InStore
<1>4. SyncInOrder
  BY DEF SyncInOrder
<1> QED
  BY <1>1, <1>2, <1>3, <1>4 DEF IndInv

(***************************************************************************)
(* The directory and sync_apps: requests and transactions are not touched. *)
(***************************************************************************)

LEMMA EditInv == ASSUME IndInv, NEW a \in Apps, Edit(a) PROVE IndInv'
<1> USE DEF IndInv, Edit, syncVars, sqlVars
<1>1. PICK w \in BOOLEAN, t \in {0, edits + 1} :
        file' = [file EXCEPT ![a] = [mtime |-> t, whole |-> w \/ t = 0]]
  OBVIOUS
<1>2. (w \/ t = 0) \in BOOLEAN /\ t \in Nat /\ edits' \in Nat
  BY DEF TypeOK
<1>3. file' \in [Apps -> [mtime : Nat, whole : BOOLEAN]]
  BY <1>1, <1>2 DEF TypeOK
<1>4. TypeOK'
  BY <1>2, <1>3 DEF TypeOK
<1>5. OneTransaction' /\ InstancesRun' /\ SyncInOrder'
  BY DEF OneTransaction, InstancesRun, SyncInOrder, Live, Runs, InStore
<1> QED
  BY <1>4, <1>5

LEMMA ListInv == ASSUME IndInv, List PROVE IndInv'
<1> DEFINE listed == [a \in Apps |-> IF file[a].mtime = 0 THEN 0 ELSE 1]
<1>1. sync \in SyncState /\ sync' = [sync EXCEPT !.at = "stat", !.current = listed]
  BY DEF IndInv, TypeOK, List
<1>2. listed \in [Apps -> Nat]
  OBVIOUS
<1> HIDE DEF listed
<1>3. sync' \in SyncState /\ sync'.at = "stat"
  BY <1>1, <1>2 DEF SyncState
<1>4. TypeOK'
  BY <1>3 DEF IndInv, TypeOK, List, sqlVars
<1>5. OneTransaction' /\ InstancesRun' /\ SyncInOrder'
  BY <1>3 DEF IndInv, OneTransaction, InstancesRun, SyncInOrder, Live, List, sqlVars, Runs, InStore
<1> QED
  BY <1>4, <1>5 DEF IndInv

LEMMA ScanInv == ASSUME IndInv, Scan PROVE IndInv'
<1> DEFINE current == [a \in Apps |-> IF a \in {b \in Apps : sync.current[b] # 0}
                                      THEN file[a].mtime ELSE 0]
<1>1. sync \in SyncState /\ current \in [Apps -> Nat]
  BY DEF IndInv, TypeOK
<1>2. \/ /\ sync' = [sync EXCEPT !.at = "apply", !.current = current]
         /\ previous' = [a \in Apps |-> IF current[a] = 0 THEN 0 ELSE previous[a]]
         /\ instances' = [a \in Apps |-> IF current[a] = 0 THEN 0 ELSE instances[a]]
      \/ /\ sync' = [sync EXCEPT !.at = "dead", !.app = 0]
         /\ UNCHANGED <<previous, instances>>
  BY DEF Scan, Panic
<1>3. UNCHANGED <<file, inst, made, req, gone, sqlVars, edits, faults>>
  BY DEF Scan
<1> HIDE DEF current
<1>4. sync' \in SyncState /\ sync'.at \in {"apply", "dead"}
  BY <1>1, <1>2 DEF SyncState
<1>5. previous' \in [Apps -> Nat] /\ instances' \in [Apps -> {0} \cup Ids]
  BY <1>2 DEF IndInv, TypeOK
<1>6. TypeOK'
  BY <1>3, <1>4, <1>5 DEF IndInv, TypeOK, sqlVars
<1>7. InstancesRun'
  BY <1>2, <1>3 DEF IndInv, InstancesRun, Live, TypeOK, Runs, InStore
<1>8. OneTransaction' /\ SyncInOrder'
  BY <1>3, <1>4 DEF IndInv, OneTransaction, SyncInOrder, sqlVars, Runs
<1> QED
  BY <1>6, <1>7, <1>8 DEF IndInv

LEMMA StampInv == ASSUME IndInv, NEW a \in Apps, Stamp(a) PROVE IndInv'
<1>1. sync \in SyncState /\ sync' = [sync EXCEPT !.at = "load", !.app = a]
  BY DEF IndInv, TypeOK, Stamp
<1>2. /\ sync' \in SyncState /\ sync'.at = "load" /\ sync'.app = a
      /\ sync.current \in [Apps -> Nat]
  BY <1>1 DEF SyncState
<1>3. TypeOK'
  BY <1>2 DEF IndInv, TypeOK, Stamp, sqlVars
<1>4. OneTransaction' /\ InstancesRun' /\ SyncInOrder'
  BY <1>2 DEF IndInv, OneTransaction, InstancesRun, SyncInOrder, Live, Stamp, sqlVars, Runs, InStore
<1> QED
  BY <1>3, <1>4 DEF IndInv

LEMMA SleepInv == ASSUME IndInv, Sleep PROVE IndInv'
<1>1. sync \in SyncState /\ sync' = [sync EXCEPT !.at = "scan"]
  BY DEF IndInv, TypeOK, Sleep
<1>2. sync' \in SyncState /\ sync'.at = "scan"
  BY <1>1 DEF SyncState
<1>3. TypeOK'
  BY <1>2 DEF IndInv, TypeOK, Sleep, sqlVars
<1>4. OneTransaction' /\ InstancesRun' /\ SyncInOrder'
  BY <1>2 DEF IndInv, OneTransaction, InstancesRun, SyncInOrder, Live, Sleep, sqlVars, Runs, InStore
<1> QED
  BY <1>3, <1>4 DEF IndInv

\* The number of the new instance was not in use.
LEMMA LoadInv == ASSUME IndInv, Load PROVE IndInv'
<1> USE HostAssumption DEF IndInv, sqlVars
<1>0. UNCHANGED <<file, previous, instances, req, gone, sqlVars, edits, faults>> /\ sync.at = "load"
  BY DEF Load
<1> DEFINE new == [app |-> sync.app, ver |-> file[sync.app].mtime, st |-> "init"]
<1>1. CASE /\ made < MaxInst
           /\ made' = made + 1
           /\ inst' = [inst EXCEPT ![made + 1] = new]
           /\ sync' = [sync EXCEPT !.at = "init"]
  <2>1. made + 1 \in Ids /\ inst[made + 1].st = "none" /\ sync.app \in Apps
    BY <1>0, <1>1 DEF TypeOK, SyncInOrder, Ids
  <2>2. new \in Instance /\ new.app = sync.app /\ new.st = "init"
    BY <2>1 DEF TypeOK, Alive, Instance
  <2>3. sync' \in SyncState /\ sync'.at = "init" /\ sync'.app = sync.app
    <3>1. sync \in SyncState
      BY DEF TypeOK
    <3> QED
      BY <1>1, <3>1 DEF SyncState
  <2>4. inst' \in [Ids -> Instance] /\ inst'[made + 1] = new
        /\ \A i \in Ids \ {made + 1} : inst'[i] = inst[i]
    BY <1>1, <2>1, <2>2 DEF TypeOK
  <2>5. made' \in 0..MaxInst
    BY <1>1 DEF TypeOK
  <2> HIDE DEF new
  <2>6. TypeOK'
    BY <1>0, <2>3, <2>4, <2>5 DEF TypeOK
  <2>7. OneTransaction'
    BY <1>0 DEF OneTransaction, Runs
  <2>8. InstancesRun'
    <3>1. \A r \in Requests : InStore(r) => req[r].i \in Ids /\ inst[req[r].i].st = "run"
      BY StoreRuns
    <3>2. \A r \in Requests : InStore(r) => inst'[req[r].i] = inst[req[r].i]
      BY <3>1, <2>1, <2>4
    <3>3. \A a \in Apps : instances[a] # 0 =>
            /\ instances[a] \in Ids
            /\ inst[instances[a]].st # "none"
            /\ inst'[instances[a]] = inst[instances[a]]
      BY <2>1, <2>4 DEF InstancesRun, TypeOK, Dead
    <3> QED
      BY <1>0, <3>2, <3>3 DEF InstancesRun, Live, Runs, InStore
  <2>9. SyncInOrder'
    BY <1>1, <2>1, <2>2, <2>3, <2>4 DEF SyncInOrder, TypeOK, Ids
  <2> QED
    BY <2>6, <2>7, <2>8, <2>9
<1>2. CASE Panic /\ UNCHANGED <<made, inst>>
  <2>1. sync' \in SyncState /\ sync'.at = "dead"
    <3>1. sync \in SyncState
      BY DEF TypeOK
    <3> QED
      BY <1>2, <3>1 DEF SyncState, Panic
  <2>2. TypeOK'
    BY <1>0, <1>2, <2>1 DEF TypeOK
  <2>3. OneTransaction' /\ InstancesRun' /\ SyncInOrder'
    BY <1>0, <1>2, <2>1 DEF OneTransaction, InstancesRun, SyncInOrder, Live, Runs, InStore
  <2> QED
    BY <2>2, <2>3
<1> QED
  BY <1>1, <1>2 DEF Load

LEMMA InstallInv == ASSUME IndInv, Install PROVE IndInv'
<1> USE HostAssumption
<1>1. /\ made \in Ids /\ inst[made].st = "init" /\ inst[made].app = sync.app
      /\ sync.app \in Apps
  BY DEF IndInv, TypeOK, SyncInOrder, Ids, Install
<1>2. /\ inst \in [Ids -> Instance] /\ inst' = [inst EXCEPT ![made].st = "run"]
      /\ sync \in SyncState /\ sync' = [sync EXCEPT !.at = "apply", !.app = 0]
  BY DEF IndInv, TypeOK, Install
<1>3. /\ inst' \in [Ids -> Instance]
      /\ \A j \in Ids : /\ inst'[j].app = inst[j].app
                        /\ inst'[j].st = IF j = made THEN "run" ELSE inst[j].st
  <2>1. made \in Ids /\ inst \in [Ids -> Instance] /\ inst' = [inst EXCEPT ![made].st = "run"]
    BY <1>1, <1>2
  <2> QED
    BY <2>1, InstType
<1>4. sync' \in SyncState /\ sync'.at = "apply"
  BY <1>2 DEF SyncState
<1>5. instances' \in [Apps -> {0} \cup Ids]
  BY <1>1 DEF IndInv, TypeOK, Install
<1>6. TypeOK'
  BY <1>3, <1>4, <1>5 DEF IndInv, TypeOK, Install, sqlVars
<1>7. InstancesRun'
  BY <1>1, <1>3 DEF IndInv, InstancesRun, Live, TypeOK, Holder, Install, Runs, InStore, Place
<1>8. OneTransaction' /\ SyncInOrder'
  BY <1>1, <1>3, <1>4 DEF IndInv, OneTransaction, SyncInOrder, TypeOK, Install, sqlVars, Runs
<1> QED
  BY <1>6, <1>7, <1>8 DEF IndInv

LEMMA InitFailsInv == ASSUME IndInv, InitFails PROVE IndInv'
<1> USE HostAssumption
<1>1. /\ made \in Ids /\ inst[made].st = "init" /\ inst[made].app = sync.app
      /\ sync.app \in Apps
  BY DEF IndInv, TypeOK, SyncInOrder, Ids, InitFails, Panic
<1>2. /\ inst \in [Ids -> Instance] /\ inst' = [inst EXCEPT ![made].st = "ended"]
      /\ sync \in SyncState /\ sync' = [sync EXCEPT !.at = "dead", !.app = 0]
  BY DEF IndInv, TypeOK, InitFails, Panic
<1>3. /\ inst' \in [Ids -> Instance]
      /\ \A j \in Ids : /\ inst'[j].app = inst[j].app
                        /\ inst'[j].st = IF j = made THEN "ended" ELSE inst[j].st
  <2>1. made \in Ids /\ inst \in [Ids -> Instance] /\ inst' = [inst EXCEPT ![made].st = "ended"]
    BY <1>1, <1>2
  <2> QED
    BY <2>1, InstType
<1>4. sync' \in SyncState /\ sync'.at = "dead"
  BY <1>2 DEF SyncState
<1>5. faults' \in Nat
  BY <1>1 DEF IndInv, TypeOK, InitFails, Panic
<1>6. TypeOK'
  BY <1>3, <1>4, <1>5 DEF IndInv, TypeOK, InitFails, Panic, sqlVars
<1>7. InstancesRun'
  BY <1>1, <1>3 DEF IndInv, InstancesRun, Live, TypeOK, Holder, InitFails, Panic, Runs, InStore, Dead, Place
<1>8. OneTransaction' /\ SyncInOrder'
  BY <1>1, <1>3, <1>4 DEF IndInv, OneTransaction, SyncInOrder, TypeOK, InitFails, Panic, sqlVars, Runs
<1> QED
  BY <1>6, <1>7, <1>8 DEF IndInv

(***************************************************************************)
(* Requests and workers.                                                   *)
(***************************************************************************)

LEMMA ArriveInv == ASSUME IndInv, NEW r \in Requests, NEW a \in Apps, Arrive(r, a) PROVE IndInv'
<1> DEFINE i == instances[a]
           at == IF i # 0 /\ inst[i].st = "run" THEN "queued" ELSE "failed"
<1>1. /\ req[r].at = "idle"
      /\ req' = [req EXCEPT ![r] = [at |-> at, i |-> i]]
      /\ UNCHANGED <<file, syncVars, inst, gone, sqlVars, edits, faults>>
  BY DEF Arrive
<1>2. i \in {0} \cup Ids /\ at \in {"queued", "failed"} /\ tx[r] # "running"
  BY <1>1 DEF IndInv, TypeOK, OneTransaction, Runs
<1>3. at = "queued" => i # 0 /\ inst[i].st = "run"
  OBVIOUS
<1> HIDE DEF i, at
<1>4. [at |-> at, i |-> i] \in Holder
  BY <1>2 DEF Holder, Place
<1>5. /\ req' \in [Requests -> Holder]
      /\ req'[r].at = at /\ req'[r].i = i
      /\ \A q \in Requests \ {r} : req'[q] = req[q]
  BY <1>1, <1>4 DEF IndInv, TypeOK
<1>6. TypeOK'
  BY <1>1, <1>5 DEF IndInv, TypeOK, syncVars, sqlVars
<1>7. OneTransaction'
  <2>1. \A q \in Requests : tx[q] = "running" => req'[q] = req[q]
    BY <1>2, <1>5
  <2>2. UNCHANGED <<tx, inTx, holds, dirty>>
    BY <1>1 DEF sqlVars
  <2>3. \A j \in Ids : dirty[j] \subseteq Requests \X {"tx", "plain"}
    BY DEF IndInv, TypeOK, Writes
  <2> QED
    BY <2>1, <2>2, <2>3 DEF IndInv, OneTransaction, Runs
<1>8. InstancesRun' /\ SyncInOrder'
  BY <1>1, <1>2, <1>3, <1>5 DEF IndInv, InstancesRun, SyncInOrder, Live, syncVars, Runs, InStore
<1> QED
  BY <1>6, <1>7, <1>8 DEF IndInv

\* The worker of an instance is gone: nothing of the instance is left running.
\* Only one that panicked may still be in the map.
LEMMA DropInv ==
  ASSUME IndInv, NEW i \in Ids, inst[i].st = "run",
         NEW how \in {"ended"} \cup Dead, StoreDropped(i, how), faults' \in Nat,
         how = "ended" => \A a \in Apps : instances[a] # i
  PROVE  IndInv'
<1>1. i \in Ids /\ inst[i].st = "run"
  OBVIOUS
<1>2. /\ inst' = [inst EXCEPT ![i].st = how]
      /\ req' = [q \in Requests |-> IF InStore(q) /\ req[q].i = i
                                    THEN [req[q] EXCEPT !.at = IF Live(q) THEN "failed" ELSE "cut"]
                                    ELSE req[q]]
      /\ tx' = [q \in Requests |-> IF tx[q] = "running" /\ req[q].i = i THEN "over" ELSE tx[q]]
      /\ undone' = undone \cup {q \in Requests : tx[q] = "running" /\ req[q].i = i}
      /\ inTx' = [inTx EXCEPT ![i] = FALSE]
      /\ holds' = [holds EXCEPT ![i] = "nothing"]
      /\ dirty' = [dirty EXCEPT ![i] = {}]
      /\ UNCHANGED <<file, syncVars, gone, durable, plain, edits>>
  BY DEF StoreDropped
<1>3. inst \in [Ids -> Instance] /\ req \in [Requests -> Holder]
  BY DEF IndInv, TypeOK
<1>4. /\ inst' \in [Ids -> Instance]
      /\ \A j \in Ids : /\ inst'[j].app = inst[j].app
                        /\ inst'[j].st = IF j = i THEN how ELSE inst[j].st
  <2>1. i \in Ids /\ inst \in [Ids -> Instance] /\ inst' = [inst EXCEPT ![i].st = how]
    BY <1>1, <1>2, <1>3
  <2> QED
    BY <2>1, InstType
<1>5. /\ req' \in [Requests -> Holder]
      /\ \A q \in Requests : /\ req'[q].i = req[q].i
                             /\ req'[q].at = IF InStore(q) /\ req[q].i = i
                                             THEN IF Live(q) THEN "failed" ELSE "cut"
                                             ELSE req[q].at
  <2> DEFINE lost(q) == IF Live(q) THEN "failed" ELSE "cut"
  <2>1. \A q \in Requests : /\ [req[q] EXCEPT !.at = lost(q)] \in Holder
                            /\ [req[q] EXCEPT !.at = lost(q)].i = req[q].i
                            /\ [req[q] EXCEPT !.at = lost(q)].at = lost(q)
    BY <1>3 DEF Holder, Place
  <2>2. req' = [q \in Requests |-> IF InStore(q) /\ req[q].i = i
                                  THEN [req[q] EXCEPT !.at = lost(q)] ELSE req[q]]
    BY <1>2
  <2>3. /\ req' \in [Requests -> Holder]
        /\ \A q \in Requests : /\ req'[q].i = req[q].i
                               /\ req'[q].at = IF InStore(q) /\ req[q].i = i
                                               THEN lost(q) ELSE req[q].at
    <3> HIDE DEF lost
    <3> QED
      BY <1>3, <2>1, <2>2
  <2> QED
    BY <2>3
<1>6. TypeOK'
  <2>1. tx' \in [Requests -> {"none", "running", "over"}] /\ undone' \subseteq Requests
    BY <1>2 DEF IndInv, TypeOK
  <2>2. /\ inTx' \in [Ids -> BOOLEAN]
        /\ holds' \in [Ids -> {"nothing", "read", "write"}]
        /\ dirty' \in [Ids -> SUBSET Writes]
    BY <1>1, <1>2 DEF IndInv, TypeOK
  <2>3. UNCHANGED <<file, sync, previous, instances, made, gone, durable, plain, edits>>
    BY <1>2 DEF syncVars
  <2> QED
    BY <1>4, <1>5, <2>1, <2>2, <2>3 DEF IndInv, TypeOK
<1>7. OneTransaction'
  <2>1. \A q \in Requests : tx'[q] = "running" =>
          tx[q] = "running" /\ req[q].i # i /\ req'[q].at = req[q].at /\ req[q].i \in Ids
    <3>1. \A q \in Requests : tx[q] = "running" => InStore(q)
      BY DEF IndInv, OneTransaction, Live, Runs, InStore
    <3> QED
      BY <1>2, <1>5, <3>1, StoreRuns
  <2>2. \A j \in Ids : /\ j # i => inTx'[j] = inTx[j] /\ holds'[j] = holds[j] /\ dirty'[j] = dirty[j]
                       /\ j = i => ~inTx'[j] /\ holds'[j] = "nothing" /\ dirty'[j] = {}
    BY <1>1, <1>2 DEF IndInv, TypeOK
  <2>3. \A q \in Requests : tx[q] = "running" /\ req[q].i # i => tx'[q] = "running"
    BY <1>2
  <2>4. \A j \in Ids : dirty[j] \subseteq Requests \X {"tx", "plain"}
    BY DEF IndInv, TypeOK, Writes
  <2>5. \A q \in Requests : tx'[q] = "running" => Runs(q)' /\ inTx'[req'[q].i]
    BY <1>5, <2>1, <2>2 DEF IndInv, OneTransaction, Runs
  <2>6. \A p, q \in Requests :
          tx'[p] = "running" /\ tx'[q] = "running" /\ req'[p].i = req'[q].i => p = q
    BY <1>5, <2>1 DEF IndInv, OneTransaction, Runs
  <2>7. \A j \in Ids : inTx'[j] => \E q \in Requests : tx'[q] = "running" /\ req'[q].i = j
    BY <1>5, <2>2, <2>3 DEF IndInv, OneTransaction, Runs
  <2>8. \A j \in Ids : holds'[j] # "nothing" => inTx'[j]
    BY <2>2 DEF IndInv, OneTransaction, Runs
  <2>9. \A j \in Ids : \A w \in dirty'[j] :
          w[2] = "tx" /\ tx'[w[1]] = "running" /\ req'[w[1]].i = j
    BY <1>5, <2>2, <2>3, <2>4 DEF IndInv, OneTransaction, Runs
  <2> QED
    BY <2>5, <2>6, <2>7, <2>8, <2>9 DEF OneTransaction, Runs
<1>8. InstancesRun'
  <2>1. \A q \in Requests : InStore(q)' => InStore(q) /\ req[q].i # i
    BY <1>5 DEF Live, Runs, InStore
  <2>2. \A q \in Requests : InStore(q) => req[q].i \in Ids /\ inst[req[q].i].st = "run"
    BY StoreRuns
  <2>3. \A q \in Requests : InStore(q)' => req'[q].i # 0 /\ inst'[req'[q].i].st = "run"
    <3>1. 0 \notin Ids
      BY DEF Ids
    <3> QED
      BY <1>4, <1>5, <2>1, <2>2, <3>1
  <2>4. \A a \in Apps : instances'[a] # 0 =>
          inst'[instances'[a]].app = a /\ inst'[instances'[a]].st \in {"run"} \cup Dead
    BY <1>2, <1>4 DEF IndInv, InstancesRun, TypeOK, syncVars, Live, Runs, InStore
  <2> QED
    BY <2>3, <2>4 DEF InstancesRun, Live, Runs, InStore
<1>9. SyncInOrder'
  <2>1. made' = made /\ sync' = sync
    BY <1>2 DEF syncVars
  <2>2. i <= made
    BY <1>1, HostAssumption DEF IndInv, SyncInOrder, TypeOK, Ids
  <2>3. sync.at = "init" => made \in Ids /\ made # i
    BY <1>1, HostAssumption DEF IndInv, SyncInOrder, TypeOK, Ids
  <2> QED
    BY <1>1, <1>4, <2>1, <2>2, <2>3, HostAssumption DEF IndInv, SyncInOrder, TypeOK, Ids
<1> QED
  BY <1>6, <1>7, <1>8, <1>9 DEF IndInv

\* A request moves on from one state in the store to the next, or leaves it.
LEMMA MoveInv ==
  ASSUME IndInv, NEW r \in Requests, NEW to \in {"running", "streaming", "answered"},
         InStore(r), to = "answered" => tx[r] # "running",
         req' = [req EXCEPT ![r].at = to],
         UNCHANGED <<file, syncVars, inst, gone, sqlVars, edits, faults>>
  PROVE  IndInv'
<1>1. req \in [Requests -> Holder]
  BY DEF IndInv, TypeOK
<1>2. /\ req' \in [Requests -> Holder]
      /\ \A q \in Requests : /\ req'[q].i = req[q].i
                             /\ req'[q].at = IF q = r THEN to ELSE req[q].at
  <2>1. to \in Place
    BY DEF Place
  <2>2. r \in Requests /\ req' = [req EXCEPT ![r].at = to]
    OBVIOUS
  <2>3. \A g : g = [req EXCEPT ![r].at = to] =>
          /\ g \in [Requests -> Holder]
          /\ \A q \in Requests : g[q].i = req[q].i /\ g[q].at = IF q = r THEN to ELSE req[q].at
    BY <1>1, <2>1, HolderType
  <2> QED
    BY <2>2, <2>3
<1>3. TypeOK'
  BY <1>2 DEF IndInv, TypeOK, syncVars, sqlVars
<1>4. OneTransaction'
  <2>1. UNCHANGED <<tx, inTx, holds, dirty>>
    BY DEF sqlVars
  <2>2. \A j \in Ids : dirty[j] \subseteq Requests \X {"tx", "plain"}
    BY DEF IndInv, TypeOK, Writes
  <2>3. \A q \in Requests : tx[q] = "running" => Runs(q)'
    BY <1>2 DEF IndInv, OneTransaction, Runs
  <2> QED
    BY <1>2, <2>1, <2>2, <2>3 DEF IndInv, OneTransaction, Runs
<1>5. InstancesRun'
  <2>1. \A q \in Requests : InStore(q)' => InStore(q)
    BY <1>2 DEF InStore, Live, Runs
  <2> QED
    BY <1>2, <2>1 DEF IndInv, InstancesRun, syncVars, Live, Runs, InStore
<1>6. SyncInOrder'
  BY DEF IndInv, SyncInOrder, syncVars
<1> QED
  BY <1>3, <1>4, <1>5, <1>6 DEF IndInv

LEMMA ReceiveInv == ASSUME IndInv, NEW r \in Requests, Receive(r) PROVE IndInv'
BY MoveInv DEF Receive, InStore, Live, Runs

LEMMA FinishInv == ASSUME IndInv, NEW r \in Requests, Finish(r) PROVE IndInv'
BY MoveInv DEF Finish, InStore, Live, Runs

LEMMA BodyDoneInv == ASSUME IndInv, NEW r \in Requests, BodyDone(r) PROVE IndInv'
BY MoveInv DEF BodyDone, InStore, Runs

\* The worker of a request panics.
LEMMA DeathOfWorker ==
  ASSUME IndInv, NEW r \in Requests, Unheard(r) \/ Trap(r) \/ BusyTimeout(r)
  PROVE  /\ InStore(r) /\ req[r].i \in Ids /\ inst[req[r].i].st = "run"
         /\ \E how \in Dead : StoreDropped(req[r].i, how)
         /\ faults' \in Nat
<1>1. InStore(r)
  BY DEF Unheard, Trap, BusyTimeout, InStore, Runs
<1>2. faults' \in Nat
  BY DEF Unheard, Trap, BusyTimeout, IndInv, TypeOK
<1>3. \E how \in Dead : StoreDropped(req[r].i, how)
  BY DEF Unheard, Trap, BusyTimeout, Dead
<1> QED
  BY <1>1, <1>2, <1>3, StoreRuns

LEMMA DeathInv ==
  ASSUME IndInv, NEW r \in Requests, Unheard(r) \/ Trap(r) \/ BusyTimeout(r)
  PROVE  IndInv'
<1>1. PICK how \in Dead : StoreDropped(req[r].i, how)
  BY DeathOfWorker
<1>2. how # "ended"
  BY DEF Dead
<1> QED
  BY <1>1, <1>2, DeathOfWorker, DropInv

LEMMA HangUpInv == ASSUME IndInv, NEW r \in Requests, HangUp(r) PROVE IndInv'
<1>1. /\ gone' \subseteq Requests /\ faults' \in Nat
      /\ UNCHANGED <<file, syncVars, inst, req, sqlVars, edits>>
  BY DEF HangUp, IndInv, TypeOK
<1>2. TypeOK'
  BY <1>1 DEF IndInv, TypeOK, syncVars, sqlVars
<1>3. OneTransaction' /\ InstancesRun' /\ SyncInOrder'
  BY <1>1 DEF IndInv, OneTransaction, InstancesRun, SyncInOrder, Live, syncVars, sqlVars, Runs, InStore
<1> QED
  BY <1>2, <1>3 DEF IndInv

LEMMA WorkerEndsInv == ASSUME IndInv, NEW i \in Ids, WorkerEnds(i) PROVE IndInv'
<1>1. /\ inst[i].st = "run" /\ StoreDropped(i, "ended") /\ faults' \in Nat
      /\ \A a \in Apps : instances[a] # i
  BY DEF WorkerEnds, IndInv, TypeOK
<1> QED
  BY <1>1, DropInv

(***************************************************************************)
(* SQLite: a guest changes the transaction of its own request only.        *)
(***************************************************************************)

\* What a call of the guest of r leaves alone.
LEMMA GuestFrame ==
  ASSUME IndInv, NEW r \in Requests, Calls(r)
  PROVE  /\ req[r].i \in Ids
         /\ UNCHANGED <<file, sync, previous, instances, made, inst, req, gone, edits, faults>>
         /\ InstancesRun' /\ SyncInOrder'
         /\ TypeOK
         /\ \A j \in Ids : dirty[j] \subseteq Requests \X {"tx", "plain"}
<1>1. /\ InStore(r)
      /\ UNCHANGED <<file, sync, previous, instances, made, inst, req, gone, edits, faults>>
  BY DEF Calls, InStore, syncVars
<1>2. req[r].i \in Ids
  BY <1>1, StoreRuns
<1>3. InstancesRun' /\ SyncInOrder'
  BY <1>1 DEF IndInv, InstancesRun, SyncInOrder, Live, Runs, InStore
<1> QED
  BY <1>1, <1>2, <1>3 DEF IndInv, TypeOK, Writes

LEMMA BeginInv == ASSUME IndInv, NEW r \in Requests, Begin(r) PROVE IndInv'
<1> DEFINE i == req[r].i
<1>1. Calls(r)
  BY DEF Begin
<1>2. /\ i \in Ids /\ InstancesRun' /\ SyncInOrder' /\ TypeOK
      /\ UNCHANGED <<file, sync, previous, instances, made, inst, req, gone, edits, faults>>
      /\ \A j \in Ids : dirty[j] \subseteq Requests \X {"tx", "plain"}
  BY <1>1, GuestFrame
<1>3. /\ Runs(r) /\ tx[r] = "none" /\ ~inTx[i]
      /\ inTx' = [inTx EXCEPT ![i] = TRUE]
      /\ tx' = [tx EXCEPT ![r] = "running"]
      /\ UNCHANGED <<holds, dirty, durable, undone, plain>>
  BY DEF Begin, Calls
<1> HIDE DEF i
<1>4. TypeOK'
  BY <1>2, <1>3 DEF TypeOK
<1>5. /\ \A q \in Requests : tx'[q] = IF q = r THEN "running" ELSE tx[q]
      /\ \A j \in Ids : inTx'[j] = IF j = i THEN TRUE ELSE inTx[j]
  BY <1>2, <1>3 DEF TypeOK
<1>6. \A q \in Requests : tx[q] = "running" => req[q].i # i
  BY <1>3 DEF IndInv, OneTransaction, Runs
<1>7. \A q \in Requests : tx[q] = "running" => req[q].i \in Ids
  <2>1. \A q \in Requests : tx[q] = "running" => InStore(q)
    BY DEF IndInv, OneTransaction, Live, Runs, InStore
  <2> QED
    BY <2>1, StoreRuns
<1>8. OneTransaction'
  <2>1. \A q \in Requests : tx'[q] = "running" => Runs(q)' /\ inTx'[req'[q].i]
    <3>1. req'[r].i = i /\ inTx'[i] /\ \A q \in Requests : req'[q] = req[q]
      BY <1>2, <1>5 DEF i
    <3>2. \A q \in Requests : tx[q] = "running" =>
            Runs(q) /\ inTx[req[q].i] /\ inTx'[req[q].i]
      BY <1>5, <1>7 DEF IndInv, OneTransaction, Runs
    <3> QED
      BY <1>3, <1>5, <3>1, <3>2 DEF Runs
  <2>2. \A p, q \in Requests :
          tx'[p] = "running" /\ tx'[q] = "running" /\ req'[p].i = req'[q].i => p = q
    BY <1>2, <1>5, <1>6 DEF IndInv, OneTransaction, i, Runs
  <2>3. \A j \in Ids : inTx'[j] => \E q \in Requests : tx'[q] = "running" /\ req'[q].i = j
    <3>1. tx'[r] = "running" /\ req'[r].i = i /\ \A q \in Requests : req'[q] = req[q]
      BY <1>2, <1>5 DEF i
    <3>2. \A j \in Ids : inTx[j] => \E q \in Requests : tx[q] = "running" /\ req[q].i = j
      BY DEF IndInv, OneTransaction, Runs
    <3> SUFFICES ASSUME NEW j \in Ids, inTx'[j]
                 PROVE  \E q \in Requests : tx'[q] = "running" /\ req'[q].i = j
      OBVIOUS
    <3>3. CASE j = i
      BY <3>1, <3>3
    <3>4. CASE j # i
      <4>1. inTx[j]
        BY <1>5, <3>4
      <4>2. PICK q \in Requests : tx[q] = "running" /\ req[q].i = j
        BY <3>2, <4>1
      <4>3. tx'[q] = "running" /\ req'[q].i = j
        BY <1>5, <3>1, <4>2
      <4> QED
        BY <4>3
    <3> QED
      BY <3>3, <3>4
  <2>4. \A j \in Ids : holds'[j] # "nothing" => inTx'[j]
    BY <1>2, <1>3, <1>5 DEF IndInv, OneTransaction, Runs
  <2>5. \A j \in Ids : \A w \in dirty'[j] :
          w[2] = "tx" /\ tx'[w[1]] = "running" /\ req'[w[1]].i = j
    BY <1>2, <1>3, <1>5 DEF IndInv, OneTransaction, Runs
  <2> QED
    BY <2>1, <2>2, <2>3, <2>4, <2>5 DEF OneTransaction, Runs
<1> QED
  BY <1>2, <1>4, <1>8 DEF IndInv

LEMMA TxQueryInv == ASSUME IndInv, NEW r \in Requests, TxQuery(r) PROVE IndInv'
<1> DEFINE i == req[r].i
<1>1. Calls(r)
  BY DEF TxQuery
<1>2. /\ i \in Ids /\ InstancesRun' /\ SyncInOrder' /\ TypeOK
      /\ UNCHANGED <<file, sync, previous, instances, made, inst, req, gone, edits, faults>>
  BY <1>1, GuestFrame
<1>3. /\ tx[r] = "running"
      /\ holds' = [holds EXCEPT ![i] = IF @ = "nothing" THEN "read" ELSE @]
      /\ UNCHANGED <<tx, inTx, dirty, durable, undone, plain>>
  BY DEF TxQuery
<1>4. inTx[i]
  BY <1>3 DEF IndInv, OneTransaction, Runs
<1> HIDE DEF i
<1>5. TypeOK'
  BY <1>2, <1>3 DEF TypeOK
<1>6. \A j \in Ids : j # i => holds'[j] = holds[j]
  BY <1>2, <1>3 DEF TypeOK
<1>7. OneTransaction'
  BY <1>2, <1>3, <1>4, <1>6 DEF IndInv, OneTransaction, Runs
<1> QED
  BY <1>2, <1>5, <1>7 DEF IndInv

LEMMA TxExecuteInv == ASSUME IndInv, NEW r \in Requests, TxExecute(r) PROVE IndInv'
<1> DEFINE i == req[r].i
<1>1. Calls(r)
  BY DEF TxExecute
<1>2. /\ i \in Ids /\ InstancesRun' /\ SyncInOrder' /\ TypeOK
      /\ UNCHANGED <<file, sync, previous, instances, made, inst, req, gone, edits, faults>>
  BY <1>1, GuestFrame
<1>3. /\ tx[r] = "running"
      /\ holds' = [holds EXCEPT ![i] = "write"]
      /\ dirty' = [dirty EXCEPT ![i] = @ \cup {<<r, "tx">>}]
      /\ UNCHANGED <<tx, inTx, durable, undone, plain>>
  BY DEF TxExecute
<1>4. inTx[i]
  BY <1>3 DEF IndInv, OneTransaction, Runs
<1> HIDE DEF i
<1>5. TypeOK'
  <2>1. <<r, "tx">> \in Writes
    BY DEF Writes
  <2> QED
    BY <1>2, <1>3, <2>1 DEF TypeOK
<1>6. \A j \in Ids : j # i => holds'[j] = holds[j]
  BY <1>2, <1>3 DEF TypeOK
<1>7. \A j \in Ids : \A w \in dirty'[j] : w \in dirty[j] \/ (j = i /\ w = <<r, "tx">>)
  BY <1>2, <1>3 DEF TypeOK
<1>8. OneTransaction'
  <2>1. \A j \in Ids : \A w \in dirty'[j] :
          w[2] = "tx" /\ tx'[w[1]] = "running" /\ req'[w[1]].i = j
    BY <1>2, <1>3, <1>7 DEF IndInv, OneTransaction, i, Runs
  <2>2. \A j \in Ids : holds'[j] # "nothing" => inTx'[j]
    BY <1>3, <1>4, <1>6 DEF IndInv, OneTransaction, Runs
  <2> QED
    BY <1>2, <1>3, <2>1, <2>2 DEF IndInv, OneTransaction, Runs
<1> QED
  BY <1>2, <1>5, <1>8 DEF IndInv

\* The end of the only transaction of the connection.
LEMMA EndTxInv ==
  ASSUME IndInv, NEW r \in Requests, Calls(r), tx[r] = "running", EndTx(r),
         durable' \subseteq Writes, undone' \subseteq Requests, plain' \subseteq Requests
  PROVE  IndInv'
<1> DEFINE i == req[r].i
<1>1. /\ i \in Ids /\ InstancesRun' /\ SyncInOrder' /\ TypeOK
      /\ UNCHANGED <<file, sync, previous, instances, made, inst, req, gone, edits, faults>>
      /\ \A j \in Ids : dirty[j] \subseteq Requests \X {"tx", "plain"}
  BY GuestFrame
<1>2. /\ tx' = [tx EXCEPT ![r] = "over"]
      /\ inTx' = [inTx EXCEPT ![i] = FALSE]
      /\ holds' = [holds EXCEPT ![i] = "nothing"]
      /\ dirty' = [dirty EXCEPT ![i] = {}]
  BY DEF EndTx
<1> HIDE DEF i
<1>3. TypeOK'
  <2>1. /\ tx' \in [Requests -> {"none", "running", "over"}]
        /\ inTx' \in [Ids -> BOOLEAN]
        /\ holds' \in [Ids -> {"nothing", "read", "write"}]
        /\ dirty' \in [Ids -> SUBSET Writes]
    BY <1>1, <1>2 DEF TypeOK
  <2> QED
    BY <1>1, <2>1 DEF TypeOK
<1>4. /\ \A q \in Requests : tx'[q] = IF q = r THEN "over" ELSE tx[q]
      /\ \A j \in Ids : j # i => inTx'[j] = inTx[j] /\ holds'[j] = holds[j] /\ dirty'[j] = dirty[j]
      /\ ~inTx'[i] /\ holds'[i] = "nothing" /\ dirty'[i] = {}
  BY <1>1, <1>2 DEF TypeOK
<1>5. \A q \in Requests : tx'[q] = "running" => q # r /\ tx[q] = "running" /\ req[q].i # i
  BY <1>4 DEF IndInv, OneTransaction, i, Runs
<1>6. \A q \in Requests : tx[q] = "running" => req[q].i \in Ids
  <2>1. \A q \in Requests : tx[q] = "running" => InStore(q)
    BY DEF IndInv, OneTransaction, Live, Runs, InStore
  <2> QED
    BY <2>1, StoreRuns
<1>7. OneTransaction'
  <2>1. \A q \in Requests : tx'[q] = "running" => Runs(q)' /\ inTx'[req'[q].i]
    BY <1>1, <1>4, <1>5, <1>6 DEF IndInv, OneTransaction, Runs
  <2>2. \A p, q \in Requests :
          tx'[p] = "running" /\ tx'[q] = "running" /\ req'[p].i = req'[q].i => p = q
    BY <1>1, <1>5 DEF IndInv, OneTransaction, Runs
  <2>3. \A j \in Ids : inTx'[j] => \E q \in Requests : tx'[q] = "running" /\ req'[q].i = j
    BY <1>1, <1>4 DEF IndInv, OneTransaction, i, Runs
  <2>4. \A j \in Ids : holds'[j] # "nothing" => inTx'[j]
    BY <1>4 DEF IndInv, OneTransaction, Runs
  <2>5. \A j \in Ids : \A w \in dirty'[j] :
          w[2] = "tx" /\ tx'[w[1]] = "running" /\ req'[w[1]].i = j
    BY <1>1, <1>4 DEF IndInv, OneTransaction, i, Runs
  <2> QED
    BY <2>1, <2>2, <2>3, <2>4, <2>5 DEF OneTransaction, Runs
<1> QED
  BY <1>1, <1>3, <1>7 DEF IndInv

LEMMA CommitInv == ASSUME IndInv, NEW r \in Requests, Commit(r) PROVE IndInv'
<1>1. Calls(r) /\ tx[r] = "running" /\ EndTx(r)
  BY DEF Commit
<1>2. req[r].i \in Ids
  BY <1>1, GuestFrame
<1>3. durable' \subseteq Writes /\ undone' \subseteq Requests /\ plain' \subseteq Requests
  BY <1>2 DEF IndInv, TypeOK, Commit
<1> QED
  BY <1>1, <1>3, EndTxInv

LEMMA RollbackInv == ASSUME IndInv, NEW r \in Requests, Rollback(r) PROVE IndInv'
<1>1. Calls(r) /\ tx[r] = "running" /\ EndTx(r)
  BY DEF Rollback
<1>2. durable' \subseteq Writes /\ undone' \subseteq Requests /\ plain' \subseteq Requests
  BY DEF IndInv, TypeOK, Rollback
<1> QED
  BY <1>1, <1>2, EndTxInv

LEMMA ExecuteInv == ASSUME IndInv, NEW r \in Requests, Execute(r) PROVE IndInv'
<1>1. Calls(r)
  BY DEF Execute
<1>2. /\ InstancesRun' /\ SyncInOrder' /\ TypeOK
      /\ UNCHANGED <<file, sync, previous, instances, made, inst, req, gone, edits, faults>>
  BY <1>1, GuestFrame
<1>3. /\ plain' = plain \cup {r}
      /\ durable' = durable \cup {<<r, "plain">>}
      /\ UNCHANGED <<tx, inTx, holds, dirty, undone>>
  BY DEF Execute
<1>4. TypeOK'
  BY <1>2, <1>3 DEF TypeOK, Writes
<1>5. OneTransaction'
  BY <1>2, <1>3 DEF IndInv, OneTransaction, Runs
<1> QED
  BY <1>2, <1>4, <1>5 DEF IndInv

(***************************************************************************)
(* The inductive invariant.                                                *)
(***************************************************************************)

LEMMA StepInv == IndInv /\ [Next]_vars => IndInv'
<1> SUFFICES ASSUME IndInv, [Next]_vars PROVE IndInv'
  OBVIOUS
<1>1. CASE \E a \in Apps : Edit(a)
  BY <1>1, EditInv
<1>2. CASE SyncStep
  BY <1>2, ListInv, ScanInv, StampInv, SleepInv, LoadInv, InstallInv, InitFailsInv DEF SyncStep
<1>3. CASE \E r \in Requests : \E a \in Apps : Arrive(r, a)
  BY <1>3, ArriveInv
<1>4. CASE \E r \in Requests : Receive(r) \/ Finish(r) \/ BodyDone(r) \/ HangUp(r)
  BY <1>4, ReceiveInv, FinishInv, BodyDoneInv, HangUpInv
<1>8. CASE \E r \in Requests : Unheard(r) \/ Trap(r) \/ BusyTimeout(r)
  BY <1>8, DeathInv
<1>5. CASE \E r \in Requests : GuestStep(r)
  BY <1>5, BeginInv, TxQueryInv, TxExecuteInv, CommitInv, RollbackInv, ExecuteInv DEF GuestStep
<1>6. CASE \E i \in Ids : WorkerEnds(i)
  BY <1>6, WorkerEndsInv
<1>7. CASE UNCHANGED vars
  <2>1. /\ UNCHANGED <<file, sync, previous, instances, made, inst, req, gone>>
        /\ UNCHANGED <<tx, inTx, holds, dirty, durable, undone, plain, edits, faults>>
    BY <1>7 DEF vars, syncVars, sqlVars
  <2> QED
    BY <2>1 DEF IndInv, TypeOK, OneTransaction, InstancesRun, SyncInOrder, Live, Runs, InStore
<1> QED
  BY <1>1, <1>2, <1>3, <1>4, <1>5, <1>6, <1>7, <1>8 DEF Next

\* in_tx, the transaction resources of the requests (sqlite.rs), the
\* connection of every instance and the map of instances (main.rs) agree.
THEOREM Invariance == Spec => []IndInv
<1>1. Init => IndInv
  BY InitInv
<1>2. IndInv /\ [Next]_vars => IndInv'
  BY StepInv
<1> QED
  BY <1>1, <1>2, PTL DEF Spec

(***************************************************************************)
(* Transactions stay apart.                                                *)
(***************************************************************************)

\* A write of a transaction is committed by the end of that transaction only,
\* and a transaction that is undone has ended.
WholeInv ==
  /\ \A r \in Requests : <<r, "tx">> \in durable => tx[r] = "over" /\ r \notin undone
  /\ \A r \in undone : tx[r] = "over"
  /\ \A r \in plain : <<r, "plain">> \in durable

LEMMA DropWhole ==
  ASSUME IndInv, WholeInv, NEW i \in Ids, NEW how, StoreDropped(i, how)
  PROVE  WholeInv'
<1>1. /\ tx' = [q \in Requests |-> IF tx[q] = "running" /\ req[q].i = i THEN "over" ELSE tx[q]]
      /\ undone' = undone \cup {q \in Requests : tx[q] = "running" /\ req[q].i = i}
      /\ UNCHANGED <<durable, plain>>
  BY DEF StoreDropped
<1>2. undone \subseteq Requests
  BY DEF IndInv, TypeOK
<1> QED
  BY <1>1, <1>2 DEF WholeInv

\* What a transaction commits are its own writes.
LEMMA CommitWhole ==
  ASSUME IndInv, WholeInv, NEW r \in Requests, Commit(r)
  PROVE  WholeInv'
<1>1. /\ Calls(r) /\ tx[r] = "running"
      /\ tx' = [tx EXCEPT ![r] = "over"]
      /\ durable' = durable \cup dirty[req[r].i]
      /\ UNCHANGED <<undone, plain>>
  BY DEF Commit, EndTx
<1>2. req[r].i \in Ids /\ dirty[req[r].i] \subseteq Requests \X {"tx", "plain"}
  BY <1>1, GuestFrame
<1>3. \A w \in dirty[req[r].i] : w = <<r, "tx">>
  <2>1. \A w \in dirty[req[r].i] : w[2] = "tx" /\ tx[w[1]] = "running" /\ req[w[1]].i = req[r].i
    BY <1>2 DEF IndInv, OneTransaction, Runs
  <2>2. \A w \in dirty[req[r].i] : w[1] \in Requests /\ w = <<w[1], w[2]>>
    BY <1>2
  <2>3. \A w \in dirty[req[r].i] : w[1] = r
    BY <1>1, <2>1, <2>2 DEF IndInv, OneTransaction, Runs
  <2> QED
    BY <2>1, <2>2, <2>3
<1>4. \A q \in Requests : tx'[q] = IF q = r THEN "over" ELSE tx[q]
  BY <1>1 DEF IndInv, TypeOK
<1>5. r \notin undone /\ undone \subseteq Requests
  BY <1>1 DEF WholeInv, IndInv, TypeOK
<1>6. \A q \in Requests : <<q, "tx">> \in durable' => q = r \/ <<q, "tx">> \in durable
  BY <1>1, <1>3
<1>7. \A q \in Requests : <<q, "tx">> \in durable' => tx'[q] = "over" /\ q \notin undone'
  BY <1>1, <1>4, <1>5, <1>6 DEF WholeInv
<1>8. \A q \in undone' : tx'[q] = "over"
  BY <1>1, <1>4, <1>5 DEF WholeInv
<1>9. \A q \in plain' : <<q, "plain">> \in durable'
  BY <1>1 DEF WholeInv
<1> QED
  BY <1>7, <1>8, <1>9 DEF WholeInv

LEMMA GuestWhole ==
  ASSUME IndInv, WholeInv, NEW r \in Requests, GuestStep(r)
  PROVE  WholeInv'
<1>0. tx \in [Requests -> {"none", "running", "over"}] /\ undone \subseteq Requests
  BY DEF IndInv, TypeOK
<1>1. CASE Begin(r)
  <2>1. tx[r] = "none" /\ tx' = [tx EXCEPT ![r] = "running"] /\ UNCHANGED <<durable, undone, plain>>
    BY <1>1 DEF Begin
  <2> QED
    BY <1>0, <2>1 DEF WholeInv
<1>2. CASE TxQuery(r) \/ TxExecute(r)
  <2>1. UNCHANGED <<tx, durable, undone, plain>>
    BY <1>2 DEF TxQuery, TxExecute
  <2> QED
    BY <2>1 DEF WholeInv
<1>3. CASE Commit(r)
  BY <1>3, CommitWhole
<1>4. CASE Rollback(r)
  <2>1. /\ tx[r] = "running" /\ tx' = [tx EXCEPT ![r] = "over"]
        /\ undone' = undone \cup {r} /\ UNCHANGED <<durable, plain>>
    BY <1>4 DEF Rollback, EndTx
  <2> QED
    BY <1>0, <2>1 DEF WholeInv
<1>5. CASE Execute(r)
  <2>1. /\ plain' = plain \cup {r} /\ durable' = durable \cup {<<r, "plain">>}
        /\ UNCHANGED <<tx, undone>>
    BY <1>5 DEF Execute
  <2>2. \A q \in Requests : <<q, "tx">> \in durable' => <<q, "tx">> \in durable
    BY <2>1
  <2> QED
    BY <2>1, <2>2 DEF WholeInv
<1> QED
  BY <1>1, <1>2, <1>3, <1>4, <1>5 DEF GuestStep

LEMMA StepWhole == IndInv /\ WholeInv /\ [Next]_vars => WholeInv'
<1> SUFFICES ASSUME IndInv, WholeInv, [Next]_vars PROVE WholeInv'
  OBVIOUS
<1>1. CASE UNCHANGED sqlVars
  BY <1>1 DEF WholeInv, sqlVars
<1>2. CASE \E r \in Requests : Unheard(r) \/ Trap(r) \/ BusyTimeout(r)
  BY <1>2, DeathOfWorker, DropWhole
<1>3. CASE \E r \in Requests : GuestStep(r)
  BY <1>3, GuestWhole
<1>4. (\E a \in Apps : Edit(a)) => UNCHANGED sqlVars
  BY DEF Edit
<1>5. SyncStep => UNCHANGED sqlVars
  BY DEF SyncStep, List, Scan, Stamp, Sleep, Load, Install, InitFails
<1>6. (\E r \in Requests : (\E a \in Apps : Arrive(r, a)) \/ Receive(r) \/ HangUp(r)
                        \/ Finish(r) \/ BodyDone(r)) => UNCHANGED sqlVars
  BY DEF Arrive, Receive, HangUp, Finish, BodyDone
<1>7. CASE \E i \in Ids : WorkerEnds(i)
  BY <1>7, DropWhole DEF WorkerEnds
<1>8. UNCHANGED vars => UNCHANGED sqlVars
  BY DEF vars
<1> QED
  BY <1>1, <1>2, <1>3, <1>4, <1>5, <1>6, <1>7, <1>8 DEF Next

\* Requests that share a connection do not get into each other's
\* transactions, in whatever order they call begin, execute, commit, rollback
\* and drop and whenever their worker dies (sqlite.rs).
THEOREM WholeWrites == Spec => []WritesAreWhole
<1>1. Init => WholeInv
  BY DEF Init, WholeInv
<1>2. IndInv /\ WholeInv /\ [Next]_vars => WholeInv'
  BY StepWhole
<1>3. IndInv /\ WholeInv => WritesAreWhole
  BY DEF IndInv, TypeOK, WholeInv, WritesAreWhole
<1> QED
  BY <1>1, <1>2, <1>3, Invariance, PTL DEF Spec

(***************************************************************************)
(* What a reload may cost.                                                 *)
(***************************************************************************)

\* Which instances are over, and what every step keeps of them and of requests.
Over == Dead \cup {"ended"}

Keeps ==
  /\ \A i \in Ids : inst[i].st # "none" => inst'[i].app = inst[i].app /\ inst'[i].st # "none"
  /\ \A i \in Ids : inst[i].st \in Over => inst'[i].st = inst[i].st
  /\ \A r \in Requests : req[r].at # "idle" => req'[r].at # "idle" /\ req'[r].i = req[r].i
  /\ \A r \in Requests : req[r].at \in {"failed", "cut"} => req'[r].at = req[r].at
  /\ gone \subseteq gone'
  /\ \A r \in gone' \ gone : req'[r].at # "idle"
  /\ faults' >= faults

\* The losses of this step are explained by the instances after it.
NewLosses ==
  \A r \in Requests :
    /\ req'[r].at = "failed" /\ req[r].at # "failed" =>
         req'[r].i = 0 \/ (req'[r].i \in Ids /\ inst'[req'[r].i].st \in Dead)
    /\ req'[r].at = "cut" /\ req[r].at # "cut" =>
         req'[r].i \in Ids /\ inst'[req'[r].i].st \in Over

\* The worker that panics in this step, if any, had a reason.
NewDeaths ==
  \A i \in Ids : inst[i].st \notin Dead =>
    /\ inst'[i].st = "trapped" => faults' > 0
    /\ inst'[i].st = "unheard" => \E r \in gone' : req'[r].i = i
    /\ inst'[i].st = "busy" =>
         \E j \in Ids \ {i} : inst'[j].app = inst'[i].app /\ inst'[j].st # "none"

Accounted == Keeps /\ NewLosses /\ NewDeaths

\* Steps that touch neither instances nor requests.
LEMMA QuietAccounted ==
  ASSUME IndInv, UNCHANGED <<inst, req, gone, faults>>
  PROVE  Accounted
<1>1. faults \in Nat
  BY DEF IndInv, TypeOK
<1>2. Keeps
  BY <1>1 DEF Keeps
<1>3. NewLosses
  BY DEF NewLosses
<1>4. NewDeaths
  BY DEF NewDeaths, Dead
<1> QED
  BY <1>2, <1>3, <1>4 DEF Accounted

\* Steps that change instances which no request has: the one sync_apps makes.
LEMMA MadeAccounted ==
  ASSUME IndInv, NEW k \in Ids, inst[k].st \in {"none", "init"},
         \A i \in Ids \ {k} : inst'[i] = inst[i],
         inst'[k].st \in {"init", "run", "ended"},
         inst[k].st = "init" => inst'[k].app = inst[k].app,
         UNCHANGED <<req, gone>>, faults' >= faults
  PROVE  Accounted
<1>1. /\ inst[k].st \notin Over /\ inst'[k].st # "none"
      /\ inst'[k].st \notin {"trapped", "unheard", "busy"}
  BY DEF Over, Dead
<1>2. Keeps
  BY <1>1 DEF Keeps
<1>3. NewLosses
  BY DEF NewLosses
<1>4. NewDeaths
  BY <1>1 DEF NewDeaths, Dead
<1> QED
  BY <1>2, <1>3, <1>4 DEF Accounted

LEMMA SyncAccounted == ASSUME IndInv, SyncStep PROVE Accounted
<1>0. inst \in [Ids -> Instance] /\ faults \in Nat
  BY DEF IndInv, TypeOK
<1>1. CASE List \/ Scan \/ (\E a \in Apps : Stamp(a)) \/ Sleep
  <2>1. UNCHANGED <<inst, req, gone, faults>>
    BY <1>1 DEF List, Scan, Stamp, Sleep
  <2> QED
    BY <2>1, QuietAccounted
<1>2. CASE Load
  <2>1. UNCHANGED <<req, gone, faults>>
    BY <1>2 DEF Load
  <2>2. \/ inst' = inst
        \/ /\ inst' = [inst EXCEPT ![made + 1] =
                         [app |-> sync.app, ver |-> file[sync.app].mtime, st |-> "init"]]
           /\ made < MaxInst
    BY <1>2 DEF Load
  <2>3. CASE made < MaxInst /\ inst' = [inst EXCEPT ![made + 1] =
                         [app |-> sync.app, ver |-> file[sync.app].mtime, st |-> "init"]]
    <3>1. made + 1 \in Ids /\ inst[made + 1].st = "none"
      BY <2>3, HostAssumption DEF IndInv, TypeOK, SyncInOrder, Ids
    <3>2. inst'[made + 1].st = "init" /\ \A i \in Ids \ {made + 1} : inst'[i] = inst[i]
      BY <1>0, <2>3, <3>1
    <3>3. faults' >= faults
      BY <1>0, <2>1
    <3> QED
      BY <2>1, <3>1, <3>2, <3>3, MadeAccounted
  <2> QED
    BY <2>1, <2>2, <2>3, QuietAccounted
<1>3. CASE Install \/ InitFails
  <2>1. made \in Ids /\ inst[made].st = "init"
    BY <1>3, HostAssumption DEF Install, InitFails, IndInv, TypeOK, SyncInOrder, Ids
  <2>2. PICK st \in {"run", "ended"} : inst' = [inst EXCEPT ![made].st = st]
    BY <1>3 DEF Install, InitFails
  <2>3. UNCHANGED <<req, gone>> /\ faults' >= faults
    BY <1>0, <1>3 DEF Install, InitFails
  <2>4. /\ inst'[made].st = st /\ inst'[made].app = inst[made].app
        /\ \A i \in Ids \ {made} : inst'[i] = inst[i]
    <3>1. inst' = [inst EXCEPT ![made] = [inst[made] EXCEPT !.st = st]]
      BY <2>2
    <3>2. inst[made] \in Instance
      BY <1>0, <2>1
    <3> QED
      BY <1>0, <2>1, <3>1, <3>2 DEF Instance
  <2> QED
    BY <2>1, <2>3, <2>4, MadeAccounted
<1> QED
  BY <1>1, <1>2, <1>3 DEF SyncStep

\* A request that finds no instance, or one whose worker is gone, fails.
LEMMA ArriveAccounted ==
  ASSUME IndInv, NEW r \in Requests, NEW a \in Apps, Arrive(r, a)
  PROVE  Accounted
<1> DEFINE i == instances[a]
           at == IF i # 0 /\ inst[i].st = "run" THEN "queued" ELSE "failed"
<1>1. /\ req[r].at = "idle" /\ req' = [req EXCEPT ![r] = [at |-> at, i |-> i]]
      /\ UNCHANGED <<inst, gone, faults>>
  BY DEF Arrive
<1>2. at = "failed" => i = 0 \/ (i \in Ids /\ inst[i].st \in Dead)
  BY DEF IndInv, TypeOK, InstancesRun
<1>3. at # "cut" /\ at # "idle"
  OBVIOUS
<1> HIDE DEF at, i
<1>4. req'[r].at = at /\ req'[r].i = i /\ \A q \in Requests \ {r} : req'[q] = req[q]
  BY <1>1 DEF IndInv, TypeOK
<1>5. faults \in Nat
  BY DEF IndInv, TypeOK
<1>6. Keeps
  BY <1>1, <1>4, <1>5 DEF Keeps
<1>7. NewLosses
  BY <1>1, <1>2, <1>3, <1>4 DEF NewLosses
<1>8. NewDeaths
  BY <1>1 DEF NewDeaths, Dead
<1> QED
  BY <1>6, <1>7, <1>8 DEF Accounted

LEMMA MoveAccounted ==
  ASSUME IndInv, NEW r \in Requests, Receive(r) \/ Finish(r) \/ BodyDone(r)
  PROVE  Accounted
<1>1. PICK to \in {"running", "streaming", "answered"} : req' = [req EXCEPT ![r].at = to]
  BY DEF Receive, Finish, BodyDone
<1>2. req[r].at \in {"queued", "running", "streaming"} /\ UNCHANGED <<inst, gone, faults>>
  BY DEF Receive, Finish, BodyDone
<1>3. \A q \in Requests : req'[q].i = req[q].i /\ req'[q].at = IF q = r THEN to ELSE req[q].at
  <2>1. to \in Place /\ req \in [Requests -> Holder]
    BY DEF Place, IndInv, TypeOK
  <2>2. \A g : g = [req EXCEPT ![r].at = to] =>
          \A q \in Requests : g[q].i = req[q].i /\ g[q].at = IF q = r THEN to ELSE req[q].at
    BY <2>1, HolderType
  <2> QED
    BY <1>1, <2>2
<1>4. faults \in Nat
  BY DEF IndInv, TypeOK
<1>5. Keeps
  BY <1>2, <1>3, <1>4 DEF Keeps
<1>6. NewLosses
  BY <1>3 DEF NewLosses
<1>7. NewDeaths
  BY <1>2 DEF NewDeaths, Dead
<1> QED
  BY <1>5, <1>6, <1>7 DEF Accounted

LEMMA HangUpAccounted == ASSUME IndInv, NEW r \in Requests, HangUp(r) PROVE Accounted
<1>1. UNCHANGED <<inst, req>> /\ gone' = gone \cup {r} /\ faults' = faults + 1 /\ Live(r)
  BY DEF HangUp
<1>2. faults \in Nat
  BY DEF IndInv, TypeOK
<1>3. Keeps
  BY <1>1, <1>2 DEF Keeps, Live
<1>4. NewLosses
  BY <1>1 DEF NewLosses
<1>5. NewDeaths
  BY <1>1 DEF NewDeaths, Dead
<1> QED
  BY <1>3, <1>4, <1>5 DEF Accounted

\* The store of an instance is dropped: it is the only instance that changes,
\* and the requests that change are the ones it had.
LEMMA DropEffect ==
  ASSUME IndInv, NEW i \in Ids, inst[i].st = "run", NEW how \in Over, StoreDropped(i, how),
         faults' >= faults
  PROVE  /\ Keeps /\ gone' = gone
         /\ \A j \in Ids : inst'[j].st = IF j = i THEN how ELSE inst[j].st
         /\ \A j \in Ids : inst'[j].app = inst[j].app
         /\ \A r \in Requests : req'[r].i = req[r].i
         /\ \A r \in Requests :
              req'[r].at = IF InStore(r) /\ req[r].i = i
                           THEN IF Live(r) THEN "failed" ELSE "cut"
                           ELSE req[r].at
<1>1. inst \in [Ids -> Instance] /\ req \in [Requests -> Holder]
  BY DEF IndInv, TypeOK
<1>2. inst' = [inst EXCEPT ![i].st = how] /\ gone' = gone
  BY DEF StoreDropped
<1>3. how \in {"none", "ended", "init", "run"} \cup Dead
  BY DEF Over
<1>4. \A j \in Ids : /\ inst'[j].app = inst[j].app
                     /\ inst'[j].st = IF j = i THEN how ELSE inst[j].st
  BY <1>1, <1>2, <1>3, InstType
<1> DEFINE lost(r) == IF Live(r) THEN "failed" ELSE "cut"
<1>5. \A r \in Requests : /\ [req[r] EXCEPT !.at = lost(r)].i = req[r].i
                          /\ [req[r] EXCEPT !.at = lost(r)].at = lost(r)
  BY <1>1 DEF Holder
<1>6. req' = [r \in Requests |-> IF InStore(r) /\ req[r].i = i
                                 THEN [req[r] EXCEPT !.at = lost(r)] ELSE req[r]]
  BY DEF StoreDropped
<1>7. \A r \in Requests : lost(r) \in {"failed", "cut"}
  OBVIOUS
<1>8. \A r \in Requests : /\ req'[r].i = req[r].i
                          /\ req'[r].at = IF InStore(r) /\ req[r].i = i
                                          THEN lost(r) ELSE req[r].at
  <2> HIDE DEF lost
  <2> QED
    BY <1>5, <1>6
<1>9. Keeps
  <2>1. how # "none" /\ "run" \notin Over
    BY DEF Over, Dead
  <2>2. \A r \in Requests : req[r].at \in {"failed", "cut"} => ~InStore(r)
    BY DEF InStore, Live, Runs
  <2> HIDE DEF lost
  <2> QED
    BY <1>2, <1>4, <1>7, <1>8, <2>1, <2>2 DEF Keeps
<1> QED
  BY <1>2, <1>4, <1>8, <1>9

LEMMA DeathAccounted ==
  ASSUME IndInv, NEW r \in Requests, Unheard(r) \/ Trap(r) \/ BusyTimeout(r)
  PROVE  Accounted
<1> DEFINE i == req[r].i
<1>0. faults \in Nat
  BY DEF IndInv, TypeOK
<1>1. i \in Ids /\ inst[i].st = "run" /\ InStore(r)
  BY DeathOfWorker
<1>2. PICK how \in Dead : StoreDropped(i, how)
  BY DeathOfWorker
<1>3. faults' >= faults /\ how \in Over
  BY <1>0 DEF Unheard, Trap, BusyTimeout, Over
<1>4. /\ Keeps /\ gone' = gone
      /\ \A j \in Ids : inst'[j].st = IF j = i THEN how ELSE inst[j].st
      /\ \A j \in Ids : inst'[j].app = inst[j].app
      /\ \A q \in Requests : req'[q].i = req[q].i
      /\ \A q \in Requests :
           req'[q].at = IF InStore(q) /\ req[q].i = i
                        THEN IF Live(q) THEN "failed" ELSE "cut"
                        ELSE req[q].at
  BY <1>1, <1>2, <1>3, DropEffect
<1>5. NewLosses
  <2> HIDE DEF i
  <2> QED
    BY <1>1, <1>3, <1>4 DEF NewLosses
<1>6. NewDeaths
  <2>1. how = inst'[i].st
    BY <1>1, <1>4
  <2>2. CASE Unheard(r)
    <3>1. inst'[i].st = "unheard" /\ r \in gone
      BY <2>2, <1>1, InstType DEF Unheard, StoreDropped, IndInv, TypeOK, Dead
    <3> HIDE DEF i
    <3> QED
      BY <1>4, <3>1 DEF NewDeaths, Dead, i
  <2>3. CASE Trap(r)
    <3>1. inst'[i].st = "trapped" /\ faults' > 0
      BY <2>3, <1>0, <1>1, InstType DEF Trap, StoreDropped, IndInv, TypeOK, Dead
    <3> HIDE DEF i
    <3> QED
      BY <1>4, <3>1 DEF NewDeaths, Dead
  <2>4. CASE BusyTimeout(r)
    <3>1. inst'[i].st = "busy"
      BY <2>4, <1>1, InstType DEF BusyTimeout, StoreDropped, IndInv, TypeOK, Dead
    <3>2. PICK j \in Ids \ {i} : inst[j].app = inst[i].app /\ inst[j].st \in Alive
      BY <2>4 DEF BusyTimeout, WriteBlocked, CommitBlocked, Others
    <3>3. inst'[j].app = inst'[i].app /\ inst'[j].st # "none"
      BY <1>1, <1>4, <3>2 DEF Alive
    <3> HIDE DEF i
    <3> QED
      BY <1>4, <3>1, <3>2, <3>3 DEF NewDeaths, Dead
  <2> QED
    BY <2>2, <2>3, <2>4
<1> QED
  BY <1>4, <1>5, <1>6 DEF Accounted

\* Requests without a response do not lose their instance to a reload.
LEMMA WorkerEndsAccounted == ASSUME IndInv, NEW i \in Ids, WorkerEnds(i) PROVE Accounted
<1>1. inst[i].st = "run" /\ StoreDropped(i, "ended") /\ faults' >= faults
  BY DEF WorkerEnds, IndInv, TypeOK
<1>2. "ended" \in Over /\ "ended" \notin Dead
  BY DEF Over, Dead
<1>3. /\ Keeps /\ gone' = gone
      /\ \A j \in Ids : inst'[j].st = IF j = i THEN "ended" ELSE inst[j].st
      /\ \A j \in Ids : inst'[j].app = inst[j].app
      /\ \A q \in Requests : req'[q].i = req[q].i
      /\ \A q \in Requests :
           req'[q].at = IF InStore(q) /\ req[q].i = i
                        THEN IF Live(q) THEN "failed" ELSE "cut"
                        ELSE req[q].at
  BY <1>1, <1>2, DropEffect
<1>4. \A q \in Requests : Live(q) => req[q].i # i
  BY DEF WorkerEnds
<1>5. NewLosses
  BY <1>2, <1>3, <1>4 DEF NewLosses
<1>6. NewDeaths
  BY <1>3 DEF NewDeaths, Dead
<1> QED
  BY <1>3, <1>5, <1>6 DEF Accounted

LEMMA StepAccounted == IndInv /\ [Next]_vars => Accounted
<1> SUFFICES ASSUME IndInv, [Next]_vars PROVE Accounted
  OBVIOUS
<1>1. CASE (\E a \in Apps : Edit(a)) \/ UNCHANGED vars
  <2>1. UNCHANGED <<inst, req, gone, faults>>
    BY <1>1 DEF Edit, vars
  <2> QED
    BY <2>1, QuietAccounted
<1>2. CASE SyncStep
  BY <1>2, SyncAccounted
<1>3. CASE \E r \in Requests : \E a \in Apps : Arrive(r, a)
  BY <1>3, ArriveAccounted
<1>4. CASE \E r \in Requests : Receive(r) \/ Finish(r) \/ BodyDone(r)
  BY <1>4, MoveAccounted
<1>5. CASE \E r \in Requests : Unheard(r) \/ Trap(r) \/ BusyTimeout(r)
  BY <1>5, DeathAccounted
<1>6. CASE \E r \in Requests : HangUp(r)
  BY <1>6, HangUpAccounted
<1>7. CASE \E r \in Requests : GuestStep(r)
  <2>1. UNCHANGED <<inst, req, gone, faults>>
    BY <1>7 DEF GuestStep, Begin, TxQuery, TxExecute, Commit, Rollback, Execute, Calls
  <2> QED
    BY <2>1, QuietAccounted
<1>8. CASE \E i \in Ids : WorkerEnds(i)
  BY <1>8, WorkerEndsAccounted
<1> QED
  BY <1>1, <1>2, <1>3, <1>4, <1>5, <1>6, <1>7, <1>8 DEF Next

\* The property and what its induction needs: a requester that hangs up has a
\* request with an instance that does not change any more.
CostInv ==
  /\ \A r \in gone : req[r].at # "idle"
  /\ \A r \in Requests :
       /\ req[r].at = "failed" => req[r].i = 0 \/ inst[req[r].i].st \in Dead
       /\ req[r].at = "cut" => req[r].i # 0 /\ inst[req[r].i].st \in Over
  /\ DeathsAreExplained

LEMMA StepCost == IndInv /\ CostInv /\ [Next]_vars => CostInv'
<1> SUFFICES ASSUME IndInv, IndInv', CostInv, Accounted PROVE CostInv'
  BY StepAccounted, StepInv
<1>0. /\ gone \subseteq Requests /\ faults \in Nat /\ faults' >= faults /\ gone \subseteq gone'
      /\ faults > 0 => faults' > 0
      /\ \A r \in Requests : req[r].i \in {0} \cup Ids
  <2>1. gone \subseteq Requests /\ faults \in Nat /\ faults' >= faults /\ gone \subseteq gone'
    BY DEF IndInv, TypeOK, Accounted, Keeps
  <2>2. faults > 0 => faults' > 0
    <3>1. faults' \in Nat
      BY DEF IndInv, TypeOK
    <3> QED
      BY <2>1, <3>1
  <2>3. \A r \in Requests : req[r].i \in {0} \cup Ids
    BY DEF IndInv, TypeOK, Holder
  <2> QED
    BY <2>1, <2>2, <2>3
<1>1. \A r \in gone' : req'[r].at # "idle"
  BY <1>0 DEF CostInv, Accounted, Keeps
<1>2. ASSUME NEW r \in Requests, req'[r].at = "failed"
      PROVE  req'[r].i = 0 \/ inst'[req'[r].i].st \in Dead
  <2>1. CASE req[r].at = "failed"
    BY <1>0, <2>1 DEF CostInv, Accounted, Keeps, Over
  <2>2. CASE req[r].at # "failed"
    BY <1>2, <2>2 DEF Accounted, NewLosses
  <2> QED
    BY <2>1, <2>2
<1>3. ASSUME NEW r \in Requests, req'[r].at = "cut"
      PROVE  req'[r].i # 0 /\ inst'[req'[r].i].st \in Over
  <2>1. CASE req[r].at = "cut"
    BY <1>0, <2>1 DEF CostInv, Accounted, Keeps
  <2>2. CASE req[r].at # "cut"
    <3>1. 0 \notin Ids
      BY DEF Ids
    <3> QED
      BY <1>3, <2>2, <3>1 DEF Accounted, NewLosses
  <2> QED
    BY <2>1, <2>2
<1>4. ASSUME NEW i \in Ids, inst[i].st \notin Dead
      PROVE  /\ inst'[i].st = "trapped" => faults' > 0
             /\ inst'[i].st = "unheard" => \E r \in gone' : req'[r].i = i
             /\ inst'[i].st = "busy" =>
                  \E j \in Ids \ {i} : inst'[j].app = inst'[i].app /\ inst'[j].st # "none"
  BY <1>4 DEF Accounted, NewDeaths
<1>5. ASSUME NEW i \in Ids, inst[i].st \in Dead
      PROVE  /\ inst'[i].st = "trapped" => faults' > 0
             /\ inst'[i].st = "unheard" => \E r \in gone' : req'[r].i = i
             /\ inst'[i].st = "busy" =>
                  \E j \in Ids \ {i} : inst'[j].app = inst'[i].app /\ inst'[j].st # "none"
  <2>1. inst'[i].st = inst[i].st /\ inst'[i].app = inst[i].app
    BY <1>5 DEF Accounted, Keeps, Over, Dead
  <2>2. inst[i].st = "trapped" => faults' > 0
    BY <1>0 DEF CostInv, DeathsAreExplained
  <2>3. ASSUME inst[i].st = "unheard" PROVE \E r \in gone' : req'[r].i = i
    <3>1. PICK r \in gone : req[r].i = i
      BY <2>3 DEF CostInv, DeathsAreExplained
    <3>2. req[r].at # "idle" /\ r \in Requests /\ r \in gone'
      BY <1>0, <3>1 DEF CostInv
    <3>3. req'[r].i = i
      BY <3>1, <3>2 DEF Accounted, Keeps
    <3> QED
      BY <3>2, <3>3
  <2>4. ASSUME inst[i].st = "busy"
        PROVE  \E j \in Ids \ {i} : inst'[j].app = inst'[i].app /\ inst'[j].st # "none"
    <3>1. PICK j \in Ids \ {i} : inst[j].app = inst[i].app /\ inst[j].st # "none"
      BY <2>4 DEF CostInv, DeathsAreExplained
    <3>2. inst'[j].app = inst[j].app /\ inst'[j].st # "none"
      BY <3>1 DEF Accounted, Keeps
    <3> QED
      BY <2>1, <3>1, <3>2
  <2> QED
    BY <2>1, <2>2, <2>3, <2>4
<1>6. DeathsAreExplained'
  BY <1>4, <1>5 DEF DeathsAreExplained
<1> QED
  BY <1>1, <1>2, <1>3, <1>6 DEF CostInv

\* A reload (sync_apps) fails no request before its response: it cuts bodies
\* that the guest still writes, and a worker panics only for a trap, for one of
\* its own requesters, or for a lock of another instance of its application.
THEOREM ReloadCost == Spec => []WhatAReloadCosts
<1>1. Init => CostInv
  BY DEF Init, CostInv, DeathsAreExplained
<1>2. IndInv /\ CostInv /\ [Next]_vars => CostInv'
  BY StepCost
<1>3. IndInv /\ CostInv => WhatAReloadCosts
  <2> SUFFICES ASSUME IndInv, CostInv PROVE LossesAreExplained
    BY DEF CostInv, WhatAReloadCosts
  <2>1. ASSUME NEW i \in Ids, inst[i].st = "ended" PROVE \A a \in Apps : instances[a] # i
    <3>1. i # 0
      BY DEF Ids
    <3> QED
      BY <2>1, <3>1 DEF IndInv, InstancesRun, Dead
  <2>2. \A r \in Requests : req[r].i \in {0} \cup Ids
    BY DEF IndInv, TypeOK, Holder
  <2> QED
    BY <2>1, <2>2 DEF CostInv, LossesAreExplained, Over
<1> QED
  BY <1>1, <1>2, <1>3, Invariance, PTL DEF Spec

(***************************************************************************)
(* sync_apps is never satisfied with old code.                             *)
(***************************************************************************)

\* Time stamps and versions only grow.  An application that is not just being
\* loaded has an instance that is at least as new as the time stamp that
\* sync_apps remembers, and no instance is newer than the file.
VersionInv ==
  \A a \in Apps :
    /\ file[a].mtime <= edits
    /\ previous[a] <= edits
    /\ file[a].mtime # 0 => previous[a] <= file[a].mtime
    /\ sync.at \in {"apply", "load", "init"} =>
         /\ sync.current[a] <= edits
         /\ file[a].mtime # 0 => sync.current[a] <= file[a].mtime
    /\ \A i \in Ids : inst[i].app = a =>
         /\ inst[i].ver <= edits
         /\ file[a].mtime # 0 => inst[i].ver <= file[a].mtime
    /\ sync.at = "init" /\ sync.app = a => inst[made].ver >= previous[a]
    /\ /\ previous[a] # 0
       /\ sync.at \in {"load", "init"} => sync.app # a
       /\ sync.at # "dead"
       => instances[a] # 0 /\ inst[instances[a]].ver >= previous[a]


LEMMA VersionTypes ==
  ASSUME IndInv
  PROVE  /\ edits \in Nat
         /\ sync \in SyncState
         /\ \A a \in Apps : /\ file[a].mtime \in Nat /\ previous[a] \in Nat
                            /\ sync.current[a] \in Nat
                            /\ instances[a] \in {0} \cup Ids
         /\ \A i \in Ids : inst[i].ver \in Nat /\ inst[i].app \in Apps \cup {0}
         /\ sync.at = "init" => made \in Ids /\ inst[made].app = sync.app /\ sync.app \in Apps
<1>1. sync \in SyncState /\ inst \in [Ids -> Instance] /\ edits \in Nat
  BY DEF IndInv, TypeOK
<1>2. \A a \in Apps : sync.current[a] \in Nat
  BY <1>1 DEF SyncState
<1>3. \A a \in Apps : file[a].mtime \in Nat /\ previous[a] \in Nat /\ instances[a] \in {0} \cup Ids
  BY DEF IndInv, TypeOK
<1>4. \A i \in Ids : inst[i].ver \in Nat /\ inst[i].app \in Apps \cup {0}
  BY <1>1 DEF Instance
<1>5. sync.at = "init" => made \in Ids /\ inst[made].app = sync.app /\ sync.app \in Apps
  BY HostAssumption DEF IndInv, TypeOK, SyncInOrder, Ids
<1> QED
  BY <1>1, <1>2, <1>3, <1>4, <1>5

\* Workers, requests and transactions change nothing of this.
LEMMA VersionFrame ==
  ASSUME VersionInv, UNCHANGED <<file, sync, previous, instances, made, edits>>,
         \A i \in Ids : inst'[i].app = inst[i].app /\ inst'[i].ver = inst[i].ver,
         \A a \in Apps : instances[a] \in {0} \cup Ids,
         sync.at = "init" => made \in Ids
  PROVE  VersionInv'
BY DEF VersionInv

LEMMA EditVersion == ASSUME IndInv, VersionInv, NEW b \in Apps, Edit(b) PROVE VersionInv'
<1>1. PICK w \in BOOLEAN, t \in {0, edits + 1} :
        file' = [file EXCEPT ![b] = [mtime |-> t, whole |-> w \/ t = 0]]
  BY DEF Edit
<1>2. edits' = edits + 1 /\ UNCHANGED <<sync, previous, instances, made, inst>>
  BY DEF Edit, syncVars
<1>3. \A a \in Apps : file'[a].mtime = IF a = b THEN t ELSE file[a].mtime
  BY <1>1 DEF IndInv, TypeOK
<1> QED
  BY <1>2, <1>3, VersionTypes DEF VersionInv

LEMMA ListVersion == ASSUME IndInv, VersionInv, List PROVE VersionInv'
<1>1. /\ UNCHANGED <<file, previous, instances, inst, made, edits>> /\ sync.at = "scan"
      /\ sync' = [sync EXCEPT !.at = "stat",
                    !.current = [a \in Apps |-> IF file[a].mtime = 0 THEN 0 ELSE 1]]
  BY DEF List
<1>2. sync'.at = "stat"
  BY <1>1, VersionTypes DEF SyncState
<1> QED
  BY <1>1, <1>2 DEF VersionInv

LEMMA ScanVersion == ASSUME IndInv, VersionInv, Scan PROVE VersionInv'
<1> DEFINE current == [a \in Apps |-> IF a \in {b \in Apps : sync.current[b] # 0}
                                      THEN file[a].mtime ELSE 0]
<1>1. \/ /\ sync' = [sync EXCEPT !.at = "apply", !.current = current]
         /\ previous' = [a \in Apps |-> IF current[a] = 0 THEN 0 ELSE previous[a]]
         /\ instances' = [a \in Apps |-> IF current[a] = 0 THEN 0 ELSE instances[a]]
      \/ /\ sync' = [sync EXCEPT !.at = "dead", !.app = 0]
         /\ UNCHANGED <<previous, instances>>
  BY DEF Scan, Panic
<1>2. UNCHANGED <<file, inst, made, edits>> /\ sync.at = "stat"
  BY DEF Scan
<1>3. \A a \in Apps : current[a] = 0 \/ current[a] = file[a].mtime
  OBVIOUS
<1> HIDE DEF current
<1>4. CASE /\ sync' = [sync EXCEPT !.at = "apply", !.current = current]
           /\ previous' = [a \in Apps |-> IF current[a] = 0 THEN 0 ELSE previous[a]]
           /\ instances' = [a \in Apps |-> IF current[a] = 0 THEN 0 ELSE instances[a]]
  <2>1. sync'.at = "apply" /\ sync'.current = current
    BY <1>4, VersionTypes DEF SyncState
  <2> QED
    BY <1>2, <1>3, <1>4, <2>1, VersionTypes DEF VersionInv
<1>5. CASE sync' = [sync EXCEPT !.at = "dead", !.app = 0] /\ UNCHANGED <<previous, instances>>
  <2>1. sync'.at = "dead"
    BY <1>5, VersionTypes DEF SyncState
  <2> QED
    BY <1>2, <1>5, <2>1, VersionTypes DEF VersionInv
<1> QED
  BY <1>1, <1>4, <1>5

LEMMA StampVersion == ASSUME IndInv, VersionInv, NEW b \in Apps, Stamp(b) PROVE VersionInv'
<1>1. /\ UNCHANGED <<file, instances, inst, made, edits>> /\ sync.at = "apply"
      /\ sync' = [sync EXCEPT !.at = "load", !.app = b]
      /\ previous' = [previous EXCEPT ![b] = sync.current[b]]
  BY DEF Stamp
<1>2. sync'.at = "load" /\ sync'.app = b /\ sync'.current = sync.current
  BY <1>1, VersionTypes DEF SyncState
<1>3. \A a \in Apps : previous'[a] = IF a = b THEN sync.current[b] ELSE previous[a]
  BY <1>1 DEF IndInv, TypeOK
<1> QED
  BY <1>1, <1>2, <1>3, VersionTypes DEF VersionInv

LEMMA SleepVersion == ASSUME IndInv, VersionInv, Sleep PROVE VersionInv'
<1>1. /\ UNCHANGED <<file, previous, instances, inst, made, edits>> /\ sync.at = "apply"
      /\ sync' = [sync EXCEPT !.at = "scan"]
  BY DEF Sleep
<1>2. sync'.at = "scan"
  BY <1>1, VersionTypes DEF SyncState
<1> QED
  BY <1>1, <1>2 DEF VersionInv

\* The file is at least as new as the time stamp that was remembered for it.
LEMMA LoadVersion == ASSUME IndInv, VersionInv, Load PROVE VersionInv'
<1>0. UNCHANGED <<file, previous, instances, edits>> /\ sync.at = "load" /\ sync.app \in Apps
  BY DEF Load, IndInv, SyncInOrder
<1> DEFINE b == sync.app
           new == [app |-> b, ver |-> file[b].mtime, st |-> "init"]
<1>1. CASE /\ made < MaxInst
           /\ file[b].mtime # 0
           /\ made' = made + 1
           /\ inst' = [inst EXCEPT ![made + 1] = new]
           /\ sync' = [sync EXCEPT !.at = "init"]
  <2>1. made + 1 \in Ids /\ inst[made + 1].st = "none"
    BY <1>1, HostAssumption DEF IndInv, TypeOK, SyncInOrder, Ids
  <2>2. \A a \in Apps : instances[a] # 0 =>
          instances[a] \in Ids /\ inst[instances[a]].st # "none"
    BY DEF IndInv, InstancesRun, TypeOK, Dead
  <2>3. \A a \in Apps : instances[a] # made + 1
    <3>1. made + 1 # 0
      BY <2>1 DEF Ids
    <3> QED
      BY <2>1, <2>2, <3>1
  <2>4. sync'.at = "init" /\ sync'.app = b /\ sync'.current = sync.current
    BY <1>1, VersionTypes DEF SyncState
  <2>5. /\ inst'[made + 1].ver = file[b].mtime /\ inst'[made + 1].app = b
        /\ \A i \in Ids \ {made + 1} : inst'[i] = inst[i]
    BY <1>1, <2>1 DEF IndInv, TypeOK
  <2> HIDE DEF b, new
  <2>6. ASSUME NEW i \in Ids, NEW a \in Apps, inst'[i].app = a
        PROVE  inst'[i].ver <= edits /\ (file[a].mtime # 0 => inst'[i].ver <= file[a].mtime)
    BY <2>5, <2>6, VersionTypes DEF VersionInv
  <2>7. b \in Apps /\ made' = made + 1 /\ file[b].mtime # 0
    BY <1>0, <1>1 DEF b
  <2>8. ASSUME NEW a \in Apps, a # b, previous[a] # 0
        PROVE  instances[a] # 0 /\ inst'[instances[a]].ver >= previous[a]
    <3>1. instances[a] # 0 /\ inst[instances[a]].ver >= previous[a]
      BY <1>0, <2>8 DEF VersionInv, b
    <3> QED
      BY <2>2, <2>3, <2>5, <3>1
  <2>9. inst'[made'].ver >= previous[b]
    BY <2>5, <2>7, VersionTypes DEF VersionInv
  <2> QED
    BY <1>0, <2>4, <2>6, <2>7, <2>8, <2>9 DEF VersionInv
<1>2. CASE Panic /\ UNCHANGED <<made, inst>>
  <2>1. sync'.at = "dead"
    BY <1>2, VersionTypes DEF SyncState, Panic
  <2> QED
    BY <1>0, <1>2, <2>1, VersionTypes DEF VersionInv
<1> QED
  BY <1>1, <1>2 DEF Load

LEMMA InstallVersion == ASSUME IndInv, VersionInv, Install PROVE VersionInv'
<1>1. /\ sync.at = "init" /\ sync' = [sync EXCEPT !.at = "apply", !.app = 0]
      /\ instances' = [instances EXCEPT ![sync.app] = made]
      /\ inst' = [inst EXCEPT ![made].st = "run"]
      /\ UNCHANGED <<file, previous, made, edits>>
  BY DEF Install
<1>2. sync'.at = "apply" /\ sync'.current = sync.current
  BY <1>1, VersionTypes DEF SyncState
<1>3. made \in Ids /\ sync.app \in Apps /\ made # 0
  BY <1>1, VersionTypes DEF Ids
<1>4. \A i \in Ids : inst'[i].app = inst[i].app /\ inst'[i].ver = inst[i].ver
  BY <1>1, <1>3, InstType DEF IndInv, TypeOK
<1>5. \A a \in Apps : instances'[a] = IF a = sync.app THEN made ELSE instances[a]
  BY <1>1 DEF IndInv, TypeOK
<1> QED
  BY <1>1, <1>2, <1>3, <1>4, <1>5, VersionTypes DEF VersionInv

LEMMA InitFailsVersion == ASSUME IndInv, VersionInv, InitFails PROVE VersionInv'
<1>1. /\ sync.at = "init" /\ sync' = [sync EXCEPT !.at = "dead", !.app = 0]
      /\ inst' = [inst EXCEPT ![made].st = "ended"]
      /\ UNCHANGED <<file, previous, instances, made, edits>>
  BY DEF InitFails, Panic
<1>2. sync'.at = "dead"
  BY <1>1, VersionTypes DEF SyncState
<1>3. \A i \in Ids : inst'[i].app = inst[i].app /\ inst'[i].ver = inst[i].ver
  BY <1>1, VersionTypes, InstType DEF IndInv, TypeOK
<1> QED
  BY <1>1, <1>2, <1>3, VersionTypes DEF VersionInv

LEMMA StepVersion == IndInv /\ VersionInv /\ [Next]_vars => VersionInv'
<1> SUFFICES ASSUME IndInv, VersionInv, [Next]_vars PROVE VersionInv'
  OBVIOUS
<1> DEFINE Frame == /\ UNCHANGED <<file, sync, previous, instances, made, edits>>
                    /\ \A i \in Ids : inst'[i].app = inst[i].app /\ inst'[i].ver = inst[i].ver
<1>1. Frame => VersionInv'
  BY VersionTypes, VersionFrame
<1>2. CASE \E b \in Apps : Edit(b)
  BY <1>2, EditVersion
<1>3. CASE SyncStep
  BY <1>3, ListVersion, ScanVersion, StampVersion, SleepVersion, LoadVersion, InstallVersion,
     InitFailsVersion DEF SyncStep
<1>0. ASSUME NEW i \in Ids, NEW how \in {"ended"} \cup Dead, StoreDropped(i, how)
      PROVE  Frame
  <2>1. inst' = [inst EXCEPT ![i].st = how] /\ UNCHANGED <<file, sync, previous, instances, made, edits>>
    BY <1>0 DEF StoreDropped, syncVars
  <2> QED
    BY <2>1, InstType DEF IndInv, TypeOK
<1>4. (\E r \in Requests : Unheard(r) \/ Trap(r) \/ BusyTimeout(r)) => Frame
  <2> HIDE DEF Frame
  <2> QED
    BY <1>0, DeathOfWorker
<1>5. (\E j \in Ids : WorkerEnds(j)) => Frame
  <2> HIDE DEF Frame
  <2> QED
    BY <1>0 DEF WorkerEnds
<1>6. (\E r \in Requests : (\E a \in Apps : Arrive(r, a)) \/ Receive(r) \/ HangUp(r)
                        \/ Finish(r) \/ BodyDone(r)) => Frame
  BY DEF Arrive, Receive, HangUp, Finish, BodyDone, syncVars
<1>7. (\E r \in Requests : GuestStep(r)) => Frame
  BY DEF GuestStep, Begin, TxQuery, TxExecute, Commit, Rollback, Execute, Calls, syncVars
<1>8. UNCHANGED vars => Frame
  BY DEF vars, syncVars
<1> HIDE DEF Frame
<1> QED
  BY <1>1, <1>2, <1>3, <1>4, <1>5, <1>6, <1>7, <1>8 DEF Next

\* sync_apps is never satisfied with an instance of older code, however the
\* edits of the directory fall between its scan, its stamp and its load.
THEOREM NeverStale == Spec => []NeverStuckStale
<1>1. Init => VersionInv
  BY DEF Init, VersionInv
<1>2. IndInv /\ VersionInv /\ [Next]_vars => VersionInv'
  BY StepVersion
<1>3. IndInv /\ VersionInv => NeverStuckStale
  <2> SUFFICES ASSUME IndInv, VersionInv, NEW a \in Apps, sync.at = "scan",
                      previous[a] = file[a].mtime, previous[a] # 0
               PROVE  instances[a] # 0 /\ inst[instances[a]].ver = file[a].mtime
    BY DEF NeverStuckStale
  <2>1. instances[a] # 0 /\ inst[instances[a]].ver >= previous[a]
    BY DEF VersionInv
  <2>2. instances[a] \in Ids /\ inst[instances[a]].app = a
    BY <2>1 DEF IndInv, TypeOK, InstancesRun, Live, Runs, InStore
  <2>3. inst[instances[a]].ver <= file[a].mtime
    BY <2>2 DEF VersionInv
  <2> QED
    BY <2>1, <2>2, <2>3, VersionTypes
<1> QED
  BY <1>1, <1>2, <1>3, Invariance, PTL DEF Spec

==============================================================================
