------------------------------- MODULE AppHost -------------------------------
(***************************************************************************)
(* The runtime that serves WebAssembly applications (src/wasi3experiment): *)
(* sync_apps follows the directory of applications and replaces instances, *)
(* each instance has a worker that runs its requests side by side          *)
(* (wasmtimewrapper.rs), and all requests of an instance share one SQLite  *)
(* connection, guarded by in_tx (sqlite.rs).  The old and the new instance *)
(* of an application overlap and share its database file.                  *)
(*                                                                         *)
(* The handler of a request holds its instance until the guest returns the *)
(* head of the response.  The body is then written by a task of the guest, *)
(* inside the store, and nobody keeps the store alive for it.              *)
(*                                                                         *)
(* A trap, a statement that times out, or an answer that nobody waits for  *)
(* ends the worker, and with it the requests it has.  wasmtime, SQLite and *)
(* the guest are external: a guest calls the interface in any order, does  *)
(* one transaction per request and drops it before its body ends.          *)
(***************************************************************************)
EXTENDS Integers, FiniteSets

CONSTANTS
  Apps,       \* names of applications
  Requests,   \* HTTP requests
  MaxInst,    \* bound: instances ever made
  MaxEdits,   \* bound: changes to the directory
  MaxFaults   \* bound: guest traps and requesters that hang up

ASSUME HostAssumption ==
  /\ 0 \notin Apps
  /\ {MaxInst, MaxEdits, MaxFaults} \subseteq Nat
  /\ MaxEdits <= MaxInst    \* every change can be loaded

Ids == 1..MaxInst

VARIABLES
  file,       \* <app>.wasm: time stamp (0: absent) and whether it is complete
  sync,       \* where the task sync_apps is: at, current, and the app it loads
  previous,   \* sync_apps: the time stamps it has acted on (0: none)
  instances,  \* ServerState.instances: the instance of each application (0: none)
  inst,       \* every instance ever made: application, version of its code, state
  made,       \* how many were made
  req,        \* every request: where it is and the instance it holds
  gone,       \* requests whose HTTP client hung up
  tx,         \* the transaction resource of each request
  inTx,       \* SqliteCtx.in_tx of each instance
  holds,      \* the lock that an open transaction of each connection has
  dirty,      \* uncommitted writes on each connection
  durable,    \* committed writes
  undone,     \* requests whose transaction was rolled back
  plain,      \* requests whose plain execute was answered with success
  edits, faults

syncVars == <<sync, previous, instances, made>>
sqlVars == <<tx, inTx, holds, dirty, durable, undone, plain>>
vars == <<file, syncVars, inst, req, gone, sqlVars, edits, faults>>

Alive == {"init", "run"}
Dead == {"trapped", "unheard", "busy"}   \* the worker panicked, and why
Writes == Requests \X {"tx", "plain"}   \* whose write, and in which way

\* A request without a response yet; one for which the guest has something to
\* do; and one that needs the store of its instance.
Live(r) == req[r].at \in {"queued", "running"}
Runs(r) == req[r].at \in {"running", "streaming"}
InStore(r) == Live(r) \/ Runs(r)

Instance == [app : Apps \cup {0}, ver : Nat, st : {"none", "ended"} \cup Alive \cup Dead]
SyncState == [at : {"scan", "stat", "apply", "load", "init", "dead"},
              current : [Apps -> Nat], app : Apps \cup {0}]
Place == {"idle", "queued", "running", "streaming", "answered", "failed", "cut"}
Holder == [at : Place, i : {0} \cup Ids]

TypeOK ==
  /\ file \in [Apps -> [mtime : Nat, whole : BOOLEAN]]
  /\ sync \in SyncState
  /\ previous \in [Apps -> Nat]
  /\ instances \in [Apps -> {0} \cup Ids]
  /\ inst \in [Ids -> Instance]
  /\ made \in 0..MaxInst
  /\ req \in [Requests -> Holder]
  /\ gone \subseteq Requests
  /\ tx \in [Requests -> {"none", "running", "over"}]
  /\ inTx \in [Ids -> BOOLEAN]
  /\ holds \in [Ids -> {"nothing", "read", "write"}]
  /\ dirty \in [Ids -> SUBSET Writes]
  /\ durable \subseteq Writes
  /\ undone \subseteq Requests
  /\ plain \subseteq Requests
  /\ {edits, faults} \subseteq Nat

Init ==
  /\ file = [a \in Apps |-> [mtime |-> 0, whole |-> TRUE]]
  /\ sync = [at |-> "scan", current |-> [a \in Apps |-> 0], app |-> 0]
  /\ previous = [a \in Apps |-> 0]
  /\ instances = [a \in Apps |-> 0]
  /\ inst = [i \in Ids |-> [app |-> 0, ver |-> 0, st |-> "none"]]
  /\ made = 0
  /\ req = [r \in Requests |-> [at |-> "idle", i |-> 0]]
  /\ gone = {}
  /\ tx = [r \in Requests |-> "none"]
  /\ inTx = [i \in Ids |-> FALSE]
  /\ holds = [i \in Ids |-> "nothing"]
  /\ dirty = [i \in Ids |-> {}]
  /\ durable = {}
  /\ undone = {}
  /\ plain = {}
  /\ edits = 0
  /\ faults = 0

------------------------------------------------------------------------------
(* The directory of applications *)

\* Someone starts to copy a file, ends the copy, moves a file into place or
\* deletes one; every change has a new time stamp.
Edit(a) ==
  /\ edits < MaxEdits
  /\ edits' = edits + 1
  /\ \E w \in BOOLEAN, t \in {0, edits + 1} :
       file' = [file EXCEPT ![a] = [mtime |-> t, whole |-> w \/ t = 0]]
  /\ UNCHANGED <<syncVars, inst, req, gone, sqlVars, faults>>

------------------------------------------------------------------------------
(* sync_apps *)

\* An error, or an unwrap of one, ends the task for good.
Panic == sync' = [sync EXCEPT !.at = "dead", !.app = 0]

\* reload_apps lists the directory, and then asks for the time stamp of what
\* it has found; a file that is gone by then is an error.
List ==
  /\ sync.at = "scan"
  /\ sync' = [sync EXCEPT !.at = "stat", !.current = [a \in Apps |-> IF file[a].mtime = 0 THEN 0 ELSE 1]]
  /\ UNCHANGED <<file, previous, instances, inst, made, req, gone, sqlVars, edits, faults>>

\* Mutant: only the time stamps of applications without a file are forgotten.
ScanForgets ==
  /\ sync.at = "stat"
  /\ LET current == [a \in Apps |-> IF sync.current[a] # 0 THEN file[a].mtime ELSE 0] IN
       /\ sync' = [sync EXCEPT !.at = "apply", !.current = current]
       /\ previous' = [a \in Apps |-> IF current[a] = 0 THEN 0 ELSE previous[a]]
  /\ UNCHANGED <<file, instances, inst, made, req, gone, sqlVars, edits, faults>>

\* Applications without a file are removed.
Scan ==
  /\ sync.at = "stat"
  /\ LET listed == {a \in Apps : sync.current[a] # 0}
         current == [a \in Apps |-> IF a \in listed THEN file[a].mtime ELSE 0]
     IN \/ /\ \A a \in listed : current[a] # 0
           /\ sync' = [sync EXCEPT !.at = "apply", !.current = current]
           /\ previous' = [a \in Apps |-> IF current[a] = 0 THEN 0 ELSE previous[a]]
           /\ instances' = [a \in Apps |-> IF current[a] = 0 THEN 0 ELSE instances[a]]
        \/ /\ \E a \in listed : current[a] = 0
           /\ Panic
           /\ UNCHANGED <<previous, instances>>
  /\ UNCHANGED <<file, inst, made, req, gone, sqlVars, edits, faults>>

\* A new or changed file: its time stamp is remembered before it is loaded.
Stamp(a) ==
  /\ sync.at = "apply"
  /\ sync.current[a] # previous[a]
  /\ previous' = [previous EXCEPT ![a] = sync.current[a]]
  /\ sync' = [sync EXCEPT !.at = "load", !.app = a]
  /\ UNCHANGED <<file, instances, inst, made, req, gone, sqlVars, edits, faults>>

Sleep ==
  /\ sync.at = "apply"
  /\ sync.current = previous
  /\ sync' = [sync EXCEPT !.at = "scan"]
  /\ UNCHANGED <<file, previous, instances, inst, made, req, gone, sqlVars, edits, faults>>

\* make_wasm_instance: the file as it is now; a file that is not complete or
\* no longer there is an error.
Load ==
  /\ sync.at = "load"
  /\ LET f == file[sync.app] IN
       \/ /\ f.mtime # 0 /\ f.whole
          /\ made < MaxInst
          /\ made' = made + 1
          /\ inst' = [inst EXCEPT ![made + 1] = [app |-> sync.app, ver |-> f.mtime, st |-> "init"]]
          /\ sync' = [sync EXCEPT !.at = "init"]
       \/ /\ f.mtime = 0 \/ ~f.whole
          /\ Panic
          /\ UNCHANGED <<made, inst>>
  /\ UNCHANGED <<file, previous, instances, req, gone, sqlVars, edits, faults>>

\* Another connection to the same database has a lock.
Others(i) == {j \in Ids \ {i} : inst[j].app = inst[i].app /\ inst[j].st \in Alive}
WriteBlocked(i) == \E j \in Others(i) : holds[j] = "write"
CommitBlocked(i) == \E j \in Others(i) : holds[j] # "nothing"

\* Mutant: the time stamp is taken when the instance is in place.
InstallStamps ==
  /\ sync.at = "init"
  /\ ~CommitBlocked(made)
  /\ instances' = [instances EXCEPT ![sync.app] = made]
  /\ inst' = [inst EXCEPT ![made].st = "run"]
  /\ previous' = [previous EXCEPT ![sync.app] = file[sync.app].mtime]
  /\ sync' = [at |-> "apply", app |-> 0, current |-> previous']
  /\ UNCHANGED <<file, made, req, gone, sqlVars, edits, faults>>

\* Mutant: the old instance is stopped, with what is still in its channel.
InstallStopsOld ==
  /\ sync.at = "init"
  /\ ~CommitBlocked(made)
  /\ instances' = [instances EXCEPT ![sync.app] = made]
  /\ inst' = [inst EXCEPT ![made].st = "run"]
  /\ req' = [r \in Requests |-> IF req[r].at = "queued" /\ req[r].i = instances[sync.app]
                                THEN [req[r] EXCEPT !.at = "failed"] ELSE req[r]]
  /\ sync' = [sync EXCEPT !.at = "apply", !.app = 0]
  /\ UNCHANGED <<file, previous, made, gone, sqlVars, edits, faults>>

\* initialize has written its tables; the new instance takes the place of the
\* old one, which nobody stops.
Install ==
  /\ sync.at = "init"
  /\ ~CommitBlocked(made)
  /\ instances' = [instances EXCEPT ![sync.app] = made]
  /\ inst' = [inst EXCEPT ![made].st = "run"]
  /\ sync' = [sync EXCEPT !.at = "apply", !.app = 0]
  /\ UNCHANGED <<file, previous, made, req, gone, sqlVars, edits, faults>>

\* initialize fails: a guest that gives up, or a request of the old instance
\* that keeps its lock for longer than the busy timeout.
InitFails ==
  /\ sync.at = "init"
  /\ \/ CommitBlocked(made) /\ UNCHANGED faults
     \/ faults < MaxFaults /\ faults' = faults + 1
  /\ inst' = [inst EXCEPT ![made].st = "ended"]
  /\ Panic
  /\ UNCHANGED <<file, previous, instances, made, req, gone, sqlVars, edits>>

SyncStep == List \/ Scan \/ (\E a \in Apps : Stamp(a)) \/ Sleep \/ Load \/ Install \/ InitFails

------------------------------------------------------------------------------
(* Requests and workers *)

\* run_handler: the instance of this moment; without one the handler panics.
\* submit: a worker that is gone makes the handler panic as well.
Arrive(r, a) ==
  /\ req[r].at = "idle"
  /\ LET i == instances[a] IN
       req' = [req EXCEPT ![r] =
         [at |-> IF i # 0 /\ inst[i].st = "run" THEN "queued" ELSE "failed", i |-> i]]
  /\ UNCHANGED <<file, syncVars, inst, gone, sqlVars, edits, faults>>

\* WorkWorker::run takes the work item and starts the guest on it.
Receive(r) ==
  /\ req[r].at = "queued"
  /\ req' = [req EXCEPT ![r].at = "running"]
  /\ UNCHANGED <<file, syncVars, inst, gone, sqlVars, edits, faults>>

\* The worker is gone, and the store and its connection with it: requests
\* without a response fail, bodies are cut, the open transaction is undone.
StoreDropped(i, how) ==
  /\ inst' = [inst EXCEPT ![i].st = how]
  /\ req' = [r \in Requests |->
               IF InStore(r) /\ req[r].i = i
               THEN [req[r] EXCEPT !.at = IF Live(r) THEN "failed" ELSE "cut"]
               ELSE req[r]]
  /\ tx' = [r \in Requests |-> IF tx[r] = "running" /\ req[r].i = i THEN "over" ELSE tx[r]]
  /\ undone' = undone \cup {r \in Requests : tx[r] = "running" /\ req[r].i = i}
  /\ inTx' = [inTx EXCEPT ![i] = FALSE]
  /\ holds' = [holds EXCEPT ![i] = "nothing"]
  /\ dirty' = [dirty EXCEPT ![i] = {}]
  /\ UNCHANGED <<file, syncVars, gone, durable, plain, edits>>

\* The guest returns the head of the response; run_handler passes it on and
\* drops its instance.
Finish(r) ==
  /\ req[r].at = "running"
  /\ r \notin gone
  /\ req' = [req EXCEPT ![r].at = "streaming"]
  /\ UNCHANGED <<file, syncVars, inst, gone, sqlVars, edits, faults>>

\* The send of a head that nobody waits for is unwrapped.
Unheard(r) ==
  /\ req[r].at = "running"
  /\ r \in gone
  /\ StoreDropped(req[r].i, "unheard")
  /\ UNCHANGED faults

\* The guest's task has written the body, or its reader is gone, which the
\* task ignores.
BodyDone(r) ==
  /\ req[r].at = "streaming"
  /\ tx[r] # "running"
  /\ req' = [req EXCEPT ![r].at = "answered"]
  /\ UNCHANGED <<file, syncVars, inst, gone, sqlVars, edits, faults>>

\* The guest traps, before or after it has returned the head.
Trap(r) ==
  /\ Runs(r)
  /\ faults < MaxFaults
  /\ faults' = faults + 1
  /\ StoreDropped(req[r].i, "trapped")

HangUp(r) ==
  /\ Live(r)
  /\ r \notin gone
  /\ faults < MaxFaults
  /\ faults' = faults + 1
  /\ gone' = gone \cup {r}
  /\ UNCHANGED <<file, syncVars, inst, req, sqlVars, edits>>

\* The last sender of an instance is dropped, with the map's entry or with the
\* handler of the last request: the worker leaves its loop, waits for the work
\* items, but not for the bodies, and drops the store.
WorkerEnds(i) ==
  /\ inst[i].st = "run"
  /\ \A a \in Apps : instances[a] # i
  /\ \A r \in Requests : Live(r) => req[r].i # i
  /\ StoreDropped(i, "ended")
  /\ UNCHANGED faults

------------------------------------------------------------------------------
(* SQLite, for the guest of request r in instance i *)

Calls(r) == Runs(r) /\ UNCHANGED <<file, syncVars, inst, req, gone, edits, faults>>

\* Mutant: begin does not look at in_tx.
BeginAnyTime(r) ==
  /\ Calls(r)
  /\ tx[r] = "none"
  /\ inTx' = [inTx EXCEPT ![req[r].i] = TRUE]
  /\ tx' = [tx EXCEPT ![r] = "running"]
  /\ UNCHANGED <<holds, dirty, durable, undone, plain>>

\* begin; while in_tx is set it answers Bad, which changes nothing.
Begin(r) ==
  /\ Calls(r)
  /\ tx[r] = "none"
  /\ ~inTx[req[r].i]
  /\ inTx' = [inTx EXCEPT ![req[r].i] = TRUE]
  /\ tx' = [tx EXCEPT ![r] = "running"]
  /\ UNCHANGED <<holds, dirty, durable, undone, plain>>

TxQuery(r) ==
  /\ Calls(r)
  /\ tx[r] = "running"
  /\ holds' = [holds EXCEPT ![req[r].i] = IF @ = "nothing" THEN "read" ELSE @]
  /\ UNCHANGED <<tx, inTx, dirty, durable, undone, plain>>

TxExecute(r) ==
  /\ Calls(r)
  /\ tx[r] = "running"
  /\ ~WriteBlocked(req[r].i)
  /\ holds' = [holds EXCEPT ![req[r].i] = "write"]
  /\ dirty' = [dirty EXCEPT ![req[r].i] = @ \cup {<<r, "tx">>}]
  /\ UNCHANGED <<tx, inTx, durable, undone, plain>>

\* What commit, rollback and drop do to the connection and its resource.
EndTx(r) ==
  /\ tx' = [tx EXCEPT ![r] = "over"]
  /\ inTx' = [inTx EXCEPT ![req[r].i] = FALSE]
  /\ holds' = [holds EXCEPT ![req[r].i] = "nothing"]
  /\ dirty' = [dirty EXCEPT ![req[r].i] = {}]

Commit(r) ==
  /\ Calls(r)
  /\ tx[r] = "running"
  /\ holds[req[r].i] = "write" => ~CommitBlocked(req[r].i)
  /\ EndTx(r)
  /\ durable' = durable \cup dirty[req[r].i]
  /\ UNCHANGED <<undone, plain>>

\* rollback, or drop of a transaction that is still running.
Rollback(r) ==
  /\ Calls(r)
  /\ tx[r] = "running"
  /\ EndTx(r)
  /\ undone' = undone \cup {r}
  /\ UNCHANGED <<durable, plain>>

\* Mutant: execute does not look at in_tx and runs inside the transaction of
\* another request.
ExecuteAnyTime(r) ==
  /\ Calls(r)
  /\ ~CommitBlocked(req[r].i)
  /\ plain' = plain \cup {r}
  /\ IF inTx[req[r].i]
     THEN dirty' = [dirty EXCEPT ![req[r].i] = @ \cup {<<r, "plain">>}] /\ UNCHANGED durable
     ELSE durable' = durable \cup {<<r, "plain">>} /\ UNCHANGED dirty
  /\ UNCHANGED <<tx, inTx, holds, undone>>

\* execute outside of a transaction; while in_tx is set it answers Bad.
Execute(r) ==
  /\ Calls(r)
  /\ ~inTx[req[r].i]
  /\ ~CommitBlocked(req[r].i)
  /\ plain' = plain \cup {r}
  /\ durable' = durable \cup {<<r, "plain">>}
  /\ UNCHANGED <<tx, inTx, holds, dirty, undone>>

\* A statement waits for the lock of another instance until the busy timeout;
\* its error is not handed to the guest but traps it.
BusyTimeout(r) ==
  /\ Runs(r)
  /\ LET i == req[r].i IN
       \/ tx[r] = "running" /\ WriteBlocked(i)
       \/ tx[r] = "running" /\ holds[i] = "write" /\ CommitBlocked(i)
       \/ ~inTx[i] /\ CommitBlocked(i)
  /\ StoreDropped(req[r].i, "busy")
  /\ UNCHANGED faults

GuestStep(r) ==
  \/ Begin(r) \/ TxQuery(r) \/ TxExecute(r) \/ Commit(r) \/ Rollback(r) \/ Execute(r)

Next ==
  \/ \E a \in Apps : Edit(a)
  \/ SyncStep
  \/ \E r \in Requests :
       \/ \E a \in Apps : Arrive(r, a)
       \/ Receive(r) \/ Finish(r) \/ Unheard(r) \/ BodyDone(r) \/ Trap(r) \/ HangUp(r)
       \/ GuestStep(r) \/ BusyTimeout(r)
  \/ \E i \in Ids : WorkerEnds(i)

\* The task of sync_apps runs; nothing forces an edit, a request or a fault.
Spec == Init /\ [][Next]_vars /\ WF_vars(SyncStep)

------------------------------------------------------------------------------
(* Properties *)

\* in_tx, the transaction resources of the requests that share a connection,
\* and the connection agree: at most one of them runs a transaction, only it
\* has uncommitted writes and locks, and in_tx is set exactly as long.
OneTransaction ==
  /\ \A r \in Requests : tx[r] = "running" => Runs(r) /\ inTx[req[r].i]
  /\ \A r, q \in Requests :
       tx[r] = "running" /\ tx[q] = "running" /\ req[r].i = req[q].i => r = q
  /\ \A i \in Ids : inTx[i] => \E r \in Requests : tx[r] = "running" /\ req[r].i = i
  /\ \A i \in Ids : holds[i] # "nothing" => inTx[i]
  /\ \A i \in Ids : \A w \in dirty[i] : w[2] = "tx" /\ tx[w[1]] = "running" /\ req[w[1]].i = i

\* What needs a store is in an instance that still runs, and only instances that
\* were made and started are in the map.
InstancesRun ==
  /\ \A r \in Requests : InStore(r) => req[r].i # 0 /\ inst[req[r].i].st = "run"
  /\ \A a \in Apps : instances[a] # 0 =>
       inst[instances[a]].app = a /\ inst[instances[a]].st \in {"run"} \cup Dead

\* What sync_apps loads is new: nothing refers to it before it is installed.
SyncInOrder ==
  /\ sync.at \in {"load", "init"} => sync.app \in Apps
  /\ sync.at = "init" => made # 0 /\ inst[made].app = sync.app /\ inst[made].st = "init"
  /\ \A i \in Ids : i > made => inst[i].st = "none"

\* The transactions of an instance exclude each other and requests hold
\* instances that run, while sync_apps makes, installs and drops instances.
IndInv == TypeOK /\ OneTransaction /\ InstancesRun /\ SyncInOrder

\* Requests that share a connection do not get into each other's
\* transactions: what was rolled back (also because the worker died) is never
\* committed by another request, and a plain execute that was answered with
\* success is never undone with another request's transaction.
WritesAreWhole ==
  /\ \A r \in undone : <<r, "tx">> \notin durable
  /\ \A r \in plain : <<r, "plain">> \in durable

\* A request without a response fails without an instance or with its worker,
\* never because its instance was replaced or removed; a body is cut with the
\* worker, or because its instance is no longer in the map.
LossesAreExplained ==
  \A r \in Requests :
    /\ req[r].at = "failed" => req[r].i = 0 \/ inst[req[r].i].st \in Dead
    /\ req[r].at = "cut" => \/ inst[req[r].i].st \in Dead
                            \/ /\ inst[req[r].i].st = "ended"
                               /\ \A a \in Apps : instances[a] # req[r].i

\* Why a worker panics: a guest trapped, one of its own requesters hung up
\* before the head, or another instance of the application had a lock.
DeathsAreExplained ==
  \A i \in Ids :
    /\ inst[i].st = "trapped" => faults > 0
    /\ inst[i].st = "unheard" => \E r \in gone : req[r].i = i
    /\ inst[i].st = "busy" =>
         \E j \in Ids \ {i} : inst[j].app = inst[i].app /\ inst[j].st # "none"

\* What a reload may cost.  An application that was loaded once and stays in
\* the map loses no request and no body, unless its guest traps or a
\* requester hangs up.  Replacing or removing it cuts the bodies that are
\* still being written and, through the locks of the overlapping instances,
\* may end a worker; it costs no other request.
WhatAReloadCosts == LossesAreExplained /\ DeathsAreExplained

\* sync_apps is never satisfied with an instance of older code: when it has
\* acted on the time stamp that the file has, the instance was made from
\* that file, however the edits fell between the scan and the load.
NeverStuckStale ==
  \A a \in Apps :
    /\ sync.at = "scan"
    /\ previous[a] = file[a].mtime
    /\ previous[a] # 0
    => instances[a] # 0 /\ inst[instances[a]].ver = file[a].mtime

\* After the last edit every application is at the version of its file, and a
\* deleted one is no longer reachable, unless the task has ended.
EditsReachTheApps ==
  \A a \in Apps :
    <>[](\/ sync.at = "dead"
         \/ file[a].mtime = 0 /\ instances[a] = 0
         \/ instances[a] # 0 /\ inst[instances[a]].ver = file[a].mtime)

==============================================================================
