# Verification of pos2

TLA+ models of the parts of this repository that carry its own logic, TLC runs
that check them on small instances, and TLAPS proofs that hold for every
instance. `PROJECT.json` lists components, runs, mutants, the map from
definitions to source lines, findings, hazards and theorems.

Run a model with `tlc -config <cfg> <module>` and a proof module with
`tlapm <module>.tla`, both inside this directory.

## 1. The system

pos2 is a home server that installs and updates itself, is reachable through a
tunnel, and keeps its data in a replicated SQLite database.

| part | state | operations | talks to |
|---|---|---|---|
| **dockerloader supervisor** (`dockerloader/src/main.rs`) | its place in `main`; the child process | first installation, rename of `entrypoint-attempt`, trial with a timeout, kill, restart on exit code 42, `cli` passthrough | the application, through symbolic links and exit codes |
| **dockerloader library** (`dockerloader/src/lib.rs`) | `/data/dockerloader`: four links, the marker `update-attempt`, `blobs`, `images`, `extracted` | `download_image`, `extract_image`, `mark_ready`, `cleanup_storage`, `check_for_update`, the update loop | registry (HTTP), supervisor (files) |
| **replsqlite** (`replvfs/vol_file.rs`) | server: image, version, list of transactions; client: image, version, write-ahead log, lock counts | `shm_lock`/`unlock`, `pull_changes`, `maybe_end_tx`, `commit_change`, `get_changes_after`, `apply_tx` | SQLite, through the VFS; the server, by calls |
| **VFS glue** (`replvfs/mod.rs`, `file.rs`, `mem_file.rs`) | open files, lock-to-file pairing by thread | open, read, write, delete | SQLite |
| **tunnel server** (`server.rs`, `sni_router.rs`, `timeout_stream.rs`) | map from domain to QUIC connection; a task per connection | handshake, register, unregister, route by SNI, copy streams | clients (QUIC), browsers (TLS), database |
| **tunnel client** (`client.rs`) | current connection | connect, handshake with a timeout, serve streams, reconnect | server |
| **web server and set-up** (`web.rs`, `setup.rs`, `db.rs`) | SQLite tables: users, sessions, device tokens, auth tokens, domains | login, approve, reject, device code, poll, register a domain | browsers and devices (HTTP), GitHub |
| **certificates** (`cert.rs`) | account credentials and the three files of a certificate on disk, the certificate in the resolver, `renew_at` | load or order, validate, write, swap, renew | ACME service, DNS server (HTTP) |
| **DNS server** (`dnsserver.rs`) | records twice: rows of `dns_records` and hickory's memory | add a record (row, then memory), answer, load the rows at start | ACME service, database, devices and people (HTTP) |
| **application host** (`wasi3experiment`) | time stamps `sync_apps` has acted on, the map of instances, a worker and one SQLite connection per instance | `sync_apps`, `run_handler`, begin/query/execute/commit/rollback of a guest | directory of applications, wasmtime, SQLite |
| **server prototype** (`server/`) | diesel tables | web handlers | git, browsers |

What is hard in it:

* *Crash and restart*: the update protocol consists of renames and deletes
  with a process kill possible between any two of them (`lib.rs:97`, `:369`,
  `:422`); `write_certs` writes three files (`cert.rs:104`).
* *Interleaving*: tasks of old and new connections of a domain (`server.rs:79-99`),
  connections of one database (`vol_file.rs:276`), web handlers that read, decide
  and write without a transaction (`web.rs:87`, `:110`, `:133`).
* *Timeouts and retries*: the trial timeout races `mark_ready` (`main.rs:91`); the
  tunnel client abandons a handshake that the server completes (`client.rs:145`);
  a device polls again while its previous poll still runs.
* *Stale state*: a link that is tested and then executed, a connection that is
  looked up and then used, a row that is read and then overwritten.
* *Two copies of one thing*: a DNS record has a row and a place in memory
  (`dnsserver.rs:168`); an application has a file, a time stamp and an instance
  (`wasi3experiment/src/main.rs:293`).
* *Sharing*: the requests of an instance share one connection, kept apart by
  `in_tx` alone (`sqlite.rs:213`); old and new instance share the database file.
* *Something that must happen*: rollback, convergence to the published version,
  reconnection, the token of an approved device, a certificate and its renewal,
  the last edit of an application.

The properties that make each part correct are listed with its module below;
`hazards` in `PROJECT.json` gives each danger with its line and the properties
that would catch it.

## 2. Modules

| module | models | run by |
|---|---|---|
| `Dockerloader` | supervisor, application library, files, registry, `cli` | `MCDockerloader` |
| `SafeUpdate` | what the update promises: one candidate at a time, promoted or given up | refined by `Dockerloader` |
| `ReplDb` | replicated database: server, clients, locks, log | `MCReplDb` |
| `OptimisticStore` | one store with optimistic transactions | refined by `ReplDb` |
| `TunnelConns` | tunnel server and clients: connections, map, requests | `MCTunnelConns` |
| `DeviceFlow` | login, device flow, tokens, domains | `MCDeviceFlow` |
| `DnsServer` | state and operations of the name server | composed by `CertMaintainer` |
| `CertMaintainer` | certificates of the clients, with the ACME service and `DnsServer` | `MCCertMaintainer` |
| `AppHost` | `sync_apps`, instances, workers, transactions of guests | `MCAppHost` |
| `*Proofs` | the theorems about the module of that name | `tlapm` |

`DeviceFlow` justifies a constant of `TunnelConns`: `Allowed` and `DomainOf` say
which clients hold a token whose user owns their domain, and `SetupIsUsable` is
the statement that a finished set-up leaves a client in that position.

Names ending in `_Something` (`Unregister_Any`, `PollRead_AnyState`, ...), and
definitions whose comment begins with "Mutant:", are plausible bugs in the
definition they are named after. No specification uses them; each one shows
that a property can fail.

### Dockerloader

A version is an image digest, with a set of layers. Each link is the version it
points to or `None`. Every change of a file is an action: `SaveManifest`,
`ExtractImage`, `WriteMarker`, `CreateTmpLink`, `RenameTmpLink`, `TakeAttempt`,
`MarkReady`, `RemoveMarker`, `CleanExtracted` ... `Kill` ends supervisor and
application between any two of them, and `Restart` is docker's
`--restart always`. `extracted[v]` is `absent`, `full`, or half removed while
`cleanup_storage` works on it; `FlushBlob` is the write of a blob that tokio
finishes in the background after the rename. `Broken` versions never call
`mark_ready`; `Indexed` ones are published as an image index, for which the
reference that is used afterwards is pinned.

`/bin/cli` is tested, executed and started in three steps (`CliStart` or `CliPoll`,
`CliExec`, `CliInit`). The program it becomes keeps the version that the link named at
the exec, and its `init_dockerloaded` then reads `.env` in the directory of that version
(`lib.rs:307-309`). `main.rs:147` says "TODO: handle race condition where entrypoint
symlink changes during update", and the race is there: with no fault at all, an
update that commits and cleans up between the exec and the read makes the cli end
with an error. `CliFailsOnlyIfReplaced` says that this is all: the exec itself never
meets a missing program, and the start fails only if the version was replaced since the
exec (or an ignored delete error left the stable version incomplete). The comment and
the code agree, so this is a hazard and not a finding.

Not modelled: loss of power (what the kernel accepted stays), short writes,
`tmp-*` files that are never read, a missing `/data`.

### ReplDb

A page is the client that wrote it last, a log is a sequence of frames, a
transaction the frames up to a commit frame. SQLite is external: the model
lets it call the VFS in the orders its WAL mode uses (first READ lock, WRITE
lock, an exchange of the read mark under the write lock, frames, unlocks;
rollback leaves frames in the log that a later transaction overwrites). A
client may crash at any step. `apply_tx` and `extract_tx` are translated as
functions, and `LastWriterWins` compares them with a direct definition of
"the last content written to each page"; `LastWriters` proves it for every
history.

Not modelled: header bytes, checksums and salts, the WAL index, a restart of the
in-memory server, memory-mapped reads.

### TunnelConns

A connection has two ends that learn of its loss separately (`sopen`, `copen`).
The server's task for it goes from `shake` to `greeted` (ServerHello sent) to
`wait` (registered), and `Unregister` is the compare-and-remove at its end.
Connections are slots that are used again when nothing refers to them, because
`stable_id` is an address. `Cut`, `ClientStops`, `Stop`, `Exit` and late timers
are the faults. When an important task of the server ends, the process stays in
a state that serves nobody until it is ended from outside (`stopped`).

Not modelled: the bytes of TLS and SNI (a request carries its domain), the copy
of data, start-up and configuration.

### DeviceFlow

Each database statement or transaction is a step; a handler holds the copy of
the row that it read (`copy`). Handlers are dropped at any await when their peer
leaves (`BrowserLeaves`, `PollDropped`) or the server ends (`ServerCrash`). A
device has one code. `approvals` is history: who submitted an approval of which
pending code. `Owner0` gives the domains that were registered before.

Not modelled: GitHub's side of the login, the cross-origin check, pages. The look-up of
the session and the read of the row are one step; `Logout` may happen while a
handler runs, which gives the same behaviours.

### DnsServer and CertMaintainer

`add_record` is two actions, `WriteRow` and `UpsertZone`, with every other
handler, a hang-up (`DropCall`) and `ServerCrash` in between. The table has one row
per name and kind, which the next write replaces; the memory collects
every TXT record of a name, refuses what a CNAME forbids and tells nobody.
`ServerStart` reads the table and `LoadRow` loads one row at a time: the socket
already answers, the HTTP interface opens at the end (`Serving`).

Each client walks through `initialize` and `maintain_certs` (`pc`). A file is
truncated by one action and filled by the next (`OpenFile`, `FillFile`), in the
order information, certificate, key; content is the number of the certificate it
belongs to, `0` when missing and `Torn` in between. `LoadResult` is what
`load_certs` and the check of the key make of such a directory. `Fail` lets a
request or a write fail at any place that has one, `Crash` kills the process.
The ACME service is external: it validates once, issues, and refuses an order that
replaces a certificate a second time. `window` is the suggested renewal window of
the certificate on disk, `due` whether the `renew_at` the process knows has passed;
after a restart they may differ, because the file of information may be that of
a newer certificate. When an order begins, the challenge of the one before it becomes
`Stale` everywhere (`Age`), which keeps values finite; nothing in the code
depends on the value of an old challenge.

Not modelled: the server's own maintainer (the same code, with the name server
called directly), the A record that a client registers when it starts, requests
that fail authorization (they change nothing), DNS caches, the loss of power.

### AppHost

`sync_apps` is `List`, `Scan`, one `Stamp`, `Load`, `Install` per changed file, and
`Sleep`; an edit may fall between any two. A version is the time stamp of the edit
that wrote the file; a file may be incomplete, as during a copy. Errors and
unwraps end the task (`Panic`) or the worker. `holds` are SQLite's locks in
rollback-journal mode, `dirty` the uncommitted writes of a connection. `EndTx` clears
`in_tx`, and what waits for a lock may run into the busy timeout, which traps.

A request is `queued`, `running` until the guest returns the head of the response
(`Finish`), and then `streaming` until the guest's own task has written the body
(`BodyDone`, `wasip3_http_wrapper/mod.rs:389-392`). `run_handler` holds its instance
only up to the head (`main.rs:199-201`). `Install` stops nobody, but when an instance is
out of the map and no request waits for a head any more, its worker leaves its loop and
drops the store, with every body that is still being written and the transaction such a
task may have open (`WorkerEnds`, `wasmtimewrapper.rs:81-103`). A trap (`Trap`), an
answer that nobody waits for (`Unheard`) and a lock conflict (`BusyTimeout`) make the
worker panic; `StoreDropped` is what all four do to requests, transaction and connection,
and the dead instance stays in the map until the file changes.

`WhatAReloadCosts` says what this amounts to. A reload fails no request that has no
response yet, except through the locks of the overlapping instances; it does cut
responses in progress. An instance that stays in the map, alone, loses a request or a
body only to a trap of a guest, or to one of its own requesters that hung up before the
head. The three causes of a worker's death are distinct states (`trapped`, `unheard`,
`busy`), so that none can pass for another. The code is exposed to all of them: the
property bounds the damage, it does not deny it.

Assumed of guests, which are outside of this repository: at most one transaction per
request, dropped before its body ends, and no BEGIN or COMMIT as text.

Not modelled: the HTTP side, the sign-up page, configuration, wasmtime's limits.

## 3. Runs

| run | instance | distinct states | shows |
|---|---|---|---|
| `dockerloader` | 3 versions, 3 layers, 2 publications, 2 faults | 208,845 | Three versions (one of them cannot become ready), two publications and two faults at any point: the update protocol never loses the running entrypoint, never promotes a version that is not ready, rolls back and converges, and a cli fails to start only when its version was replaced under it. (`IndInv`, `EntrypointResolves`, `OnlyCompleteImages`, `CliFailsOnlyIfReplaced`, `BrokenNeverPromoted`, `ImplementsSafeUpdate`, `RollbackRestores`, `NoFlapping`, `UpdateConverges`) |
| `dockerloader_stale_link` | the same, 1 fault | violation | A kill that leaves entrypoint-attempt.tmp behind makes every later update fail once its target is cleaned up. (`NewVersionTried`) |
| `dockerloader_torn_blob` | the same, 1 fault | violation | A kill while the last write of a blob is in flight leaves a torn blob under its final name, and the install fails on it at every restart. (`InstallCompletes`) |
| `repldb` | 2 clients, 3 pages, 3 frames, 2 versions | 150,930 | Two connections that read, write, roll back, crash and reopen in every order: replicas are exact, reads are fresh and stable, no commit is lost, and the whole is an optimistic transactional store. (`IndInv`, `ReplicaExact`, `FreshReads`, `SendsWhatWasCommitted`, `AckedIsDurable`, `LastWriterWins`, `NoLostUpdate`, `StableSnapshot`, `ImplementsStore`) |
| `repldb_self_conflict` | the same | violation | Two write transactions inside one read lock are sent with the same version: the second is refused because of the first. (`RefusedOnlyByOthers`) |
| `tunnel_conns` | 3 clients, 3 connections, 2 requests, 1 fault | 464,715 | Three clients of one domain (one without the right to it) connect, lose connections, displace each other and carry requests, with late server tasks and reused connection identities: the map and the routing stay right. (`IndInv`, `EntryHasOwner`, `RegisteredIsFound`, `RoutedToOwner`) |
| `tunnel_live` | 2 clients, 2 connections, 2 requests, 1 fault | 26,046 | After a loss, a crash or a late timer the client ends up online for good, dead entries disappear, and streams opened on a healthy connection are accepted. (`DeadEntryRemoved`, `Heals`, `RequestDelivered`) |
| `device_flow` | 2 users, 2 browsers, 1 device, 2 handlers, 1 fault | 762,268 | Two people with two browsers log in, approve and reject the code of a device whose polls overlap, get lost or are dropped, with a server crash: tokens belong to whoever approved, a finished set-up works, an approved device gets its token. (`IndInv`, `TokenWasApproved`, `SetupIsUsable`, `ApprovedGetsToken`) |
| `device_flow_decided` | the same, 1 handler, no fault | violation | Without transactions a decision on a code that was pending when it was read overwrites another decision. (`DecidedOnce`) |
| `certs` | 2 clients, 1 name, 1 CNAME, 1 fault; the first client's certificate ages and is renewed once | 294,208 | Two devices of one domain order certificates through the same challenge name, a person sets a CNAME there, and one request, write, client or server fails at any point: challenges are answered, files and service agree, devices end up serving, and a passed window leads to a renewal. (`RestartIsSafe`, `IndInv`, `ChallengeServed`, `NothingFailsByItself`, `EventuallyServing`, `RenewedOrEnded`) |
| `certs_renewal` | the same | violation | One failed request ends the renewal loop of a process that goes on serving its certificate past the window. (`RenewsBeforeExpiry`) |
| `app_host` | 1 application, 2 requests, 2 edits, 2 instances, 1 fault | 276,152 | The file of an application is written, replaced and deleted while two requests run transactions in its old and new instance, with a trap or a hang-up: transactions stay apart, a reload costs only the bodies still being written and what a lock conflict of the two instances takes down, and the last edit is what runs unless the task died. (`WritesAreWhole`, `IndInv`, `WhatAReloadCosts`, `NeverStuckStale`, `EditsReachTheApps`) |

Bounds. *Dockerloader*: three versions are needed for a stable one, one that
fails and one that comes after it; two publications move the tag during a
download; two faults let a second kill hit the recovery from the first. *ReplDb*:
two clients give every conflict between two, three frames give a transaction of
several frames and two transactions in a log, three pages let a transaction
skip a page and shrink the database. *TunnelConns*: two allowed clients of a
domain displace each other, a third has no right to it; three connections let an
old, an abandoned and a new one coexist. There is one domain, so that requests of
different domains are kept apart (the `DomainOf` part of `RoutedToOwner`) only in the
theorem `Routing`. *DeviceFlow*: two browsers and two
handlers give every pair of overlapping requests on a row. *CertMaintainer*: two
devices of one domain share the name of the challenge; one fault is enough to cut
any order, write, request or restart short, and the client that is not hit shows
what the fault of one does to the other. *AppHost*: two edits give a file
that changes between scan and load, and two instances an old and a new one with a
request in each; the run also passes with three edits and three
instances (3,821,220 states). The theorems below remove the bounds for safety.

Symmetry is used only in runs whose properties are not liveness properties.
Deadlock is checked in every run but `app_host`, where a dead `sync_apps` and
finished requests are the end.

Fairness. Dockerloader: weak fairness on the steps of the supervisor, of the
download and of the application (tokio tasks and a container that docker always
restarts) and on the background write of a blob; none on publishing, faults or
the `cli`. TunnelConns: weak fairness on tasks of server and client, on the
detection of loss (idle timeout and keep-alive are set in `transport_config`) and
on requests in progress; none on starting or stopping, nor on new requests.
DeviceFlow: weak fairness on handlers and on the next poll (the oauth2 crate's
loop); none on people. CertMaintainer: weak fairness on the steps of a client (a
process that ends is started again by its supervisor), on the hourly look at the
renewal information, on the ACME service, on the handlers and on the start of
the server; none on faults, people or time. AppHost: weak fairness on the task of
`sync_apps`, which sleeps a second between rounds; none on edits, requests or
faults. ReplDb has no liveness property, and no fairness.

### Findings

Five runs show a disagreement between the code and what it says of itself:

* `dockerloader_stale_link`: `try_exists` follows the left-over
  `entrypoint-attempt.tmp`; when its target is gone the link is not removed and
  every later update fails at `symlink`.
* `dockerloader_torn_blob`: a blob gets its final name before its last write is
  flushed; after a kill the first installation fails at every start.
* `repldb_self_conflict`: two transactions in one log are sent with the same
  version, so that the second is refused because of the first.
* `device_flow_decided`: approve and reject check for a pending code and write
  without a transaction; one overwrites the other.
* `certs_renewal`: the README promises a loop that renews before expiry, but an
  error of one request ends the loop, unnoticed, while the process serves on.
  `RenewedOrEnded` and `EventuallyServing` say what is left of the promise: the
  certificate is renewed, or its loop has ended, or the files are wedged (torn
  files or files of two certificates, which every start refuses, or a CNAME at the
  name of the challenge).

## 4. Proofs

All theorems assume only the named assumptions on the constants of the module.

* `DockerloaderProofs`: `Invariance` (`Spec => []IndInv`), `EntrypointSafe`,
  `CompleteImages`, `CliSafe`, `OnlyReadyPromoted`, `SafetyRefinement`. That the
  entrypoint resolves is not inductive: one must know which process can be where
  while the other is where (`ProcessInv`), that what is committed is what runs
  (`CommitInv`), that a pending attempt is for another version (`AttemptInv`), and
  that half removed directories do not survive the cleanup (`CompleteInv`).
* `ReplDbProofs`: `Invariance`, `Replication`, `Freshness`, `SendsCommitted`,
  `Durability`, `LastWriters`, `NoUpdateLost`, `SnapshotKept`, `Refinement`. The
  invariant has three parts.
  * `ReplicaInv`: `ReplicaExact` needs that the server's list is the history of its
    image (`ServerLog`), that what a pulling client holds is exactly what it lacks
    (`FetchedIsNext`), and the discipline of locks (`LockDiscipline`).
  * `LogInv`: that only committed frames are sent, and all of them, needs SQLite's
    view of the log (`LogShape`: no commit frame beyond `mxFrame`, a write
    transaction begins where one ended) and an exact correspondence between the
    transactions of the log and those SQLite committed (`LogContent`). A
    rollback keeps it because the frames it leaves behind contain no commit frame,
    and `WriteFrame` because it overwrites frames after `mxFrame` only.
  * `PageInv`: a commit frame names a size only if image and log have all the
    pages up to it (`PagesCovered`). It is what makes the image have exactly the size of
    the last transaction, and leaves no page of zeroes in it.

  `LastWriters` says what the fold of `apply_tx` computes, for every list of
  transactions. The library's induction theorems cannot be instantiated, so the
  induction is done with the least number for which a claim fails
  (`LeastNatural`, from `WFMin` and `NatLessThanWellFounded`, which take sets and no
  operators): first that the recursion of `FoldLeft` has a solution (`FoldExists`), then
  that after n writes every page has the last content written to it (`FoldWritten`).
  `ApplyResult` sums up one transaction, `AcceptLastWriter` adds it to the history.
* `TunnelConnsProofs`: `Invariance`, `Ownership`, `Registration`, `Routing`.
  `RegisteredIsFound` needs that every entry has a waiting task of the same domain
  (`EntryHasOwner`) and that tasks refer to the client that opened their
  connection (`TaskConn`, `ClientConn`); `RoutedToOwner` that a request under
  way holds a connection (`RequestConn`), whose slot is not used again meanwhile.
* `DeviceFlowProofs`: `Invariance`, `ApprovedTokens`, `UsableSetup`. `TokenWasApproved`
  needs that every approved row *and every copy a handler holds* names a user who
  approved it (`RowsAreApproved`); `SetupIsUsable` needs that users and owners of
  domains are never removed (`UsersExist`, `DevicesHold`).
* `CertMaintainerProofs`: `Invariance`, `SafeRestart`, `ChallengesServed`,
  `NothingFails`. The invariant has three parts.
  * `StorageInv`. For the name server the inductive part is `ServedIsStored`: an
    upsert and the change of a challenge's value keep the keys of the table, a handler
    that has written its row is a promise of a row, and so is every row that is still
    to be loaded. For the clients it is `FilesInOrder`, which ties each file to the
    place in `write_certs`. Most steps are `Quiet` (they touch no file and do not
    begin to write); the rest, `Finalize`, the six steps of `write_certs` and
    `UpdateKey`, are taken one by one. `RestartIsSafe` is inductive relative to these:
    the only way out of `Writing` that is not an interruption is the key, after which
    all three files are of one certificate.
  * `ChallengeKept`. A challenge enters the zone when its handler answers, before its
    client announces it, and from then on another device's record joins it instead
    of replacing it. After a restart the zone is what the table kept, so
    `Kept` has a third case: the server went down since, and if the row is still that of
    the challenge, it is yet to be loaded. `ChallengeServed` is what `Kept` says
    once everything is loaded.
  * `NoFaultInv`. Without a fault the server is there, a waiting client has a handler
    at work, and the certificates that were replaced are older than the one in use, so
    that the service refuses no order. With it, and because a CNAME that hides a
    challenge has a row that is never deleted (`CnameStays`), each of the places
    where a client that has a certificate could meet an error is closed (`OwnSuccess`).
* `AppHostProofs`: `Invariance`, `WholeWrites`, `ReloadCost`, `NeverStale`.
  `IndInv` says that `in_tx`, the transaction resource and the connection agree
  (`OneTransaction`), that requests and bodies in progress have instances that run (`InstancesRun`),
  and that what is being loaded is new (`SyncInOrder`). `WritesAreWhole` follows with
  `WholeInv` (a write of a transaction becomes durable only as that transaction
  ends); `NeverStuckStale` with `VersionInv`: time stamps only grow, and outside of
  a load the instance of an application is at least as new as the time stamp that
  is remembered for it. `ReloadCost` follows with an account of what one step may change
  (`Accounted`): which requests it loses and why, which workers it ends and why, and
  that what is over stays as it is.

Every invariant and every action property of the passing runs is a theorem, and so
are the refinement of `OptimisticStore` and the safety part of the refinement of
`SafeUpdate`. Only model-checked are the liveness properties (`RollbackRestores`,
`NoFlapping`, `UpdateConverges`, the fairness part of `ImplementsSafeUpdate`, `Heals`,
`DeadEntryRemoved`, `RequestDelivered`, `ApprovedGetsToken`, `EventuallyServing`,
`RenewedOrEnded`, `EditsReachTheApps`): fairness and ENABLED are out of the prover's
reach.

## 5. Not modelled, and what is left

* Third-party and generated code: the headers `sqlite-plugin/sqlite3/sqlite3.h` and
  `sqlite3ext.h` (declarations of SQLite, no behaviour), `sqlite-plugin`, generated bindings,
  `wit`, the HTTP adapter of `wasi3app` (but for the task that writes a body).
* Programs that run once in a straight line or hold no state: the bundler, sample
  applications, process start, page rendering, the connection handlers (a router and a
  proxy without state of their own).
* `server/`, an earlier prototype whose handlers are single statements.
* The VFS glue: a lock and the open of the log are paired by thread
  (`replvfs/mod.rs:442`); the order of these calls is SQLite's own, and the
  model takes the files of a connection as paired. The WAL index of one page
  (`vol_file.rs:731`) limits the size of a transaction, a limit no small instance reaches.
* Waiting inside quinn for a free stream (`server.rs:161`).
* Loss of power; what the kernel accepted stays. `RestartIsSafe` in particular covers
  kills of the process only: `write_certs` syncs the key and the directory, not the
  other two files.
* Failures that the code is exposed to and no property excludes. They are modelled, are
  listed as hazards, and the properties say that there are no others: the approval that
  is used up when an answer is lost (`ApprovedGetsToken` speaks of runs without a fault,
  which also means that the code does not expire), the files that an interrupted
  `write_certs` leaves (`RestartIsSafe` and `EventuallyServing` except them), the end of
  `sync_apps` on a file it cannot load (`EditsReachTheApps` excepts it), the cli whose
  version is replaced under it, and the bodies and workers that a reload or a hang-up takes.

What is left to do is proof below the level of the properties: the progress
arguments behind the liveness properties (which step each state that is not yet
good leads to) could be stated and proved as action properties, without the
fairness that makes the steps happen.
