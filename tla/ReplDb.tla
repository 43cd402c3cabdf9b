------------------------------- MODULE ReplDb -------------------------------
(***************************************************************************)
(* The replicated SQLite database of replsqlite (replvfs/vol_file.rs): one *)
(* server that keeps the newest image and the list of transactions, and    *)
(* one DbClient per open connection.  A client works on an image of its    *)
(* own; it pulls the transactions it lacks when SQLite takes its first     *)
(* lock, and sends what SQLite left in the write-ahead log when SQLite     *)
(* gives up its last one.                                                  *)
(*                                                                         *)
(* SQLite itself is external: it is modelled by the order in which it may  *)
(* call the VFS.  A request to the server is one step, each pulled         *)
(* transaction is applied in a step of its own, and a client may vanish    *)
(* between any two steps.                                                  *)
(***************************************************************************)
EXTENDS Naturals, Sequences, SequencesExt

CONSTANTS
    Client,       \* open connections, each with its own DbClient
    Zero,         \* a page of zeroes
    Empty,        \* the first page make_initial_db builds
    MaxPages,     \* bound: size of the database
    MaxFrames,    \* bound: frames in a write-ahead log
    MaxVersion,   \* bound: transactions the server accepts
    MaxWrites,    \* bound: frames written to all logs together
    None

ASSUME ConstantsAssumption ==
    /\ MaxPages \in Nat /\ MaxFrames \in Nat /\ MaxVersion \in Nat
    /\ MaxWrites \in Nat
    /\ None \notin Nat

VARIABLES
    \* the server (TestDbServerData)
    latest,        \* latest_snapshot
    latestVersion, \* latest_snapshot_version
    changes,       \* the transactions, each with the version it produced
    \* the clients (DbClient)
    status,        \* "closed", "ready", "pulling", "sending" or "panicked"
    version,       \* server_version
    db,            \* db_data, a sequence of pages
    wal,           \* wal_data after its header, a sequence of frames
    reads, writes, \* read_locks, write_locks
    hadWrite,      \* had_write
    fetched,       \* the answer of get_changes_after, not applied yet
    sent,          \* start_idx of maybe_end_tx: frames before it are sent
    \* SQLite
    mxFrame,       \* the frames of the log it considers written
    txStart,       \* mxFrame when it took the write lock
    \* history
    images,        \* images[v]: the database at version v
    author,        \* author[v]: the client whose commit produced version v
    floor,         \* latestVersion when a client last asked for a first lock
    unsent,        \* transactions SQLite has committed and not seen sent
    written        \* what is used of MaxWrites

server == <<latest, latestVersion, changes, images, author>>
client == <<status, version, db, wal, reads, writes, hadWrite, fetched, sent,
            mxFrame, txStart, floor, unsent>>
vars == <<server, client, written>>

\* The content of a page is abstracted to Zero, Empty or the client that wrote
\* it.  A frame with dbSize # 0 is a commit frame.
Frame == [page : 1..MaxPages, data : Client, dbSize : 0..MaxPages]
Transaction == [writes : Seq(Frame), dbSize : 0..MaxPages]

make_initial_db == <<Empty>>

Init ==
    /\ latest = make_initial_db /\ latestVersion = 0 /\ changes = <<>>
    /\ images = [v \in {0} |-> make_initial_db] /\ author = <<>>
    /\ status = [c \in Client |-> "closed"]
    /\ version = [c \in Client |-> 0]
    /\ db = [c \in Client |-> <<>>]
    /\ wal = [c \in Client |-> <<>>]
    /\ reads = [c \in Client |-> 0] /\ writes = [c \in Client |-> 0]
    /\ hadWrite = [c \in Client |-> FALSE]
    /\ fetched = [c \in Client |-> {}]
    /\ sent = [c \in Client |-> 0]
    /\ mxFrame = [c \in Client |-> 0] /\ txStart = [c \in Client |-> 0]
    /\ floor = [c \in Client |-> 0]
    /\ unsent = [c \in Client |-> {}]
    /\ written = 0

-----------------------------------------------------------------------------
(* Applying a transaction *)

\* Mutant: the pages between the end of the image and w.page are not added.
WritePage_NoGrowth(image, w) ==
    IF w.page > Len(image) THEN Append(image, w.data)
    ELSE [image EXCEPT ![w.page] = w.data]

\* One page write: the image grows by pages of zeroes until the page exists.
WritePage(image, w) ==
    [p \in 1..(IF w.page > Len(image) THEN w.page ELSE Len(image)) |->
        IF p = w.page THEN w.data
        ELSE IF p <= Len(image) THEN image[p] ELSE Zero]

apply_tx(image, tx) ==
    LET result == FoldLeft(WritePage, image, tx.writes)
    IN  IF Len(result) > tx.dbSize THEN SubSeq(result, 1, tx.dbSize)
        ELSE result

Locks(c) == reads[c] + writes[c]

\* The transaction that ends in the commit frame f of the log w and starts
\* after frame s (extract_writes_from_wal).
extract_tx(w, s, f) ==
    [writes |-> SubSeq(w, s + 1, f), dbSize |-> w[f].dbSize]

\* reset_wal empties wal_data; the header it puts into the shared WAL index
\* makes SQLite start over with no frames.
reset_wal(c) ==
    /\ wal' = [wal EXCEPT ![c] = <<>>]
    /\ mxFrame' = [mxFrame EXCEPT ![c] = 0]

-----------------------------------------------------------------------------
(* Opening a connection; losing one *)

\* DbClient::new: a snapshot, an empty log, no locks.
Open(c) ==
    /\ status[c] \in {"closed", "panicked"}
    /\ status' = [status EXCEPT ![c] = "ready"]
    /\ version' = [version EXCEPT ![c] = latestVersion]
    /\ db' = [db EXCEPT ![c] = latest]
    /\ reset_wal(c)
    /\ UNCHANGED <<server, reads, writes, hadWrite, fetched, sent, txStart,
                   floor, unsent, written>>

\* The client and all it holds in memory are gone.
Drop(c, how) ==
    /\ status' = [status EXCEPT ![c] = how]
    /\ reset_wal(c)
    /\ reads' = [reads EXCEPT ![c] = 0] /\ writes' = [writes EXCEPT ![c] = 0]
    /\ hadWrite' = [hadWrite EXCEPT ![c] = FALSE]
    /\ fetched' = [fetched EXCEPT ![c] = {}]
    /\ sent' = [sent EXCEPT ![c] = 0]
    /\ txStart' = [txStart EXCEPT ![c] = 0]
    /\ unsent' = [unsent EXCEPT ![c] = {}]
    /\ version' = [version EXCEPT ![c] = 0]
    /\ db' = [db EXCEPT ![c] = <<>>]
    /\ floor' = [floor EXCEPT ![c] = 0]

\* The process ends, is killed, or loses the server: every call to it is
\* followed by an expect.
Crash(c) ==
    /\ status[c] \in {"ready", "pulling", "sending"}
    /\ Drop(c, "closed")
    /\ UNCHANGED <<server, written>>

-----------------------------------------------------------------------------
(* shm_lock *)

\* Mutant: the oldest missing change is skipped.
FetchChanges_OffByOne(c) ==
    /\ fetched' = [fetched EXCEPT ![c] =
           {changes[i] : i \in {j \in DOMAIN changes :
                                    changes[j].version > version[c] + 1}}]
    /\ floor' = [floor EXCEPT ![c] = latestVersion]
    /\ status' = [status EXCEPT ![c] = "pulling"]

\* maybe_begin_tx of a client without locks: ask for the changes after
\* server_version.
FetchChanges(c) ==
    /\ fetched' = [fetched EXCEPT ![c] =
           {changes[i] : i \in {j \in DOMAIN changes :
                                    changes[j].version > version[c]}}]
    /\ floor' = [floor EXCEPT ![c] = latestVersion]
    /\ status' = [status EXCEPT ![c] = "pulling"]

\* Mutant: changes are pulled although the client holds the write lock.
LockRead_AlwaysPulls(c) ==
    /\ status[c] = "ready" /\ reads[c] = 0
    /\ FetchChanges(c)
    /\ UNCHANGED <<server, version, db, wal, reads, writes, hadWrite, sent,
                   mxFrame, txStart, unsent, written>>

\* Mutant: the first lock does not pull.
LockRead_NoPull(c) ==
    /\ status[c] = "ready" /\ reads[c] = 0
    /\ reads' = [reads EXCEPT ![c] = @ + 1]
    /\ floor' = [floor EXCEPT ![c] = latestVersion]
    /\ UNCHANGED <<server, status, version, db, wal, writes, hadWrite, fetched,
                   sent, mxFrame, txStart, unsent, written>>

\* Read(_), Lock, Shared.  SQLite holds at most one of these.
LockRead(c) ==
    /\ status[c] = "ready" /\ reads[c] = 0
    /\ IF Locks(c) = 0
       THEN FetchChanges(c) /\ UNCHANGED reads
       ELSE /\ reads' = [reads EXCEPT ![c] = @ + 1]
            /\ UNCHANGED <<fetched, floor, status>>
    /\ UNCHANGED <<server, version, db, wal, writes, hadWrite, sent, mxFrame,
                   txStart, unsent, written>>

\* Mutant: the changes are applied in any order.
PullChange_Unordered(c) ==
    /\ status[c] = "pulling"
    /\ \E e \in fetched[c] :
           /\ db' = [db EXCEPT ![c] = apply_tx(@, e.tx)]
           /\ version' = [version EXCEPT ![c] = e.version]
           /\ fetched' = [fetched EXCEPT ![c] = @ \ {e}]
    /\ reset_wal(c)
    /\ UNCHANGED <<server, status, reads, writes, hadWrite, sent, txStart,
                   floor, unsent, written>>

\* One iteration of pull_changes; the list is in the order of the versions.
PullChange(c) ==
    /\ status[c] = "pulling"
    /\ \E e \in fetched[c] :
           /\ \A f \in fetched[c] : e.version <= f.version
           /\ db' = [db EXCEPT ![c] = apply_tx(@, e.tx)]
           /\ version' = [version EXCEPT ![c] = e.version]
           /\ fetched' = [fetched EXCEPT ![c] = @ \ {e}]
    /\ reset_wal(c)
    /\ UNCHANGED <<server, status, reads, writes, hadWrite, sent, txStart,
                   floor, unsent, written>>

\* The end of pull_changes and the rest of shm_lock.
PullDone(c) ==
    /\ status[c] = "pulling" /\ fetched[c] = {}
    /\ status' = [status EXCEPT ![c] = "ready"]
    /\ reads' = [reads EXCEPT ![c] = @ + 1]
    /\ UNCHANGED <<server, version, db, wal, writes, hadWrite, fetched, sent,
                   mxFrame, txStart, floor, unsent, written>>

\* Write, Lock, Exclusive.  SQLite holds a read lock then, so maybe_begin_tx
\* returns at once.
LockWrite(c) ==
    /\ status[c] = "ready" /\ reads[c] # 0 /\ writes[c] = 0
    /\ writes' = [writes EXCEPT ![c] = @ + 1]
    /\ hadWrite' = [hadWrite EXCEPT ![c] = TRUE]
    /\ txStart' = [txStart EXCEPT ![c] = mxFrame[c]]
    /\ UNCHANGED <<server, status, version, db, wal, reads, fetched, sent,
                   mxFrame, floor, unsent, written>>

\* maybe_end_tx after the locks of c became r and w: with none left, a client
\* that had the write lock starts to send its log.
MaybeEndTx(c, r, w) ==
    IF r + w = 0 /\ hadWrite[c]
    THEN /\ status' = [status EXCEPT ![c] = "sending"]
         /\ sent' = [sent EXCEPT ![c] = 0]
    ELSE UNCHANGED <<status, sent>>

\* Has SQLite written the commit frame of its write transaction?
Committed(c) ==
    mxFrame[c] > txStart[c] /\ wal[c][mxFrame[c]].dbSize # 0

\* Write, Unlock, Exclusive.  SQLite forgets the frames of a transaction that
\* it rolls back; they stay in wal_data.
UnlockWrite(c) ==
    /\ status[c] = "ready" /\ writes[c] # 0 /\ reads[c] # 0
    /\ writes' = [writes EXCEPT ![c] = @ - 1]
    /\ MaybeEndTx(c, reads[c], writes[c] - 1)
    /\ IF Committed(c)
       THEN /\ unsent' = [unsent EXCEPT ![c] = @ \cup
                    {[at |-> mxFrame[c],
                      tx |-> extract_tx(wal[c], txStart[c], mxFrame[c])]}]
            /\ UNCHANGED mxFrame
       ELSE /\ mxFrame' = [mxFrame EXCEPT ![c] = txStart[c]]
            /\ UNCHANGED unsent
    /\ UNCHANGED <<server, version, db, wal, reads, hadWrite, fetched, txStart,
                   floor, written>>

\* Read(_), Unlock, Shared.  Under the write lock SQLite does this only before
\* the first frame, to exchange Read(0) for another read lock.
UnlockRead(c) ==
    /\ status[c] = "ready" /\ reads[c] # 0
    /\ writes[c] # 0 => mxFrame[c] = 0
    /\ reads' = [reads EXCEPT ![c] = @ - 1]
    /\ MaybeEndTx(c, reads[c] - 1, writes[c])
    /\ UNCHANGED <<server, version, db, wal, writes, hadWrite, fetched,
                   mxFrame, txStart, floor, unsent, written>>

-----------------------------------------------------------------------------
(* The write-ahead log *)

\* Mutant: the offset of the write is ignored.
PutFrame_Appends(w, m, f) == Append(w, f)

\* wal_data with frame f after its first m; it grows by at most one frame.
PutFrame(w, m, f) ==
    SubSeq(w, 1, m) \o <<f>> \o SubSeq(w, m + 2, Len(w))

\* WalFile::write of a frame, at the position SQLite chooses: after the frames
\* it considers written, over those of a transaction it rolled back.
WriteFrame(c) ==
    /\ status[c] = "ready" /\ writes[c] # 0 /\ reads[c] # 0
    /\ mxFrame[c] < MaxFrames /\ ~Committed(c)
    /\ written < MaxWrites /\ written' = written + 1
    /\ \E f \in [page : 1..MaxPages, data : {c}, dbSize : 0..MaxPages] :
           LET log == PutFrame(wal[c], mxFrame[c], f)
           IN  /\ f.dbSize # 0 =>
                      /\ f.page <= f.dbSize
                      /\ \A p \in (Len(db[c]) + 1)..f.dbSize :
                             \E i \in 1..(mxFrame[c] + 1) : log[i].page = p
               /\ wal' = [wal EXCEPT ![c] = log]
    /\ mxFrame' = [mxFrame EXCEPT ![c] = @ + 1]
    /\ UNCHANGED <<server, status, version, db, reads, writes, hadWrite,
                   fetched, sent, txStart, floor, unsent>>

-----------------------------------------------------------------------------
(* Sending the log *)

IsNextCommit(c, f) ==
    /\ f \in (sent[c] + 1)..Len(wal[c]) /\ wal[c][f].dbSize # 0
    /\ \A g \in (sent[c] + 1)..(f - 1) : wal[c][g].dbSize = 0

\* Mutant: the version of the client is not compared.
Accept_AnyVersion(c) ==
    /\ status[c] = "sending" /\ latestVersion < MaxVersion
    /\ \E f \in 1..Len(wal[c]) :
           LET tx == extract_tx(wal[c], sent[c], f)
           IN  /\ IsNextCommit(c, f)
               /\ latest' = apply_tx(latest, tx)
               /\ latestVersion' = latestVersion + 1
               /\ changes' = Append(changes,
                                 [tx |-> tx, version |-> latestVersion + 1])
               /\ images' = [v \in 0..(latestVersion + 1) |->
                      IF v <= latestVersion THEN images[v]
                      ELSE apply_tx(latest, tx)]
               /\ author' = Append(author, c)
               /\ sent' = [sent EXCEPT ![c] = f]
               /\ unsent' = [unsent EXCEPT ![c] = @ \ {[at |-> f, tx |-> tx]}]
    /\ UNCHANGED <<status, version, db, wal, reads, writes, hadWrite, fetched,
                   mxFrame, txStart, floor, written>>

\* commit_change accepts the transaction that ends in frame f.
Accept(c) ==
    /\ status[c] = "sending" /\ latestVersion < MaxVersion
    /\ version[c] = latestVersion
    /\ \E f \in 1..Len(wal[c]) :
           LET tx == extract_tx(wal[c], sent[c], f)
           IN  /\ IsNextCommit(c, f)
               /\ latest' = apply_tx(latest, tx)
               /\ latestVersion' = latestVersion + 1
               /\ changes' = Append(changes,
                                 [tx |-> tx, version |-> latestVersion + 1])
               /\ images' = [v \in 0..(latestVersion + 1) |->
                      IF v <= latestVersion THEN images[v]
                      ELSE apply_tx(latest, tx)]
               /\ author' = Append(author, c)
               /\ sent' = [sent EXCEPT ![c] = f]
               /\ unsent' = [unsent EXCEPT ![c] = @ \ {[at |-> f, tx |-> tx]}]
    /\ UNCHANGED <<status, version, db, wal, reads, writes, hadWrite, fetched,
                   mxFrame, txStart, floor, written>>

\* Mutant: a refused commit is ignored and the rest of the log dropped.
Refuse_Ignored(c) ==
    /\ status[c] = "sending"
    /\ version[c] # latestVersion
    /\ \E f \in 1..Len(wal[c]) : IsNextCommit(c, f)
    /\ status' = [status EXCEPT ![c] = "ready"]
    /\ reset_wal(c)
    /\ txStart' = [txStart EXCEPT ![c] = 0]
    /\ sent' = [sent EXCEPT ![c] = 0]
    /\ hadWrite' = [hadWrite EXCEPT ![c] = FALSE]
    /\ UNCHANGED <<server, version, db, reads, writes, fetched, floor, unsent,
                   written>>

\* commit_change refuses: the handler panics, and so does the client.
Refuse(c) ==
    /\ status[c] = "sending"
    /\ version[c] # latestVersion
    /\ \E f \in 1..Len(wal[c]) : IsNextCommit(c, f)
    /\ Drop(c, "panicked")
    /\ UNCHANGED <<server, written>>

\* No commit frame is left: reset_wal and the end of maybe_end_tx.
SendDone(c) ==
    /\ status[c] = "sending"
    /\ ~ \E f \in 1..Len(wal[c]) : IsNextCommit(c, f)
    /\ status' = [status EXCEPT ![c] = "ready"]
    /\ reset_wal(c)
    /\ txStart' = [txStart EXCEPT ![c] = 0]
    /\ sent' = [sent EXCEPT ![c] = 0]
    /\ hadWrite' = [hadWrite EXCEPT ![c] = FALSE]
    /\ UNCHANGED <<server, version, db, reads, writes, fetched, floor, unsent,
                   written>>

-----------------------------------------------------------------------------
ClientStep(c) ==
    \/ Open(c) \/ Crash(c)
    \/ LockRead(c) \/ PullChange(c) \/ PullDone(c) \/ UnlockRead(c)
    \/ LockWrite(c) \/ UnlockWrite(c) \/ WriteFrame(c)
    \/ Accept(c) \/ Refuse(c) \/ SendDone(c)

Next == \E c \in Client : ClientStep(c)

Spec == Init /\ [][Next]_vars

-----------------------------------------------------------------------------
(* Properties *)

Alive(c) == status[c] \in {"ready", "pulling", "sending"}

Types ==
    /\ latestVersion \in Nat
    /\ changes \in Seq([tx : Transaction, version : Nat])
    /\ author \in Seq(Client)
    /\ status \in [Client -> {"closed", "ready", "pulling", "sending",
                             "panicked"}]
    /\ version \in [Client -> Nat]
    /\ DOMAIN db = Client
    /\ wal \in [Client -> Seq(Frame)]
    /\ reads \in [Client -> {0, 1}] /\ writes \in [Client -> {0, 1}]
    /\ hadWrite \in [Client -> BOOLEAN]
    /\ DOMAIN fetched = Client /\ DOMAIN unsent = Client
    /\ sent \in [Client -> Nat]
    /\ mxFrame \in [Client -> Nat] /\ txStart \in [Client -> Nat]
    /\ floor \in [Client -> Nat]

\* The server's list is the history of its image: entry i produced version i
\* from version i - 1 (commit_change).
ServerLog ==
    /\ Len(changes) = latestVersion /\ Len(author) = latestVersion
    /\ latest = images[latestVersion]
    /\ \A i \in 1..latestVersion :
           /\ changes[i].version = i
           /\ images[i] = apply_tx(images[i - 1], changes[i].tx)

\* The image of a client is the database exactly as it was at the version the
\* client believes to have, whatever was committed or pulled meanwhile.
ReplicaExact ==
    \A c \in Client : Alive(c) =>
        version[c] <= latestVersion /\ db[c] = images[version[c]]

\* While it pulls, a client has before it exactly the changes between its
\* version and the version the server had when it asked (get_changes_after).
Awaited(c) == (version[c] + 1)..floor[c]

FetchedOf(c) ==
    /\ status[c] # "pulling" => fetched[c] = {}
    /\ status[c] = "pulling" =>
           /\ version[c] <= floor[c] /\ floor[c] <= latestVersion
           /\ \A e \in fetched[c] : \E i \in Awaited(c) : e = changes[i]
           /\ \A i \in Awaited(c) : changes[i] \in fetched[c]

FetchedIsNext == \A c \in Client : FetchedOf(c)

\* A transaction reads the version that was the newest when it took its first
\* lock: what any client was told to be committed before is visible (the
\* assertions of main.rs on the sums that conn2 reads).
FreshReads ==
    \A c \in Client : Locks(c) # 0 => version[c] = floor[c]

\* Locks are held only between calls, the log is empty unless the write lock
\* was taken, and a client without locks that had it is sending.
Disciplined(c) ==
    /\ status[c] # "ready" => Locks(c) = 0
    /\ writes[c] # 0 => hadWrite[c]
    /\ hadWrite[c] => status[c] = "sending" \/ Locks(c) # 0
    /\ ~hadWrite[c] => wal[c] = <<>> /\ mxFrame[c] = 0
    /\ mxFrame[c] <= Len(wal[c]) /\ txStart[c] <= mxFrame[c]
    /\ status[c] # "sending" => sent[c] = 0
    /\ status[c] = "sending" => version[c] = floor[c]

LockDiscipline == \A c \in Client : Disciplined(c)

\* After its first accepted transaction a client is behind the server, so that
\* a second one from the same log is refused.
SentBehind ==
    \A c \in Client :
        status[c] = "sending" /\ sent[c] # 0 => version[c] < latestVersion

\* All of it together is preserved by every step of clients and server.
ReplicaInv ==
    /\ Types /\ ServerLog /\ ReplicaExact /\ FetchedIsNext /\ FreshReads
    /\ LockDiscipline /\ SentBehind

\* Where a transaction of the log w may begin: at its start, or after a commit
\* frame.
IsBoundary(w, s) == s = 0 \/ (s \in 1..Len(w) /\ w[s].dbSize # 0)

\* The frames after s up to the commit frame f are one transaction of the log.
IsTransaction(w, s, f) ==
    /\ IsBoundary(w, s) /\ IsBoundary(w, f) /\ s < f
    /\ \A g \in (s + 1)..(f - 1) : w[g].dbSize = 0

Entry(w, s, f) == [at |-> f, tx |-> extract_tx(w, s, f)]

\* SQLite's view of the log: no commit frame lies beyond mxFrame, the frames of
\* an open write transaction before its last one are no commits, and it begins
\* where a committed one ended.
LogShape(c) ==
    /\ \A f \in 1..Len(wal[c]) : wal[c][f].dbSize # 0 => f <= mxFrame[c]
    /\ IsBoundary(wal[c], txStart[c]) /\ IsBoundary(wal[c], sent[c])
    /\ writes[c] = 0 => IsBoundary(wal[c], mxFrame[c])
    /\ writes[c] # 0 => \A f \in (txStart[c] + 1)..(mxFrame[c] - 1) :
                           wal[c][f].dbSize = 0

\* The transactions after frame sent[c], without one whose write lock is still
\* held, are exactly those that SQLite committed and that are not sent yet.
LogContent(c) ==
    /\ \A s \in sent[c]..Len(wal[c]) : \A f \in 1..Len(wal[c]) :
           /\ IsTransaction(wal[c], s, f)
           /\ writes[c] # 0 => f <= txStart[c]
           => Entry(wal[c], s, f) \in unsent[c]
    /\ \A u \in unsent[c] :
           \E s \in sent[c]..Len(wal[c]) : \E f \in 1..Len(wal[c]) :
               IsTransaction(wal[c], s, f) /\ u = Entry(wal[c], s, f)
    /\ ~hadWrite[c] => unsent[c] = {}

\* The write-ahead log and what SQLite was told fit together.
LogInv == \A c \in Client : LogShape(c) /\ LogContent(c)

\* A commit frame gives the database a size only if every page that the image
\* below the log lacks is in the log up to that frame.
PagesCovered(c) ==
    \A f \in 1..Len(wal[c]) :
        wal[c][f].dbSize # 0 =>
            \A p \in (Len(db[c]) + 1)..wal[c][f].dbSize :
                \E i \in 1..f : wal[c][i].page = p

PageInv ==
    /\ latest \in Seq(Client \cup {Zero, Empty})
    /\ \A c \in Client : PagesCovered(c)

\* The inductive invariant: replicas, logs, and the pages of a transaction.
IndInv == ReplicaInv /\ LogInv /\ PageInv

\* A transaction is added to the list only if it was computed from the newest
\* image: no commit of another client is overwritten unseen (the comparison of
\* versions in commit_change).
NoLostUpdate ==
    [][latestVersion' # latestVersion =>
          \E c \in Client :
              /\ author' = Append(author, c)
              /\ status[c] = "sending" /\ sent[c] = 0
              /\ db[c] = latest]_vars

\* From its first lock to its last a transaction reads the same image, although
\* SQLite gives up and retakes read locks in between (maybe_begin_tx).
StableSnapshot ==
    [][\A c \in Client :
           Locks(c) # 0 /\ Locks(c)' # 0 => db'[c] = db[c]]_vars

\* What is sent is what SQLite committed, frame by frame, and never a frame of
\* a transaction that it rolled back and that is still in wal_data.
SendsWhatWasCommitted ==
    \A c \in Client : \A f \in 1..Len(wal[c]) :
        status[c] = "sending" /\ IsNextCommit(c, f) =>
            [at |-> f, tx |-> extract_tx(wal[c], sent[c], f)] \in unsent[c]

\* A client that lives on without locks has everything SQLite told it to be
\* committed on the server (maybe_end_tx and the expect of commit_change).
AckedIsDurable ==
    \A c \in Client : status[c] = "ready" /\ Locks(c) = 0 => unsent[c] = {}

\* The last transaction that wrote page p or cut the database below p.
LastTouch(p) ==
    {i \in DOMAIN changes :
        LET touches(j) ==
                \/ changes[j].tx.dbSize < p
                \/ \E w \in DOMAIN changes[j].tx.writes :
                       changes[j].tx.writes[w].page = p
        IN  touches(i) /\ \A j \in (i + 1)..Len(changes) : ~touches(j)}

\* Reference definition of apply_tx over the whole history: the image has the
\* size of the last transaction, and each page the last content written to it
\* since the database was last cut below it.
LastWriterWins ==
    /\ changes # <<>> => Len(latest) = Last(changes).tx.dbSize
    /\ \A p \in DOMAIN latest :
           /\ LastTouch(p) = {} => latest[p] = Empty /\ p = 1
           /\ \A i \in LastTouch(p) :
                  LET ws == changes[i].tx.writes
                  IN  /\ changes[i].tx.dbSize >= p
                      /\ \E w \in DOMAIN ws :
                            /\ ws[w].page = p /\ ws[w].data = latest[p]
                            /\ \A x \in (w + 1)..Len(ws) : ws[x].page # p

\* A comment in maybe_end_tx says that several transactions in one log "should
\* not be allowed": then a commit is refused only because another client's came
\* first.
RefusedOnlyByOthers ==
    [][\A c \in Client :
           status[c] = "sending" /\ status'[c] = "panicked" =>
               \E i \in (version[c] + 1)..latestVersion : author[i] # c]_vars

-----------------------------------------------------------------------------
(* Refinement *)

\* The version that the open transaction of c sees.
View ==
    [c \in Client |->
        IF status[c] = "pulling" THEN floor[c]
        ELSE IF Locks(c) # 0 \/ (status[c] = "sending" /\ sent[c] = 0)
        THEN version[c] ELSE None]

Store == INSTANCE OptimisticStore WITH version <- latestVersion, view <- View

\* Clients, replicas and logs together behave like one store with optimistic
\* transactions.
ImplementsStore == Store!Spec
=============================================================================
