---------------------------- MODULE Dockerloader ----------------------------
(***************************************************************************)
(* The self-updating container of dockerloader: the supervisor (main.rs),  *)
(* the application it spawns (init_dockerloaded, mark_ready and            *)
(* start_update_loop of lib.rs), the files under /data/dockerloader they   *)
(* talk through, the image storage, and the `cli` passthrough.             *)
(*                                                                         *)
(* Every change of a file is a step of its own, and the container may be   *)
(* killed between any two steps: supervisor and application vanish, the    *)
(* files stay, and docker starts the container again (--restart always).   *)
(***************************************************************************)
EXTENDS Naturals, FiniteSets

CONSTANTS
    Version,       \* image digests ("sha")
    Blob,          \* layer digests
    LayersOf,      \* LayersOf[v]: the layers of the manifest of v
    Broken,        \* versions that die or hang before they call mark_ready
    Indexed,       \* versions published as an image index: the reference that
                   \* download_manifest returns for them is pinned by digest
    MaxPublish,    \* bound: times the tag is moved
    MaxFaults,     \* bound: kills, network errors, late or failing applications
    None

ASSUME ConstantsAssumption ==
    /\ None \notin Version
    /\ LayersOf \in [Version -> SUBSET Blob]
    /\ Broken \subseteq Version
    /\ Indexed \subseteq Version
    /\ MaxPublish \in Nat
    /\ MaxFaults \in Nat

VARIABLES
    tag,           \* what DOCKERLOADER_TARGET resolves to in the registry
    published,     \* history: every version the tag has named
    entrypoint,    \* target of the symlink entrypoint
    attempt,       \* target of the symlink entrypoint-attempt
    attempting,    \* target of the symlink entrypoint-attempting
    tmplink,       \* target of the symlink entrypoint-attempt.tmp
    marker,        \* content of the file update-attempt
    extracted,     \* extracted/<sha>
    manifests,     \* images/<sha>
    blobs,         \* blobs/<digest>
    sup,           \* the supervisor's place in main
    app,           \* the application's place in its main
    running,       \* the version of the application process
    trial,         \* is DOCKERLOADER_TRIAL set for it?
    looping,       \* has it finished mark_ready and entered the update loop?
    fetch,         \* place in download_image and extract_image
    want,          \* the sha to extract
    got,           \* the sha that download_image is storing
    cli,           \* one invocation of /bin/cli: its place, the version it executes
    tried,         \* history: versions the supervisor has spawned in trial mode
    deleteFailed,  \* history: has cleanup_storage ignored an error?
    pushes, faults \* what is used of MaxPublish and MaxFaults

links == <<entrypoint, attempt, attempting, tmplink, marker>>
storage == <<extracted, manifests, blobs>>
process == <<app, running, trial, looping>>
download == <<fetch, want, got>>
history == <<tried, deleteFailed, pushes, faults>>
registry == <<tag, published>>
vars == <<registry, links, storage, sup, process, download, cli, history>>

Link == Version \cup {None}

\* A directory being removed first loses files the program needs ("damaged"),
\* then its entrypoint binary ("stump").
DirState == {"absent", "stump", "damaged", "full"}

\* A blob at its final name: "inflight" until the last write, which nobody
\* awaits, has reached the file; "torn" if the process ended before that.
BlobState == {"absent", "inflight", "torn", "full"}

SupState == {"down", "boot", "install", "loop", "spawn", "spawntrial", "run",
             "trial", "killing", "committed"}

AppState == {"none", "init", "unmark", "cleanExtracted", "cleanManifests",
             "cleanBlobs", "check", "update", "link", "swap", "exit42",
             "fail", "serving"}

\* "exec": the entrypoint was found; "init": it runs, in init_dockerloaded.
CliState == {"idle", "waiting", "exec", "init", "gaveup", "error"}

NoCli == [at |-> "idle", of |-> None]

TypeOK ==
    /\ tag \in Version /\ published \subseteq Version
    /\ entrypoint \in Link /\ attempt \in Link /\ attempting \in Link
    /\ tmplink \in Link /\ marker \in Link
    /\ extracted \in [Version -> DirState]
    /\ manifests \subseteq Version
    /\ blobs \in [Blob -> BlobState]
    /\ sup \in SupState
    /\ app \in AppState
    /\ running \in Link
    /\ trial \in BOOLEAN /\ looping \in BOOLEAN
    /\ fetch \in {"idle", "pull", "layers", "extract", "done"}
    /\ want \in Link /\ got \in Link
    /\ cli \in [at : CliState, of : Link]
    /\ tried \subseteq Version /\ deleteFailed \in BOOLEAN
    /\ pushes \in 0..MaxPublish
    /\ faults \in 0..MaxFaults

Init ==
    /\ tag \in Version \ Broken
    /\ published = {tag}
    /\ entrypoint = None /\ attempt = None /\ attempting = None
    /\ tmplink = None /\ marker = None
    /\ extracted = [v \in Version |-> "absent"]
    /\ manifests = {}
    /\ blobs = [b \in Blob |-> "absent"]
    /\ sup = "boot"
    /\ app = "none" /\ running = None /\ trial = FALSE /\ looping = FALSE
    /\ fetch = "idle" /\ want = None /\ got = None
    /\ cli = NoCli
    /\ tried = {} /\ deleteFailed = FALSE /\ pushes = 0 /\ faults = 0

-----------------------------------------------------------------------------
(* Helpers *)

\* try_exists follows the link: it is false for a missing link and for one
\* whose target, extracted/<sha>/entrypoint, is not there.
Resolves(l) == l \in Version /\ extracted[l] \in {"damaged", "full"}

Fault == faults < MaxFaults /\ faults' = faults + 1

NoFault == UNCHANGED faults

\* A process ends: each write still in flight is lost or has just landed.
SettleBlobs ==
    \E lost \in SUBSET {b \in Blob : blobs[b] = "inflight"} :
        blobs' = [b \in Blob |-> IF b \in lost THEN "torn"
                                 ELSE IF blobs[b] = "inflight" THEN "full"
                                 ELSE blobs[b]]

NoProcess ==
    /\ app' = "none" /\ running' = None /\ trial' = FALSE /\ looping' = FALSE
    /\ fetch' = "idle" /\ want' = None /\ got' = None
    /\ SettleBlobs

\* The supervisor is the container's first process: all others end with it.
ContainerStops == sup' = "down" /\ NoProcess /\ cli' = NoCli

\* An error leaves check_for_update (or download_entrypoint_initial): main of
\* the supervisor ends, the update loop logs it and goes on, and mark_ready
\* hands it to the application's main, which ends.
ErrorOut ==
    \/ sup = "install" /\ ContainerStops
    \/ /\ sup # "install"
       /\ app' = IF looping THEN "serving" ELSE "fail"
       /\ fetch' = "idle" /\ want' = None /\ got' = None
       /\ UNCHANGED <<sup, running, trial, looping, blobs, cli>>

-----------------------------------------------------------------------------
(* The registry and docker *)

Publish(v) ==
    /\ pushes < MaxPublish /\ v # tag
    /\ tag' = v /\ published' = published \cup {v} /\ pushes' = pushes + 1
    /\ UNCHANGED <<links, storage, sup, process, download, cli, tried, deleteFailed, faults>>

\* docker run --restart always
Restart ==
    /\ sup = "down" /\ sup' = "boot"
    /\ UNCHANGED <<registry, links, storage, process, download, cli, history>>

Kill ==
    /\ sup # "down" /\ Fault /\ ContainerStops
    /\ UNCHANGED <<registry, links, extracted, manifests, tried, deleteFailed, pushes>>

-----------------------------------------------------------------------------
(* download_image and extract_image, called by the supervisor and the app *)

PullManifest ==
    /\ fetch = "pull"
    /\ LET sha == IF want \in Indexed THEN want ELSE tag IN
         /\ got' = sha
         /\ want' = IF want = None THEN sha ELSE want
    /\ fetch' = "layers"
    /\ UNCHANGED <<registry, links, storage, sup, process, cli, history>>

\* A blob that exists is not fetched again. A new one is renamed to its final
\* name while its last write may still be in flight.
DownloadLayer(b) ==
    /\ fetch = "layers" /\ b \in LayersOf[got] /\ blobs[b] = "absent"
    /\ blobs' = [blobs EXCEPT ![b] = "inflight"]
    /\ UNCHANGED <<registry, links, extracted, manifests, sup, process, download,
                   cli, history>>

FlushBlob(b) ==
    /\ blobs[b] = "inflight"
    /\ blobs' = [blobs EXCEPT ![b] = "full"]
    /\ UNCHANGED <<registry, links, extracted, manifests, sup, process, download,
                   cli, history>>

SaveManifest ==
    /\ fetch = "layers" /\ \A b \in LayersOf[got] : blobs[b] # "absent"
    /\ manifests' = manifests \cup {got}
    /\ fetch' = "extract"
    /\ UNCHANGED <<registry, links, extracted, blobs, sup, process, want, got, cli,
                   history>>

\* Every layer of want can be read to its end.
Unpackable == want \in manifests /\ \A b \in LayersOf[want] : blobs[b] = "full"

\* Unpacking happens in a tmp- directory that is renamed when it is complete;
\* a directory already there is taken as it is.
ExtractImage ==
    /\ fetch = "extract"
    /\ \/ extracted[want] # "absent" /\ UNCHANGED extracted
       \/ /\ extracted[want] = "absent" /\ Unpackable
          /\ extracted' = [extracted EXCEPT ![want] = "full"]
    /\ fetch' = "done"
    /\ UNCHANGED <<registry, links, manifests, blobs, sup, process, want, got, cli,
                   history>>

\* The network fails; or a layer cannot be unpacked, because it was read before
\* its last write landed (a slow disk), is torn, or the tag has moved to another
\* image between the two pulls of the manifest.
FetchError ==
    /\ \/ fetch \in {"pull", "layers"} /\ Fault
       \/ /\ fetch = "extract" /\ extracted[want] = "absent" /\ ~Unpackable
          /\ IF want \in manifests /\ \A b \in LayersOf[want] : blobs[b] \in {"inflight", "full"}
               THEN Fault ELSE NoFault
    /\ ErrorOut
    /\ UNCHANGED <<registry, links, extracted, manifests, tried, deleteFailed, pushes>>

-----------------------------------------------------------------------------
(* The supervisor: main *)

Boot ==
    /\ sup = "boot"
    /\ \/ Resolves(entrypoint) /\ sup' = "loop" /\ UNCHANGED fetch
       \/ ~Resolves(entrypoint) /\ sup' = "install" /\ fetch' = "pull"
    /\ UNCHANGED <<registry, links, storage, process, want, got, cli, history>>

\* The end of download_entrypoint_initial: symlink fails if the name is taken.
InstallEntrypoint ==
    /\ sup = "install" /\ fetch = "done"
    /\ \/ /\ entrypoint = None /\ entrypoint' = want
          /\ sup' = "loop" /\ fetch' = "idle" /\ want' = None /\ got' = None
          /\ UNCHANGED <<blobs, process, cli>>
       \/ /\ entrypoint # None /\ ContainerStops /\ UNCHANGED entrypoint
    /\ UNCHANGED <<registry, attempt, attempting, tmplink, marker, extracted,
                   manifests, history>>

\* Mutant: entrypoint-attempt is copied instead of renamed.
TakeAttempt_Copies ==
    /\ sup = "loop"
    /\ \/ Resolves(attempt) /\ attempting' = attempt /\ sup' = "spawntrial"
       \/ ~Resolves(attempt) /\ sup' = "spawn" /\ UNCHANGED attempting
    /\ UNCHANGED <<registry, entrypoint, attempt, tmplink, marker, storage, process,
                   download, cli, history>>

TakeAttempt ==
    /\ sup = "loop"
    /\ \/ /\ Resolves(attempt)
          /\ attempting' = attempt /\ attempt' = None /\ sup' = "spawntrial"
       \/ /\ ~Resolves(attempt)
          /\ sup' = "spawn" /\ UNCHANGED <<attempt, attempting>>
    /\ UNCHANGED <<registry, entrypoint, tmplink, marker, storage, process, download,
                   cli, history>>

\* Starting a link whose target is gone is an error that ends the supervisor.
Spawn(link, isTrial, next) ==
    \/ /\ Resolves(link)
       /\ app' = "init" /\ running' = link /\ trial' = isTrial /\ sup' = next
       /\ UNCHANGED <<looping, download, blobs, cli>>
    \/ ~Resolves(link) /\ ContainerStops

SpawnEntrypoint ==
    /\ sup = "spawn" /\ Spawn(entrypoint, FALSE, "run")
    /\ UNCHANGED <<registry, links, extracted, manifests, history>>

SpawnTrial ==
    /\ sup = "spawntrial" /\ Spawn(attempting, TRUE, "trial")
    /\ tried' = IF Resolves(attempting) THEN tried \cup {attempting} ELSE tried
    /\ UNCHANGED <<registry, links, extracted, manifests, deleteFailed,
                   pushes, faults>>

\* Mutant: a child that is still in its trial after the timeout is waited for.
TrialTimeout_Waits ==
    /\ sup = "trial" /\ sup' = "committed" /\ NoFault
    /\ UNCHANGED <<registry, links, storage, process, download, cli, tried,
                   deleteFailed, pushes>>

\* The sleep of the select! ends first. For a version that can become ready
\* that is a fault (it was too slow).
TrialTimeout ==
    /\ sup = "trial"
    /\ \/ /\ Resolves(attempting) /\ sup' = "killing"
          /\ IF running \in Broken THEN NoFault ELSE Fault
       \/ ~Resolves(attempting) /\ sup' = "committed" /\ NoFault
    /\ UNCHANGED <<registry, links, storage, process, download, cli, tried, deleteFailed, pushes>>

\* child.kill() and bail!, whatever the child has done since the timeout.
KillChild ==
    /\ sup = "killing" /\ ContainerStops
    /\ UNCHANGED <<registry, links, extracted, manifests, history>>

\* Mutant: exit code 42 respawns the entrypoint without looking for an attempt.
ChildExits_Respawns ==
    /\ sup \in {"run", "trial", "committed"}
    /\ \/ app = "exit42" /\ sup' = "spawn" /\ NoProcess /\ UNCHANGED cli
       \/ app = "fail" /\ ContainerStops
    /\ UNCHANGED <<registry, links, extracted, manifests, history>>

\* child.wait() returns: exit code 42 starts the loop again, any other ends
\* the supervisor with it.
ChildExits ==
    /\ sup \in {"run", "trial", "committed"}
    /\ \/ app = "exit42" /\ sup' = "loop" /\ NoProcess /\ UNCHANGED cli
       \/ app = "fail" /\ ContainerStops
    /\ UNCHANGED <<registry, links, extracted, manifests, history>>

-----------------------------------------------------------------------------
(* The application: init_dockerloaded, mark_ready *)

\* It fails before mark_ready, or stops for a reason of its own later.
AppFails ==
    /\ app \in {"init", "serving"} /\ app' = "fail"
    /\ IF app = "init" /\ running \in Broken THEN NoFault ELSE Fault
    /\ UNCHANGED <<registry, links, storage, sup, running, trial, looping, download,
                   cli, tried, deleteFailed, pushes>>

\* Mutant: cleanup and update check run without committing the trial first.
MarkReady_NoCommit ==
    /\ app = "init" /\ running \notin Broken /\ app' = "cleanExtracted"
    /\ UNCHANGED <<registry, links, storage, sup, running, trial, looping, download,
                   cli, history>>

\* Mutant: only a committed trial cleans the storage.
MarkReady_NoCleanup ==
    /\ app = "init" /\ running \notin Broken
    /\ \/ /\ trial /\ Resolves(attempting)
          /\ entrypoint' = attempting /\ attempting' = None /\ app' = "unmark"
       \/ /\ ~(trial /\ Resolves(attempting))
          /\ app' = "check" /\ UNCHANGED <<entrypoint, attempting>>
    /\ UNCHANGED <<registry, attempt, tmplink, marker, storage, sup, running, trial,
                   looping, download, cli, history>>

\* Mutant: DOCKERLOADER_TRIAL is not consulted, only the link.
MarkReady_AnyMode ==
    /\ app = "init" /\ running \notin Broken
    /\ \/ /\ Resolves(attempting)
          /\ entrypoint' = attempting /\ attempting' = None /\ app' = "unmark"
       \/ /\ ~Resolves(attempting)
          /\ app' = "cleanExtracted" /\ UNCHANGED <<entrypoint, attempting>>
    /\ UNCHANGED <<registry, attempt, tmplink, marker, storage, sup, running, trial,
                   looping, download, cli, history>>

MarkReady ==
    /\ app = "init" /\ running \notin Broken
    /\ \/ /\ trial /\ Resolves(attempting)
          /\ entrypoint' = attempting /\ attempting' = None /\ app' = "unmark"
       \/ /\ ~(trial /\ Resolves(attempting))
          /\ app' = "cleanExtracted" /\ UNCHANGED <<entrypoint, attempting>>
    /\ UNCHANGED <<registry, attempt, tmplink, marker, storage, sup, running, trial,
                   looping, download, cli, history>>

RemoveMarker ==
    /\ app = "unmark" /\ marker' = None /\ app' = "cleanExtracted"
    /\ UNCHANGED <<registry, entrypoint, attempt, attempting, tmplink, storage, sup,
                   running, trial, looping, download, cli, history>>

\* Files of a directory disappear one after the other until it is gone.
LosesFiles(from, to) ==
    \/ from = "full" /\ to \in {"damaged", "stump", "absent"}
    \/ from = "damaged" /\ to \in {"stump", "absent"}
    \/ from = "stump" /\ to = "absent"

\* cleanup_storage(&[current_sha]): all but the running version is removed.
CleanExtracted ==
    /\ app = "cleanExtracted"
    /\ \E v \in Version \ {running}, s \in DirState :
          /\ LosesFiles(extracted[v], s)
          /\ extracted' = [extracted EXCEPT ![v] = s]
    /\ UNCHANGED <<registry, links, manifests, blobs, sup, process, download, cli,
                   history>>

CleanManifest ==
    /\ app = "cleanManifests"
    /\ \E v \in manifests \ {running} : manifests' = manifests \ {v}
    /\ UNCHANGED <<registry, links, extracted, blobs, sup, process, download, cli,
                   history>>

\* Without the manifest of the running version no blob counts as referenced.
Unreferenced ==
    {b \in Blob : blobs[b] # "absent"}
        \ (IF running \in manifests THEN LayersOf[running] ELSE {})

CleanBlob ==
    /\ app = "cleanBlobs"
    /\ \E b \in Unreferenced : blobs' = [blobs EXCEPT ![b] = "absent"]
    /\ UNCHANGED <<registry, links, extracted, manifests, sup, process, download,
                   cli, history>>

\* A phase ends when nothing is left to delete, or, the errors of deletes being
\* ignored, with something left.
PhaseDone(done) ==
    \/ done /\ NoFault /\ UNCHANGED deleteFailed
    \/ ~done /\ Fault /\ deleteFailed' = TRUE

CleanNext ==
    /\ \/ /\ app = "cleanExtracted" /\ app' = "cleanManifests"
          /\ PhaseDone(\A v \in Version \ {running} : extracted[v] = "absent")
       \/ /\ app = "cleanManifests" /\ app' = "cleanBlobs"
          /\ PhaseDone(manifests \subseteq {running})
       \/ /\ app = "cleanBlobs" /\ app' = "check" /\ PhaseDone(Unreferenced = {})
    /\ UNCHANGED <<registry, links, storage, sup, running, trial, looping, download,
                   cli, tried, pushes>>

-----------------------------------------------------------------------------
(* The application: check_for_update and start_update_loop *)

\* The tag is up to date or its version is the one of the marker: Ok(()).
CheckSkips ==
    /\ app = "check" /\ tag \in {running, marker}
    /\ app' = "serving" /\ looping' = TRUE
    /\ UNCHANGED <<registry, links, storage, sup, running, trial, download, cli,
                   history>>

\* Mutant: the marker of the failed attempt is not consulted.
CheckFindsUpdate_NoMarker ==
    /\ app = "check" /\ tag # running
    /\ want' = tag /\ fetch' = "pull" /\ app' = "update"
    /\ UNCHANGED <<registry, links, storage, sup, running, trial, looping, got, cli,
                   history>>

CheckFindsUpdate ==
    /\ app = "check" /\ tag \notin {running, marker}
    /\ want' = tag /\ fetch' = "pull" /\ app' = "update"
    /\ UNCHANGED <<registry, links, storage, sup, running, trial, looping, got, cli,
                   history>>

CheckError ==
    /\ app = "check" /\ Fault /\ ErrorOut
    /\ UNCHANGED <<registry, links, extracted, manifests, tried, deleteFailed, pushes>>

WriteMarker ==
    /\ app = "update" /\ fetch = "done"
    /\ marker' = want /\ app' = "link" /\ fetch' = "idle" /\ got' = None
    /\ UNCHANGED <<registry, entrypoint, attempt, attempting, tmplink, storage, sup,
                   running, trial, looping, want, cli, history>>

\* A temporary link left over by an earlier process is removed first, but only
\* if try_exists can follow it; symlink fails on a dangling one.
CreateTmpLink ==
    /\ app = "link"
    /\ \/ /\ tmplink = None \/ Resolves(tmplink)
          /\ tmplink' = want /\ app' = "swap"
          /\ UNCHANGED <<sup, running, trial, looping, download, blobs, cli>>
       \/ /\ tmplink # None /\ ~Resolves(tmplink) /\ ErrorOut /\ UNCHANGED tmplink
    /\ UNCHANGED <<registry, entrypoint, attempt, attempting, marker, extracted,
                   manifests, history>>

RenameTmpLink ==
    /\ app = "swap"
    /\ attempt' = tmplink /\ tmplink' = None /\ app' = "exit42" /\ want' = None
    /\ UNCHANGED <<registry, entrypoint, attempting, marker, storage, sup, running,
                   trial, looping, fetch, got, cli, history>>

Tick ==
    /\ app = "serving" /\ app' = "check"
    /\ UNCHANGED <<registry, links, storage, sup, running, trial, looping, download,
                   cli, history>>

-----------------------------------------------------------------------------
(* docker exec <container> cli: run_cli_mode *)

CliStart ==
    /\ cli.at = "idle" /\ sup # "down"
    /\ cli' = [cli EXCEPT !.at = IF Resolves(entrypoint) THEN "exec" ELSE "waiting"]
    /\ UNCHANGED <<registry, links, storage, sup, process, download, history>>

CliPoll ==
    /\ cli.at = "waiting" /\ Resolves(entrypoint)
    /\ cli' = [cli EXCEPT !.at = "exec"]
    /\ UNCHANGED <<registry, links, storage, sup, process, download, history>>

\* 60 seconds have passed.
CliGivesUp ==
    /\ cli.at = "waiting" /\ ~Resolves(entrypoint)
    /\ cli' = [cli EXCEPT !.at = "gaveup"]
    /\ UNCHANGED <<registry, links, storage, sup, process, download, history>>

\* execv follows the link now; the process keeps the version it then names.
CliExec ==
    /\ cli.at = "exec"
    /\ cli' = IF Resolves(entrypoint) THEN [at |-> "init", of |-> entrypoint]
              ELSE [cli EXCEPT !.at = "error"]
    /\ UNCHANGED <<registry, links, storage, sup, process, download, history>>

\* The program's init_dockerloaded reads .env in the directory of the version it
\* was started from, and cannot start without it. In a directory that is being
\* removed the file may be gone or not.
CliInit ==
    /\ cli.at = "init"
    /\ \/ extracted[cli.of] # "absent" /\ cli' = NoCli
       \/ extracted[cli.of] # "full" /\ cli' = [cli EXCEPT !.at = "error"]
    /\ UNCHANGED <<registry, links, storage, sup, process, download, history>>

CliEnds ==
    /\ cli.at \in {"gaveup", "error"} /\ cli' = NoCli
    /\ UNCHANGED <<registry, links, storage, sup, process, download, history>>

-----------------------------------------------------------------------------
SupStep ==
    \/ Restart \/ Boot \/ InstallEntrypoint \/ TakeAttempt
    \/ SpawnEntrypoint \/ SpawnTrial
    \/ TrialTimeout \/ KillChild \/ ChildExits

FetchStep ==
    \/ PullManifest \/ SaveManifest \/ ExtractImage \/ FetchError
    \/ \E b \in Blob : DownloadLayer(b)

AppStep ==
    \/ MarkReady \/ RemoveMarker
    \/ CleanExtracted \/ CleanManifest \/ CleanBlob \/ CleanNext
    \/ CheckSkips \/ CheckFindsUpdate \/ WriteMarker \/ CreateTmpLink
    \/ RenameTmpLink \/ Tick

CliStep == CliStart \/ CliPoll \/ CliGivesUp \/ CliExec \/ CliInit \/ CliEnds

Next ==
    \/ SupStep \/ FetchStep \/ AppStep \/ CliStep
    \/ \E b \in Blob : FlushBlob(b)
    \/ \E v \in Version : Publish(v)
    \/ Kill \/ AppFails \/ CheckError

\* Each process keeps running: the supervisor's loop and timer, a download, the
\* application once it can become ready, and writes handed to the kernel. No
\* fault, publication or cli call is promised.
Fairness ==
    /\ WF_vars(NoFault /\ SupStep)
    /\ WF_vars(NoFault /\ FetchStep)
    /\ WF_vars(NoFault /\ AppStep)
    /\ \A b \in Blob : WF_vars(FlushBlob(b))

Spec == Init /\ [][Next]_vars /\ Fairness

-----------------------------------------------------------------------------
(* Properties *)

\* Whatever is killed and whenever, the symlink `entrypoint` leads to a program
\* once it exists, and cleanup_storage never takes the running version's files.
EntrypointResolves ==
    /\ entrypoint # None => Resolves(entrypoint)
    /\ app # "none" => Resolves(running)

\* As long as no delete error was ignored, extract_image never reuses a directory
\* that a killed cleanup left half removed: what is stable, what is pending and
\* what is on trial is a complete image.
OnlyCompleteImages ==
    ~deleteFailed =>
        \A v \in Version \cap {entrypoint, attempt, running} : extracted[v] = "full"

\* run_cli_mode tests the link and executes it later, and the program it becomes
\* reads its own files later still, while updates swap the link and delete old
\* versions (main.rs has a TODO for this race). The exec itself never fails; after
\* it a cli fails to start only if its version was replaced since the exec, or an
\* ignored delete error has left the stable version incomplete.
CliFailsOnlyIfReplaced ==
    [][cli'.at = "error" /\ cli.at # "error" =>
          cli.at = "init" /\ (cli.of # entrypoint \/ deleteFailed)]_vars

\* A version that never gets as far as mark_ready never replaces a stable one,
\* although the link of its failed trial stays on disk.
BrokenNeverPromoted ==
    [][entrypoint # None /\ entrypoint' # entrypoint => entrypoint' \notin Broken]_vars

\* The uncommitted version on trial.
OnTrial == IF sup \in {"spawntrial", "trial", "killing"} THEN attempting ELSE None

Update == INSTANCE SafeUpdate WITH stable <- entrypoint, candidate <- OnTrial

\* Supervisor, application and files together implement the abstract update:
\* one candidate at a time, promoted or given up, never anything else.
ImplementsSafeUpdate == Update!Spec

Serving(v) == running = v /\ app \in {"serving", "check", "update", "link", "swap"}

\* Automatic rollback: when a version that does not become ready is tried, the
\* stable version is eventually serving again.
RollbackRestores ==
    \A v \in Version \ Broken :
        (entrypoint = v /\ OnTrial \in Broken) ~> (Serving(v) \/ entrypoint # v)

\* The tag may stay on a version that fails: it is not tried over and over.
NoFlapping == <>[](OnTrial = None)

\* If the first installation works and nothing goes wrong after it, the container
\* ends up with what the tag names, also when the tag moves during a download.
UpdateConverges ==
    [](faults = 0) /\ <>(entrypoint \in Version \ Broken)
        => <>[](tag \in Broken \/ entrypoint = tag)

\* README: new versions are trialed. The tag moves to a version the running
\* application has not marked, no delete ever failed, and nothing fails any more.
NewVersionTried ==
    \A v \in Version :
        (faults = MaxFaults /\ ~deleteFailed /\ app = "serving" /\ tag = v
             /\ v \notin {running, marker})
            ~> (v \in tried \/ tag # v)

\* README: the supervisor downloads the runtime automatically.
InstallCompletes == <>(entrypoint # None)

-----------------------------------------------------------------------------
(* The inductive invariant, part by part *)

Alive == {"run", "trial", "killing", "committed"}

\* The application has passed the commit of mark_ready.
Ready == {"unmark", "cleanExtracted", "cleanManifests", "cleanBlobs", "check",
          "update", "link", "swap", "exit42", "serving"}

\* Which process can be where while the other is where.
ProcessInv ==
    /\ app = "none" <=> sup \notin Alive
    /\ app = "none" <=> running = None
    /\ sup \in {"trial", "killing", "committed"} => trial
    /\ sup = "run" => ~trial
    /\ sup = "install" \/ app = "update" <=> fetch # "idle"
    /\ app \in {"update", "link", "swap"} => want \in Version /\ want # running
    /\ app = "swap" => tmplink = want
    /\ fetch \in {"layers", "extract", "done"} => want \in Version /\ got \in Version
    /\ fetch = "pull" /\ sup = "install" => want = None
    /\ app \notin {"update", "link", "swap"} /\ sup # "install" => want = None

\* Before the first installation nothing was ever removed.
FreshInv ==
    entrypoint = None =>
        /\ sup \in {"down", "boot", "install"}
        /\ attempt = None /\ attempting = None
        /\ \A v \in Version : extracted[v] \in {"absent", "full"}
        /\ sup = "install" /\ fetch = "done" => extracted[want] = "full"

\* What is committed is what runs, and a trial runs what `attempting` names.
CommitInv ==
    /\ app \in Ready => entrypoint = running
    /\ app = "init" /\ ~trial => entrypoint = running
    /\ app = "init" /\ trial => attempting = running
    /\ sup \in {"trial", "killing"} /\ app \in Ready => attempting = None
    /\ sup = "spawntrial" => attempting # None /\ Resolves(attempting)
    /\ sup = "committed" => app # "init"

\* A pending or running attempt is for another version than the stable one.
AttemptInv ==
    /\ attempt # None => attempt # entrypoint
    /\ sup = "spawntrial" \/ (trial /\ app = "init") => attempt = None
    /\ sup = "install" => entrypoint = None
    /\ OnTrial # None => OnTrial # entrypoint

\* Everything on disk was published.
PublishedInv ==
    \A l \in {tag, entrypoint, attempt, attempting, tmplink, want, got} :
        l # None => l \in published

\* Half removed directories exist only until the next cleanup has passed them.
CompleteInv ==
    ~deleteFailed =>
        /\ app \in Ready \ {"unmark", "cleanExtracted"} =>
               \A v \in Version : extracted[v] \in {"absent", "full"}
        /\ fetch = "done" \/ app \in {"link", "swap"} => extracted[want] = "full"
        /\ sup = "spawntrial" => extracted[attempting] = "full"
        /\ sup \in Alive \cup {"spawn", "spawntrial"} /\ app # "exit42" => attempt = None

\* A link that was found stays; a running cli has a version.
CliInv ==
    /\ cli.at = "exec" => entrypoint # None
    /\ cli.at = "init" => cli.of \in Version

\* All of it together is preserved by every step.
IndInv ==
    /\ TypeOK /\ ProcessInv /\ FreshInv /\ CommitInv /\ AttemptInv /\ PublishedInv
    /\ EntrypointResolves /\ CompleteInv /\ OnlyCompleteImages /\ CliInv
=============================================================================
