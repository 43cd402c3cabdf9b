------------------------- MODULE DockerloaderProofs -------------------------
(***************************************************************************)
(* For any versions, layers and bounds: IndInv is an inductive invariant   *)
(* of the self-updating container, and the safety properties and the       *)
(* step simulation of SafeUpdate follow from it. One lemma per action.     *)
(***************************************************************************)
EXTENDS Dockerloader, TLAPS

USE ConstantsAssumption
    DEF Link, DirState, BlobState, SupState, AppState, Alive, Ready, Resolves,
        OnTrial, links, storage, process, download, history, registry

-----------------------------------------------------------------------------
(* What holds when the container stops *)

\* No cli is a state of the cli.
LEMMA NoCliOK == NoCli \in [at : CliState, of : Link] /\ NoCli.at = "idle"
  BY DEF NoCli, CliState

\* A blob is in one of its states after the in-flight writes are settled.
LEMMA SettledBlobs ==
  ASSUME TypeOK, SettleBlobs
  PROVE  blobs' \in [Blob -> BlobState]
<1>1. PICK lost \in SUBSET {b \in Blob : blobs[b] = "inflight"} :
        blobs' = [b \in Blob |-> IF b \in lost THEN "torn"
                                 ELSE IF blobs[b] = "inflight" THEN "full"
                                 ELSE blobs[b]]
  BY DEF SettleBlobs
<1> QED
  BY <1>1 DEF TypeOK

\* Stopping all processes at any moment preserves the invariant: only files
\* are left, and no part of IndInv relies on a process to repair them.
LEMMA StopPreserves ==
  ASSUME IndInv, ContainerStops, faults' \in 0..MaxFaults,
         UNCHANGED <<registry, links, extracted, manifests, tried, deleteFailed, pushes>>
  PROVE  IndInv'
<1>1. TypeOK'
  <2>1. blobs' \in [Blob -> BlobState]
    BY SettledBlobs DEF IndInv, ContainerStops, NoProcess
  <2> QED
    BY <2>1, NoCliOK DEF IndInv, TypeOK, ContainerStops, NoProcess
<1>2. ProcessInv' /\ CliInv'
  BY NoCliOK DEF IndInv, ProcessInv, CliInv, ContainerStops, NoProcess
<1>3. FreshInv' /\ CommitInv' /\ AttemptInv'
  BY DEF IndInv, TypeOK, FreshInv, CommitInv, AttemptInv, ContainerStops, NoProcess
<1>4. PublishedInv'
  BY DEF IndInv, PublishedInv, ContainerStops, NoProcess
<1>5. EntrypointResolves' /\ CompleteInv' /\ OnlyCompleteImages'
  BY DEF IndInv, TypeOK, EntrypointResolves, CompleteInv, OnlyCompleteImages,
         ContainerStops, NoProcess
<1> QED
  BY <1>1, <1>2, <1>3, <1>4, <1>5 DEF IndInv

-----------------------------------------------------------------------------
(* The registry, docker and the downloads *)

\* Moving the tag in the registry preserves IndInv.
LEMMA PublishPreserves == ASSUME IndInv, \E v \in Version : Publish(v) PROVE IndInv'
  BY DEF Publish, IndInv, TypeOK, ProcessInv, FreshInv, CommitInv, AttemptInv,
         PublishedInv, EntrypointResolves, CompleteInv, OnlyCompleteImages,
         CliInv

\* docker starting the container again preserves IndInv.
LEMMA RestartPreserves == ASSUME IndInv, Restart PROVE IndInv'
  BY DEF Restart, IndInv, TypeOK, ProcessInv, FreshInv, CommitInv, AttemptInv,
         PublishedInv, EntrypointResolves, CompleteInv, OnlyCompleteImages,
         CliInv

\* Killing the container at any moment preserves IndInv.
LEMMA KillPreserves == ASSUME IndInv, Kill PROVE IndInv'
  BY StopPreserves DEF Kill, Fault, IndInv, TypeOK

\* The second pull of the manifest, in download_image, preserves IndInv.
LEMMA PullManifestPreserves == ASSUME IndInv, PullManifest PROVE IndInv'
  BY DEF PullManifest, IndInv, TypeOK, ProcessInv, FreshInv, CommitInv,
         AttemptInv, PublishedInv, EntrypointResolves, CompleteInv,
         OnlyCompleteImages, CliInv

\* Storing a layer under its final name preserves IndInv.
LEMMA DownloadLayerPreserves == ASSUME IndInv, \E b \in Blob : DownloadLayer(b) PROVE IndInv'
  BY DEF DownloadLayer, IndInv, TypeOK, ProcessInv, FreshInv, CommitInv,
         AttemptInv, PublishedInv, EntrypointResolves, CompleteInv,
         OnlyCompleteImages, CliInv

\* The last write of a layer reaching its file preserves IndInv.
LEMMA FlushBlobPreserves == ASSUME IndInv, \E b \in Blob : FlushBlob(b) PROVE IndInv'
  BY DEF FlushBlob, IndInv, TypeOK, ProcessInv, FreshInv, CommitInv,
         AttemptInv, PublishedInv, EntrypointResolves, CompleteInv,
         OnlyCompleteImages, CliInv

\* Renaming the manifest to images/<sha> preserves IndInv.
LEMMA SaveManifestPreserves == ASSUME IndInv, SaveManifest PROVE IndInv'
  BY DEF SaveManifest, IndInv, TypeOK, ProcessInv, FreshInv, CommitInv,
         AttemptInv, PublishedInv, EntrypointResolves, CompleteInv,
         OnlyCompleteImages, CliInv

\* Unpacking, or reusing, extracted/<sha> preserves IndInv.
LEMMA ExtractImagePreserves == ASSUME IndInv, ExtractImage PROVE IndInv'
  BY DEF ExtractImage, Unpackable, IndInv, TypeOK, ProcessInv, FreshInv,
         CommitInv, AttemptInv, PublishedInv, EntrypointResolves, CompleteInv,
         OnlyCompleteImages, CliInv

\* A download or extraction that fails preserves IndInv.
LEMMA FetchErrorPreserves == ASSUME IndInv, FetchError PROVE IndInv'
<1>1. faults' \in 0..MaxFaults
  BY DEF FetchError, Fault, NoFault, IndInv, TypeOK
<1>2. CASE ContainerStops
  BY <1>1, <1>2, StopPreserves DEF FetchError
<1>3. CASE ~ContainerStops
  BY <1>1, <1>3 DEF FetchError, ErrorOut, IndInv, TypeOK, ProcessInv,
         FreshInv, CommitInv, AttemptInv, PublishedInv, EntrypointResolves,
         CompleteInv, OnlyCompleteImages, CliInv
<1> QED
  BY <1>2, <1>3

-----------------------------------------------------------------------------
(* The supervisor *)

\* The supervisor's look at the entrypoint preserves IndInv.
LEMMA BootPreserves == ASSUME IndInv, Boot PROVE IndInv'
  BY DEF Boot, IndInv, TypeOK, ProcessInv, FreshInv, CommitInv, AttemptInv,
         PublishedInv, EntrypointResolves, CompleteInv, OnlyCompleteImages,
         CliInv

\* The symlink of the first installation preserves IndInv.
LEMMA InstallEntrypointPreserves == ASSUME IndInv, InstallEntrypoint PROVE IndInv'
  BY DEF InstallEntrypoint, ContainerStops, NoProcess, SettleBlobs, IndInv,
         TypeOK, ProcessInv, FreshInv, CommitInv, AttemptInv, PublishedInv,
         EntrypointResolves, CompleteInv, OnlyCompleteImages, CliInv

\* Renaming entrypoint-attempt to entrypoint-attempting preserves IndInv.
LEMMA TakeAttemptPreserves == ASSUME IndInv, TakeAttempt PROVE IndInv'
  BY DEF TakeAttempt, IndInv, TypeOK, ProcessInv, FreshInv, CommitInv,
         AttemptInv, PublishedInv, EntrypointResolves, CompleteInv,
         OnlyCompleteImages, CliInv

\* Spawning the stable version preserves IndInv.
LEMMA SpawnEntrypointPreserves == ASSUME IndInv, SpawnEntrypoint PROVE IndInv'
<1>1. Resolves(entrypoint)
  BY DEF SpawnEntrypoint, IndInv, ProcessInv, FreshInv, CommitInv, EntrypointResolves
<1>10. TypeOK'
  <2>1. trial' \in BOOLEAN
    BY <1>1 DEF SpawnEntrypoint, Spawn
  <2>2. /\ running' \in Link /\ app' \in AppState /\ sup' \in SupState
        /\ tried' \subseteq Version
    BY <1>1 DEF SpawnEntrypoint, Spawn, IndInv, TypeOK
  <2>3. UNCHANGED <<tag, published, links, storage, looping, download, cli,
                    deleteFailed, pushes, faults>>
    BY <1>1 DEF SpawnEntrypoint, Spawn
  <2> QED
    BY <2>1, <2>2, <2>3 DEF IndInv, TypeOK
<1>11. ProcessInv'
  BY <1>1 DEF SpawnEntrypoint, Spawn, IndInv, TypeOK, ProcessInv, CommitInv
<1>12. FreshInv' /\ CommitInv' /\ AttemptInv'
  BY <1>1 DEF SpawnEntrypoint, Spawn, IndInv, TypeOK, ProcessInv, FreshInv,
     CommitInv, AttemptInv, EntrypointResolves, CompleteInv
<1>13. PublishedInv' /\ CliInv'
  BY <1>1 DEF SpawnEntrypoint, Spawn, IndInv, TypeOK, PublishedInv, CliInv
<1>14. EntrypointResolves' /\ CompleteInv' /\ OnlyCompleteImages'
  BY <1>1 DEF SpawnEntrypoint, Spawn, IndInv, TypeOK, ProcessInv, FreshInv,
     CommitInv, AttemptInv, EntrypointResolves, CompleteInv,
     OnlyCompleteImages
<1> QED
  BY <1>10, <1>11, <1>12, <1>13, <1>14 DEF IndInv

\* Spawning a version in trial mode preserves IndInv.
LEMMA SpawnTrialPreserves == ASSUME IndInv, SpawnTrial PROVE IndInv'
<1>1. Resolves(attempting)
  BY DEF SpawnTrial, IndInv, ProcessInv, FreshInv, CommitInv, EntrypointResolves
<1>10. TypeOK'
  <2>1. trial' \in BOOLEAN
    BY <1>1 DEF SpawnTrial, Spawn
  <2>2. /\ running' \in Link /\ app' \in AppState /\ sup' \in SupState
        /\ tried' \subseteq Version
    BY <1>1 DEF SpawnTrial, Spawn, IndInv, TypeOK
  <2>3. UNCHANGED <<tag, published, links, storage, looping, download, cli,
                    deleteFailed, pushes, faults>>
    BY <1>1 DEF SpawnTrial, Spawn
  <2> QED
    BY <2>1, <2>2, <2>3 DEF IndInv, TypeOK
<1>11. ProcessInv'
  BY <1>1 DEF SpawnTrial, Spawn, IndInv, TypeOK, ProcessInv, CommitInv
<1>12. FreshInv' /\ CommitInv' /\ AttemptInv'
  BY <1>1 DEF SpawnTrial, Spawn, IndInv, TypeOK, ProcessInv, FreshInv,
     CommitInv, AttemptInv, EntrypointResolves, CompleteInv
<1>13. PublishedInv' /\ CliInv'
  BY <1>1 DEF SpawnTrial, Spawn, IndInv, TypeOK, PublishedInv, CliInv
<1>14. EntrypointResolves' /\ CompleteInv' /\ OnlyCompleteImages'
  BY <1>1 DEF SpawnTrial, Spawn, IndInv, TypeOK, ProcessInv, FreshInv,
     CommitInv, AttemptInv, EntrypointResolves, CompleteInv,
     OnlyCompleteImages
<1> QED
  BY <1>10, <1>11, <1>12, <1>13, <1>14 DEF IndInv

\* The end of the trial's timeout preserves IndInv.
LEMMA TrialTimeoutPreserves == ASSUME IndInv, TrialTimeout PROVE IndInv'
  BY DEF TrialTimeout, Fault, NoFault, IndInv, TypeOK, ProcessInv, FreshInv,
         CommitInv, AttemptInv, PublishedInv, EntrypointResolves, CompleteInv,
         OnlyCompleteImages, CliInv

\* Killing a child whose trial timed out preserves IndInv.
LEMMA KillChildPreserves == ASSUME IndInv, KillChild PROVE IndInv'
  BY StopPreserves DEF KillChild, IndInv, TypeOK

\* The exit of the child preserves IndInv.
LEMMA ChildExitsPreserves == ASSUME IndInv, ChildExits PROVE IndInv'
<1>1. CASE app = "fail"
  BY <1>1, StopPreserves DEF ChildExits, IndInv, TypeOK
<1>2. CASE app = "exit42" /\ sup' = "loop" /\ NoProcess /\ UNCHANGED cli
  <2>1. blobs' \in [Blob -> BlobState]
    BY <1>2, SettledBlobs DEF IndInv, NoProcess
  <2>10. TypeOK'
    BY <1>2, <2>1 DEF ChildExits, NoProcess, IndInv, TypeOK
  <2>11. ProcessInv'
    BY <1>2, <2>1 DEF ChildExits, NoProcess, IndInv, TypeOK, ProcessInv,
       CommitInv
  <2>12. FreshInv' /\ CommitInv' /\ AttemptInv'
    BY <1>2, <2>1 DEF ChildExits, NoProcess, IndInv, TypeOK, ProcessInv,
       FreshInv, CommitInv, AttemptInv, EntrypointResolves, CompleteInv
  <2>13. PublishedInv' /\ CliInv'
    BY <1>2, <2>1 DEF ChildExits, NoProcess, IndInv, TypeOK, PublishedInv,
       CliInv
  <2>14. EntrypointResolves' /\ CompleteInv' /\ OnlyCompleteImages'
    BY <1>2, <2>1 DEF ChildExits, NoProcess, IndInv, TypeOK, ProcessInv,
       FreshInv, CommitInv, AttemptInv, EntrypointResolves, CompleteInv,
       OnlyCompleteImages
  <2> QED
    BY <2>10, <2>11, <2>12, <2>13, <2>14 DEF IndInv
<1> QED
  BY <1>1, <1>2 DEF ChildExits

-----------------------------------------------------------------------------
(* The application *)

\* A failing application preserves IndInv.
LEMMA AppFailsPreserves == ASSUME IndInv, AppFails PROVE IndInv'
<1>1. faults' \in 0..MaxFaults
  BY DEF AppFails, Fault, NoFault, IndInv, TypeOK
<1>10. TypeOK'
  BY <1>1 DEF AppFails, IndInv, TypeOK
<1>11. ProcessInv'
  BY <1>1 DEF AppFails, IndInv, TypeOK, ProcessInv, CommitInv
<1>12. FreshInv' /\ CommitInv' /\ AttemptInv'
  BY <1>1 DEF AppFails, IndInv, TypeOK, ProcessInv, FreshInv, CommitInv,
     AttemptInv, EntrypointResolves, CompleteInv
<1>13. PublishedInv' /\ CliInv'
  BY <1>1 DEF AppFails, IndInv, TypeOK, PublishedInv, CliInv
<1>14. EntrypointResolves' /\ CompleteInv' /\ OnlyCompleteImages'
  BY <1>1 DEF AppFails, IndInv, TypeOK, ProcessInv, FreshInv, CommitInv,
     AttemptInv, EntrypointResolves, CompleteInv, OnlyCompleteImages
<1> QED
  BY <1>10, <1>11, <1>12, <1>13, <1>14 DEF IndInv

\* The commit of mark_ready preserves IndInv.
LEMMA MarkReadyPreserves == ASSUME IndInv, MarkReady PROVE IndInv'
  BY DEF MarkReady, IndInv, TypeOK, ProcessInv, FreshInv, CommitInv,
         AttemptInv, PublishedInv, EntrypointResolves, CompleteInv,
         OnlyCompleteImages, CliInv

\* Removing update-attempt after the commit preserves IndInv.
LEMMA RemoveMarkerPreserves == ASSUME IndInv, RemoveMarker PROVE IndInv'
  BY DEF RemoveMarker, IndInv, TypeOK, ProcessInv, FreshInv, CommitInv,
         AttemptInv, PublishedInv, EntrypointResolves, CompleteInv,
         OnlyCompleteImages, CliInv

\* Removing files of an old extracted image preserves IndInv.
LEMMA CleanExtractedPreserves == ASSUME IndInv, CleanExtracted PROVE IndInv'
  BY DEF CleanExtracted, LosesFiles, IndInv, TypeOK, ProcessInv, FreshInv,
         CommitInv, AttemptInv, PublishedInv, EntrypointResolves, CompleteInv,
         OnlyCompleteImages, CliInv

\* Removing an old manifest preserves IndInv.
LEMMA CleanManifestPreserves == ASSUME IndInv, CleanManifest PROVE IndInv'
  BY DEF CleanManifest, IndInv, TypeOK, ProcessInv, FreshInv, CommitInv,
         AttemptInv, PublishedInv, EntrypointResolves, CompleteInv,
         OnlyCompleteImages, CliInv

\* Removing an unreferenced blob preserves IndInv.
LEMMA CleanBlobPreserves == ASSUME IndInv, CleanBlob PROVE IndInv'
  BY DEF CleanBlob, Unreferenced, IndInv, TypeOK, ProcessInv, FreshInv,
         CommitInv, AttemptInv, PublishedInv, EntrypointResolves, CompleteInv,
         OnlyCompleteImages, CliInv

\* The end of a cleanup phase, complete or not, preserves IndInv.
LEMMA CleanNextPreserves == ASSUME IndInv, CleanNext PROVE IndInv'
<1>1. faults' \in 0..MaxFaults
  BY DEF CleanNext, PhaseDone, Fault, NoFault, IndInv, TypeOK
<1>2. deleteFailed' \in BOOLEAN /\ (deleteFailed => deleteFailed')
  BY DEF CleanNext, PhaseDone, IndInv, TypeOK
<1>3. app = "cleanExtracted" /\ ~deleteFailed' =>
        \A v \in Version \ {running} : extracted[v] = "absent"
  BY DEF CleanNext, PhaseDone
<1>4. \/ app = "cleanExtracted" /\ app' = "cleanManifests"
      \/ app = "cleanManifests" /\ app' = "cleanBlobs"
      \/ app = "cleanBlobs" /\ app' = "check"
  BY DEF CleanNext
<1> QED
  BY <1>1, <1>2, <1>3, <1>4 DEF CleanNext, IndInv, TypeOK, ProcessInv,
         FreshInv, CommitInv, AttemptInv, PublishedInv, EntrypointResolves,
         CompleteInv, OnlyCompleteImages, CliInv

\* An update check that finds nothing to do preserves IndInv.
LEMMA CheckSkipsPreserves == ASSUME IndInv, CheckSkips PROVE IndInv'
  BY DEF CheckSkips, IndInv, TypeOK, ProcessInv, FreshInv, CommitInv,
         AttemptInv, PublishedInv, EntrypointResolves, CompleteInv,
         OnlyCompleteImages, CliInv

\* An update check that finds a new version preserves IndInv.
LEMMA CheckFindsUpdatePreserves == ASSUME IndInv, CheckFindsUpdate PROVE IndInv'
  BY DEF CheckFindsUpdate, IndInv, TypeOK, ProcessInv, FreshInv, CommitInv,
         AttemptInv, PublishedInv, EntrypointResolves, CompleteInv,
         OnlyCompleteImages, CliInv

\* An update check that cannot reach the registry preserves IndInv.
LEMMA CheckErrorPreserves == ASSUME IndInv, CheckError PROVE IndInv'
  BY DEF CheckError, Fault, ErrorOut, ContainerStops, NoProcess, SettleBlobs,
         IndInv, TypeOK, ProcessInv, FreshInv, CommitInv, AttemptInv,
         PublishedInv, EntrypointResolves, CompleteInv, OnlyCompleteImages,
         CliInv

\* Writing update-attempt preserves IndInv.
LEMMA WriteMarkerPreserves == ASSUME IndInv, WriteMarker PROVE IndInv'
  BY DEF WriteMarker, IndInv, TypeOK, ProcessInv, FreshInv, CommitInv,
         AttemptInv, PublishedInv, EntrypointResolves, CompleteInv,
         OnlyCompleteImages, CliInv

\* Creating the temporary link, or failing to, preserves IndInv.
LEMMA CreateTmpLinkPreserves == ASSUME IndInv, CreateTmpLink PROVE IndInv'
  BY DEF CreateTmpLink, ErrorOut, ContainerStops, NoProcess, SettleBlobs,
         IndInv, TypeOK, ProcessInv, FreshInv, CommitInv, AttemptInv,
         PublishedInv, EntrypointResolves, CompleteInv, OnlyCompleteImages,
         CliInv

\* Publishing the attempt by a rename preserves IndInv.
LEMMA RenameTmpLinkPreserves == ASSUME IndInv, RenameTmpLink PROVE IndInv'
  BY DEF RenameTmpLink, IndInv, TypeOK, ProcessInv, FreshInv, CommitInv,
         AttemptInv, PublishedInv, EntrypointResolves, CompleteInv,
         OnlyCompleteImages, CliInv

\* A tick of the update loop preserves IndInv.
LEMMA TickPreserves == ASSUME IndInv, Tick PROVE IndInv'
  BY DEF Tick, IndInv, TypeOK, ProcessInv, FreshInv, CommitInv, AttemptInv,
         PublishedInv, EntrypointResolves, CompleteInv, OnlyCompleteImages,
         CliInv

-----------------------------------------------------------------------------
(* The cli *)

\* Every step of the cli preserves IndInv.
LEMMA CliStepPreserves == ASSUME IndInv, CliStep PROVE IndInv'
<1>1. UNCHANGED <<registry, links, storage, sup, process, download, history>>
  BY DEF CliStep, CliStart, CliPoll, CliGivesUp, CliExec, CliInit, CliEnds
<1>2. cli' \in [at : CliState, of : Link] /\ CliInv'
  <2>1. cli \in [at : CliState, of : Link] /\ CliInv /\ entrypoint \in Link
    BY DEF IndInv, TypeOK
  <2>2. CASE CliStart \/ CliPoll \/ CliGivesUp
    BY <2>1, <2>2 DEF CliStart, CliPoll, CliGivesUp, CliInv, CliState
  <2>3. CASE CliExec
    BY <2>1, <2>3 DEF CliExec, CliInv, CliState
  <2>4. CASE CliInit \/ CliEnds
    BY <2>1, <2>4, NoCliOK DEF CliInit, CliEnds, CliInv, CliState
  <2> QED
    BY <2>2, <2>3, <2>4 DEF CliStep
<1>3. TypeOK'
  BY <1>1, <1>2 DEF IndInv, TypeOK
<1>4. ProcessInv' /\ FreshInv' /\ CommitInv' /\ AttemptInv' /\ PublishedInv'
      /\ EntrypointResolves' /\ CompleteInv' /\ OnlyCompleteImages'
  BY <1>1 DEF IndInv, ProcessInv, FreshInv, CommitInv, AttemptInv, PublishedInv,
       EntrypointResolves, CompleteInv, OnlyCompleteImages
<1> QED
  BY <1>2, <1>3, <1>4 DEF IndInv

-----------------------------------------------------------------------------
(* The theorems *)

\* A fresh volume satisfies the invariant.
LEMMA InitIndInv == Init => IndInv
<1> SUFFICES ASSUME Init PROVE IndInv
  OBVIOUS
<1>1. TypeOK
  <2>1. trial \in BOOLEAN /\ looping \in BOOLEAN /\ deleteFailed \in BOOLEAN
    BY DEF Init
  <2>2. blobs \in [Blob -> BlobState] /\ extracted \in [Version -> DirState]
    BY DEF Init
  <2> QED
    BY <2>1, <2>2, NoCliOK DEF Init, TypeOK
<1>2. ProcessInv /\ FreshInv /\ CommitInv /\ AttemptInv
  BY DEF Init, ProcessInv, FreshInv, CommitInv, AttemptInv
<1>3. PublishedInv /\ EntrypointResolves /\ CompleteInv /\ OnlyCompleteImages /\ CliInv
  BY NoCliOK DEF Init, PublishedInv, EntrypointResolves, CompleteInv,
                 OnlyCompleteImages, CliInv
<1> QED
  BY <1>1, <1>2, <1>3 DEF IndInv

\* Every step of every process, and every fault, preserves the invariant.
LEMMA NextIndInv == IndInv /\ [Next]_vars => IndInv'
<1> SUFFICES ASSUME IndInv, [Next]_vars PROVE IndInv'
  OBVIOUS
<1>1. CASE SupStep
  BY <1>1, RestartPreserves, BootPreserves, InstallEntrypointPreserves,
     TakeAttemptPreserves, SpawnEntrypointPreserves, SpawnTrialPreserves,
     TrialTimeoutPreserves, KillChildPreserves, ChildExitsPreserves DEF SupStep
<1>2. CASE FetchStep
  BY <1>2, PullManifestPreserves, SaveManifestPreserves, ExtractImagePreserves,
     FetchErrorPreserves, DownloadLayerPreserves DEF FetchStep
<1>3. CASE AppStep
  BY <1>3, MarkReadyPreserves, RemoveMarkerPreserves, CleanExtractedPreserves,
     CleanManifestPreserves, CleanBlobPreserves, CleanNextPreserves,
     CheckSkipsPreserves, CheckFindsUpdatePreserves, WriteMarkerPreserves,
     CreateTmpLinkPreserves, RenameTmpLinkPreserves, TickPreserves DEF AppStep
<1>4. CASE CliStep
  BY <1>4, CliStepPreserves
<1>5. CASE \/ \E b \in Blob : FlushBlob(b)
           \/ \E v \in Version : Publish(v)
           \/ Kill \/ AppFails \/ CheckError
  BY <1>5, FlushBlobPreserves, PublishPreserves, KillPreserves, AppFailsPreserves,
     CheckErrorPreserves
<1>6. CASE UNCHANGED vars
  BY <1>6 DEF vars, IndInv, TypeOK, ProcessInv, FreshInv, CommitInv, AttemptInv,
              PublishedInv, EntrypointResolves, CompleteInv, OnlyCompleteImages,
              CliInv
<1> QED
  BY <1>1, <1>2, <1>3, <1>4, <1>5, <1>6 DEF Next

\* IndInv holds in every reachable state, whatever is killed and whenever.
THEOREM Invariance == Spec => []IndInv
  BY InitIndInv, NextIndInv, PTL DEF Spec

\* The entrypoint link leads to a program once it exists, and so does the
\* version that runs, whatever is cleaned up, killed or promoted.
THEOREM EntrypointSafe == Spec => []EntrypointResolves
<1>1. IndInv => EntrypointResolves
  BY DEF IndInv
<1> QED
  BY <1>1, Invariance, PTL

\* As long as no failed delete was ignored, what is stable, pending or on trial
\* was unpacked completely, wherever an extraction or a cleanup was cut short
\* (extract_image, cleanup_storage).
THEOREM CompleteImages == Spec => []OnlyCompleteImages
<1>1. IndInv => OnlyCompleteImages
  BY DEF IndInv
<1> QED
  BY <1>1, Invariance, PTL

\* A cli that found the entrypoint some time ago still finds a program when it
\* executes it (run_cli_mode), and the program cannot start (init_dockerloaded)
\* only if an update has replaced its version since, or a delete error that
\* cleanup_storage ignored has left the stable version incomplete.
THEOREM CliSafe == Spec => CliFailsOnlyIfReplaced
<1>1. ASSUME IndInv, [Next]_vars, cli'.at = "error", cli.at # "error"
      PROVE  cli.at = "init" /\ (cli.of # entrypoint \/ deleteFailed)
  <2>1. CliExec \/ CliInit
    <3>1. CASE CliStep
      BY <1>1, <3>1 DEF CliStep, CliStart, CliPoll, CliGivesUp, CliEnds, NoCli,
                        IndInv, TypeOK
    <3>2. CASE ~CliStep
      <4>1. cli' \in {cli, NoCli}
        BY <1>1, <3>2 DEF vars, Next, SupStep, FetchStep, AppStep,
             Publish, Restart, Kill, PullManifest, DownloadLayer, FlushBlob,
             SaveManifest, ExtractImage, FetchError, Boot, InstallEntrypoint,
             TakeAttempt, SpawnEntrypoint, SpawnTrial, Spawn, TrialTimeout, KillChild,
             ChildExits, AppFails, MarkReady, RemoveMarker, CleanExtracted,
             CleanManifest, CleanBlob, CleanNext, CheckSkips, CheckFindsUpdate,
             CheckError, WriteMarker, CreateTmpLink, RenameTmpLink, Tick, ErrorOut,
             ContainerStops
      <4> QED
        BY <1>1, <4>1 DEF NoCli
    <3> QED
      BY <3>1, <3>2
  <2>2. CASE CliExec
    BY <1>1, <2>2 DEF CliExec, IndInv, CliInv, EntrypointResolves
  <2>3. CASE CliInit
    <3>1. cli.of \in Version /\ extracted[cli.of] # "full"
      BY <1>1, <2>3 DEF CliInit, NoCli, IndInv, CliInv
    <3> QED
      BY <1>1, <2>3, <3>1 DEF CliInit, IndInv, OnlyCompleteImages
  <2> QED
    BY <2>1, <2>2, <2>3
<1>2. IndInv /\ [Next]_vars
        => [cli'.at = "error" /\ cli.at # "error" =>
              cli.at = "init" /\ (cli.of # entrypoint \/ deleteFailed)]_vars
  BY <1>1
<1> QED
  BY <1>2, Invariance, PTL DEF Spec, CliFailsOnlyIfReplaced

\* Only mark_ready of the version on trial replaces a stable version, so one
\* that does not get that far never does.
THEOREM OnlyReadyPromoted == Spec => BrokenNeverPromoted
<1>1. ASSUME IndInv, [Next]_vars, entrypoint # None, entrypoint' # entrypoint
      PROVE  entrypoint' \notin Broken
  <2>1. MarkReady
    BY <1>1 DEF vars, Next, SupStep, FetchStep, AppStep, CliStep,
         Publish, Restart, Kill, PullManifest, DownloadLayer, FlushBlob, SaveManifest,
         ExtractImage, FetchError, Boot, InstallEntrypoint, TakeAttempt,
         SpawnEntrypoint, SpawnTrial, TrialTimeout, KillChild, ChildExits, AppFails,
         RemoveMarker, CleanExtracted, CleanManifest, CleanBlob, CleanNext, CheckSkips,
         CheckFindsUpdate, CheckError, WriteMarker, CreateTmpLink, RenameTmpLink, Tick,
         CliStart, CliPoll, CliGivesUp, CliExec, CliInit, CliEnds
  <2> QED
    BY <1>1, <2>1 DEF MarkReady, IndInv, CommitInv
<1>2. IndInv /\ [Next]_vars
        => [entrypoint # None /\ entrypoint' # entrypoint => entrypoint' \notin Broken]_vars
  BY <1>1
<1> QED
  BY <1>2, Invariance, PTL DEF Spec, BrokenNeverPromoted

\* The abstract state only changes by the steps of these four actions, or by
\* the end of a trial.
LEMMA OtherSteps ==
  ASSUME IndInv, [Next]_vars, ~InstallEntrypoint, ~TakeAttempt, ~MarkReady,
         ~(\E v \in Version : Publish(v))
  PROVE  UNCHANGED <<published, entrypoint>> /\ (OnTrial' = OnTrial \/ OnTrial' = None)
<1>1. CASE SupStep \/ Kill
  BY <1>1 DEF SupStep, Restart, Boot, SpawnEntrypoint, SpawnTrial, Spawn,
         TrialTimeout, KillChild, ChildExits, Kill, ContainerStops
<1>2. CASE FetchStep \/ CheckError \/ \E b \in Blob : FlushBlob(b)
  BY <1>2 DEF FetchStep, PullManifest, SaveManifest, ExtractImage, FetchError,
         DownloadLayer, FlushBlob, CheckError, ErrorOut, ContainerStops
<1>3. CASE AppStep \/ AppFails
  BY <1>3 DEF AppStep, AppFails, RemoveMarker, CleanExtracted, CleanManifest,
         CleanBlob, CleanNext, CheckSkips, CheckFindsUpdate, WriteMarker,
         CreateTmpLink, RenameTmpLink, Tick, ErrorOut, ContainerStops
<1>4. CASE CliStep \/ UNCHANGED vars
  BY <1>4 DEF CliStep, CliStart, CliPoll, CliGivesUp, CliExec, CliInit, CliEnds, vars
<1> QED
  BY <1>1, <1>2, <1>3, <1>4 DEF Next

\* Every step of the container is a step of the abstract update or leaves
\* the stable version, the candidate and the published versions alone.
LEMMA StepSimulation ==
  IndInv /\ IndInv' /\ [Next]_vars => [Update!Next]_(Update!vars)
<1> SUFFICES ASSUME IndInv, IndInv', [Next]_vars
             PROVE  Update!Next \/ UNCHANGED <<published, entrypoint, OnTrial>>
  BY DEF Update!vars
<1>1. CASE \E v \in Version : Publish(v)
  BY <1>1 DEF Publish, Update!Next, Update!Publish
<1>2. CASE InstallEntrypoint
  <2>1. CASE entrypoint = None
    <3>1. Update!Install(want) /\ want \in Version
      BY <1>2, <2>1 DEF InstallEntrypoint, ContainerStops, Update!Install, IndInv,
           TypeOK, ProcessInv, PublishedInv
    <3> QED
      BY <3>1 DEF Update!Next
  <2>2. CASE entrypoint # None
    BY <1>2, <2>2 DEF InstallEntrypoint, ContainerStops
  <2> QED
    BY <2>1, <2>2
<1>3. CASE TakeAttempt
  <2>1. CASE Resolves(attempt)
    <3>1. Update!BeginTrial(attempt)
      BY <1>3, <2>1 DEF TakeAttempt, Update!BeginTrial, IndInv, TypeOK, FreshInv,
           AttemptInv, PublishedInv
    <3> QED
      BY <2>1, <3>1 DEF Update!Next
  <2>2. CASE ~Resolves(attempt)
    BY <1>3, <2>2 DEF TakeAttempt
  <2> QED
    BY <2>1, <2>2
<1>4. CASE MarkReady
  <2>1. CASE trial
    <3>1. sup \in {"trial", "killing"} /\ attempting = running /\ Resolves(attempting)
      BY <1>4, <2>1 DEF MarkReady, IndInv, ProcessInv, CommitInv, EntrypointResolves
    <3>2. Update!Commit
      BY <1>4, <2>1, <3>1 DEF MarkReady, Update!Commit
    <3> QED
      BY <3>2 DEF Update!Next
  <2>2. CASE ~trial
    BY <1>4, <2>2 DEF MarkReady
  <2> QED
    BY <2>1, <2>2
<1>5. CASE ~(\/ InstallEntrypoint \/ TakeAttempt \/ MarkReady
             \/ \E v \in Version : Publish(v))
  <2>1. UNCHANGED <<published, entrypoint>> /\ (OnTrial' = OnTrial \/ OnTrial' = None)
    BY <1>5, OtherSteps
  <2> QED
    BY <2>1 DEF Update!Next, Update!Rollback
<1> QED
  BY <1>1, <1>2, <1>3, <1>4, <1>5

\* The container implements the safety part of SafeUpdate under the mapping
\* stable <- entrypoint, candidate <- OnTrial.
THEOREM SafetyRefinement == Spec => Update!Init /\ [][Update!Next]_(Update!vars)
<1>1. Init => Update!Init
  BY DEF Init, Update!Init
<1>2. IndInv /\ IndInv' /\ [Next]_vars => [Update!Next]_(Update!vars)
  BY StepSimulation
<1> QED
  BY <1>1, <1>2, Invariance, PTL DEF Spec
=============================================================================
