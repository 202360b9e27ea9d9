--------------------------- MODULE CheckpointStore ---------------------------
(***************************************************************************)
(* The checkpoints of one run on a mounted bucket (internal/blob), written *)
(* by several publishers (the periodic loop of the checkpointer, the       *)
(* checkpoint-once of a pause, a sidecar that outlives its pod) and read   *)
(* by a restore (internal/podruntime).                                     *)
(*                                                                         *)
(* A step is one file operation.  A Put is not atomic: it creates the file *)
(* and fills it later, so a publisher that dies leaves a partial archive   *)
(* or a torn manifest.  A checkpoint is its id; ids are taken in the order *)
(* the archives are made.                                                  *)
(***************************************************************************)
EXTENDS Naturals, FiniteSets

CONSTANTS
  Publishers,      \* processes that publish
  Retain,          \* manifests kept by retention
  MaxCheckpoints,  \* bound: checkpoints begun
  MaxFaults        \* bound: deaths, failed writes, reads and deletes

ASSUME CheckpointConstants ==
  /\ IsFiniteSet(Publishers)
  /\ Retain \in Nat \ {0}
  /\ MaxCheckpoints \in Nat \ {0}
  /\ MaxFaults \in Nat

VARIABLES
  archives,    \* checkpoints/objects/<id>.tar.gz
  manifests,   \* checkpoints/<id>.json
  modified,    \* modification time of the manifest
  clock,       \* manifest writes so far
  begun,       \* last id given out
  publishers,  \* PublishCheckpoint in progress
  reported,    \* checkpoints reported ready
  loader,      \* LoadCheckpoint in progress, or its result
  undeleted,   \* history: manifests whose deletion failed
  created,     \* history: time each manifest file was created
  faults       \* faults so far

vars == <<archives, manifests, modified, clock, begun, publishers, reported,
          loader, undeleted, created, faults>>
bucket == <<archives, manifests, modified, clock, created>>

Ids == 1..MaxCheckpoints
NoId == 0

\* victims: the manifests retention is still to remove; cur: the one at hand;
\* valid: whether it could be loaded.
PublisherSteps == {"idle", "writeArchive", "verify", "createManifest",
                   "writeManifest", "list", "prune", "dropManifest",
                   "dropArchive"}
PublisherStates == [pc: PublisherSteps, id: Ids \cup {NoId}, victims: SUBSET Ids,
                    cur: Ids \cup {NoId}, valid: BOOLEAN]
IdlePublisher == [pc |-> "idle", id |-> NoId, victims |-> {}, cur |-> NoId,
                  valid |-> FALSE]

\* names: files of a directory still to be looked at; left: candidates not tried
\* yet; order: their times as listed; promised: what had been reported when the
\* restore began; unread: candidates that could not be read.  A restore ends
\* restored, failed (nothing loads), unlisted or half unpacked.
LoaderSteps == {"idle", "manifests", "objects", "try", "open", "restored", "failed",
                "unlisted", "halfUnpacked"}
LoaderStates == [pc: LoaderSteps, names: SUBSET Ids, left: SUBSET Ids,
                 order: [Ids -> Nat], cur: Ids \cup {NoId}, promised: SUBSET Ids,
                 unread: SUBSET Ids]
IdleLoader == [pc |-> "idle", names |-> {}, left |-> {}, order |-> [i \in Ids |-> 0],
               cur |-> NoId, promised |-> {}, unread |-> {}]

TypeOK ==
  /\ archives \in [Ids -> {"absent", "partial", "whole"}]
  /\ manifests \in [Ids -> {"absent", "torn", "whole"}]
  /\ modified \in [Ids -> Nat] /\ clock \in Nat
  /\ begun \in 0..MaxCheckpoints
  /\ publishers \in [Publishers -> PublisherStates]
  /\ reported \subseteq Ids
  /\ loader \in LoaderStates
  /\ loader.pc \in {"open", "restored", "unlisted"} => loader.cur # NoId
  /\ undeleted \subseteq Ids /\ created \in [Ids -> Nat]
  /\ faults \in Nat

Init ==
  /\ archives = [i \in Ids |-> "absent"]
  /\ manifests = [i \in Ids |-> "absent"]
  /\ modified = [i \in Ids |-> 0] /\ clock = 0
  /\ begun = 0
  /\ publishers = [p \in Publishers |-> IdlePublisher]
  /\ reported = {}
  /\ loader = IdleLoader
  /\ undeleted = {} /\ created = [i \in Ids |-> 0]
  /\ faults = 0

Fault == faults < MaxFaults /\ faults' = faults + 1

\* Manifests in the directory, and the ones newer than i.
Listed == {i \in Ids : manifests[i] # "absent"}
Newer(i) == {j \in Listed : modified[j] > modified[i]}

\* loadManifest: the manifest decodes and its archive has the right checksum.
Loads(i) == manifests[i] = "whole" /\ archives[i] = "whole"

Touch(i, content) ==
  /\ manifests' = [manifests EXCEPT ![i] = content]
  /\ modified' = [modified EXCEPT ![i] = clock + 1]
  /\ clock' = clock + 1

-----------------------------------------------------------------------------
(* PublishCheckpoint.                                                      *)

At(p, step) == publishers[p].pc = step
Continue(p, step) == publishers' = [publishers EXCEPT ![p].pc = step]
GiveUp(p) == publishers' = [publishers EXCEPT ![p] = IdlePublisher]
Id(p) == publishers[p].id

\* A new id; the archive is built in memory and its file created.
Begin(p) ==
  /\ At(p, "idle")
  /\ begun < MaxCheckpoints
  /\ begun' = begun + 1
  /\ archives' = [archives EXCEPT ![begun + 1] = "partial"]
  /\ publishers' = [publishers EXCEPT ![p] =
       [IdlePublisher EXCEPT !.pc = "writeArchive", !.id = begun + 1]]
  /\ UNCHANGED <<manifests, modified, clock, created, reported, loader, undeleted, faults>>

\* The write completes, or loses bytes without saying so.
WriteArchive(p) ==
  /\ At(p, "writeArchive")
  /\ \/ archives' = [archives EXCEPT ![Id(p)] = "whole"] /\ UNCHANGED faults
     \/ Fault /\ UNCHANGED archives
  /\ Continue(p, "verify")
  /\ UNCHANGED <<manifests, modified, clock, created, begun, reported, loader, undeleted>>

\* Mutant: the archive is not read back.
VerifyNothing(p) ==
  /\ At(p, "verify")
  /\ Continue(p, "createManifest")
  /\ UNCHANGED <<bucket, begun, reported, loader, undeleted, faults>>
\* verifyArchive reads it back.
Verify(p) ==
  /\ At(p, "verify")
  /\ IF archives[Id(p)] = "whole" THEN Continue(p, "createManifest") ELSE GiveUp(p)
  /\ UNCHANGED <<bucket, begun, reported, loader, undeleted, faults>>

CreateManifest(p) ==
  /\ At(p, "createManifest")
  /\ Touch(Id(p), "torn")
  /\ created' = [created EXCEPT ![Id(p)] = clock + 1]
  /\ Continue(p, "writeManifest")
  /\ UNCHANGED <<archives, begun, reported, loader, undeleted, faults>>

\* The commit point.  A manifest that retention removed while it was being
\* written stays away, or comes back when the file is closed.
WriteManifest(p) ==
  /\ At(p, "writeManifest")
  /\ \/ Touch(Id(p), "whole")
     \/ manifests[Id(p)] = "absent" /\ UNCHANGED <<manifests, modified, clock>>
  /\ Continue(p, "list")
  /\ UNCHANGED <<archives, created, begun, reported, loader, undeleted, faults>>

\* Mutant: one manifest too few is kept.
VictimsOffByOne == {i \in Listed : Cardinality(Newer(i)) + 1 >= Retain}
\* Mutant: manifests are ordered by id.
VictimsById == {i \in Listed : Cardinality({j \in Listed : j > i}) >= Retain}
\* All but the newest Retain manifests.
Victims == {i \in Listed : Cardinality(Newer(i)) >= Retain}

\* pruneCheckpoints lists.  The listing fails when another publisher deletes
\* under it; the checkpoint is reported all the same.
ListManifests(p) ==
  /\ At(p, "list")
  /\ \/ publishers' = [publishers EXCEPT ![p].pc = "prune", ![p].victims = Victims]
     \/ Continue(p, "prune")
  /\ UNCHANGED <<bucket, begun, reported, loader, undeleted, faults>>

LoadVictim(p) ==
  /\ At(p, "prune")
  /\ \E i \in publishers[p].victims :
       publishers' = [publishers EXCEPT ![p] =
         [pc |-> "dropManifest", id |-> Id(p), victims |-> publishers[p].victims \ {i},
          cur |-> i, valid |-> Loads(i)]]
  /\ UNCHANGED <<bucket, begun, reported, loader, undeleted, faults>>

\* The archive goes next if the manifest could be loaded, also when the
\* manifest could not be deleted.
DropManifest(p) ==
  /\ At(p, "dropManifest")
  /\ LET i == publishers[p].cur
     IN \/ /\ manifests' = [manifests EXCEPT ![i] = "absent"]
           /\ UNCHANGED <<undeleted, faults>>
        \/ /\ Fault
           /\ undeleted' = undeleted \cup {i}
           /\ UNCHANGED manifests
  /\ Continue(p, IF publishers[p].valid THEN "dropArchive" ELSE "prune")
  /\ UNCHANGED <<archives, modified, clock, created, begun, reported, loader>>

DropArchive(p) ==
  /\ At(p, "dropArchive")
  /\ \/ /\ archives' = [archives EXCEPT ![publishers[p].cur] = "absent"]
        /\ UNCHANGED faults
     \/ Fault /\ UNCHANGED archives
  /\ Continue(p, "prune")
  /\ UNCHANGED <<manifests, modified, clock, created, begun, reported, loader, undeleted>>

\* CheckpointReady, or the output of checkpoint-once.
Report(p) ==
  /\ At(p, "prune")
  /\ publishers[p].victims = {}
  /\ reported' = reported \cup {Id(p)}
  /\ GiveUp(p)
  /\ UNCHANGED <<bucket, begun, loader, undeleted, faults>>

\* A Put that returns an error, or the end of the process.
Abandon(p) ==
  /\ ~At(p, "idle")
  /\ Fault
  /\ GiveUp(p)
  /\ UNCHANGED <<bucket, begun, reported, loader, undeleted>>

Publish(p) ==
  \/ Begin(p) \/ WriteArchive(p) \/ Verify(p) \/ CreateManifest(p) \/ WriteManifest(p)
  \/ ListManifests(p) \/ LoadVictim(p) \/ DropManifest(p) \/ DropArchive(p)
  \/ Report(p) \/ Abandon(p)

-----------------------------------------------------------------------------
(* LoadCheckpoint, for restoreFromCheckpoint.                              *)

LoaderAt(step) == loader.pc = step

untouched == <<bucket, begun, publishers, reported, undeleted>>

\* With a key only that manifest is tried; without one List first reads the
\* names in checkpoints/.
LoadCheckpoint ==
  /\ loader.pc \notin {"manifests", "objects", "try", "open"}
  /\ \/ loader' = [IdleLoader EXCEPT !.pc = "manifests", !.names = Listed,
                                     !.promised = Listed \cap reported]
     \/ \E i \in reported :
          loader' = [IdleLoader EXCEPT !.pc = "try", !.left = {i}, !.promised = {i}]
  /\ UNCHANGED <<untouched, faults>>

NextName(i) == i \in loader.names /\ \A j \in loader.names : i <= j

\* WalkDir asks for the information of one file after the other, in key order;
\* one that is gone fails the whole listing.
StatManifest ==
  /\ LoaderAt("manifests")
  /\ \E i \in Ids :
       /\ NextName(i)
       /\ loader' = IF manifests[i] = "absent"
                      THEN [loader EXCEPT !.pc = "unlisted", !.cur = i]
                      ELSE [loader EXCEPT !.names = @ \ {i}, !.left = @ \cup {i},
                                          !.order[i] = modified[i]]
  /\ UNCHANGED <<untouched, faults>>

\* It then reads the names in checkpoints/objects/.
WalkObjects ==
  /\ LoaderAt("manifests")
  /\ loader.names = {}
  /\ loader' = [loader EXCEPT !.pc = "objects",
                              !.names = {i \in Ids : archives[i] # "absent"}]
  /\ UNCHANGED <<untouched, faults>>

StatArchive ==
  /\ LoaderAt("objects")
  /\ \/ \E i \in Ids :
          /\ NextName(i)
          /\ loader' = IF archives[i] = "absent"
                         THEN [loader EXCEPT !.pc = "unlisted", !.cur = i]
                         ELSE [loader EXCEPT !.names = @ \ {i}]
     \/ loader.names = {} /\ loader' = [loader EXCEPT !.pc = "try"]
  /\ UNCHANGED <<untouched, faults>>

\* Mutant: oldest first.
FirstOldest(i) == \A j \in loader.left : loader.order[j] >= loader.order[i]
First(i) == \A j \in loader.left : loader.order[j] <= loader.order[i]

\* Mutant: no error when nothing could be loaded.
TryNextNoError ==
  /\ LoaderAt("try")
  /\ \/ \E i \in loader.left :
          /\ First(i)
          /\ loader' = [loader EXCEPT !.left = @ \ {i}, !.cur = i,
                                      !.pc = IF Loads(i) THEN "open" ELSE "try"]
     \/ loader.left = {} /\ loader' = [loader EXCEPT !.pc = "restored", !.cur = NoId]
  /\ UNCHANGED <<untouched, faults>>
\* loadManifest reads the manifest and, once, the whole archive; what is torn,
\* gone or cannot be read is passed over.
TryNext ==
  /\ LoaderAt("try")
  /\ \/ \E i \in loader.left :
          /\ First(i)
          /\ \/ /\ loader' = [loader EXCEPT !.left = @ \ {i}, !.cur = i,
                                            !.pc = IF Loads(i) THEN "open" ELSE "try"]
                /\ UNCHANGED faults
             \/ /\ Fault
                /\ loader' = [loader EXCEPT !.left = @ \ {i}, !.unread = @ \cup {i}]
     \/ /\ loader.left = {}
        /\ loader' = [loader EXCEPT !.pc = "failed", !.cur = NoId]
        /\ UNCHANGED faults
  /\ UNCHANGED untouched

\* The archive is opened a second time, and unpacked by restoreFromCheckpoint.
Open ==
  /\ LoaderAt("open")
  /\ \/ /\ loader' = [loader EXCEPT !.pc = IF archives[loader.cur] = "whole"
                                          THEN "restored" ELSE "try"]
        /\ UNCHANGED faults
     \/ /\ Fault
        /\ loader' = [loader EXCEPT !.pc = "try", !.unread = @ \cup {loader.cur}]
     \/ /\ Fault
        /\ archives[loader.cur] = "whole"
        /\ loader' = [loader EXCEPT !.pc = "halfUnpacked"]
  /\ UNCHANGED untouched

Restore == LoadCheckpoint \/ StatManifest \/ WalkObjects \/ StatArchive \/ TryNext \/ Open

-----------------------------------------------------------------------------
Next == \/ \E p \in Publishers : Publish(p)
        \/ Restore

Spec == Init /\ [][Next]_vars

-----------------------------------------------------------------------------
(* Properties.                                                             *)

\* As many manifests as retention keeps, whole or torn, were written after i was
\* created.
Overrun(i) == Cardinality({j \in Ids \ {i} : modified[j] > created[i]}) >= Retain

\* A readable manifest has its archive, whoever prunes, dies or writes at the
\* same time; the exception is a manifest whose deletion failed, since its
\* archive is deleted all the same (PublishCheckpoint, pruneCheckpoints).
ManifestsAreBacked ==
  \A i \in Ids : manifests[i] = "whole" /\ archives[i] # "whole" => i \in undeleted

\* Once a checkpoint has been reported there is always one to restore, as long as
\* retention keeps more manifests than can be written without one that lasts: by
\* failed publications, by publishers at work, and by publishers whose manifest was
\* listed for removal before it was finished (PublishCheckpoint, pruneCheckpoints,
\* which counts torn manifests, too).
RestorableOnceReported ==
  LET n == Cardinality(Publishers)
  IN  reported # {} /\ faults + n <= Retain /\ faults + 2 * n <= Retain + 2
        => \E i \in Ids : Loads(i)

\* A restore finds nothing to load only when every checkpoint it was promised
\* was overrun by Retain later ones or could not be read; and it cannot list the
\* store only when it met a file that retention had taken away under the walk
\* (LoadCheckpoint, List, pruneCheckpoints).
RestoreFailsOnlyWhenOverrun ==
  /\ LoaderAt("failed") => \A i \in loader.promised : Overrun(i) \/ i \in loader.unread
  /\ LoaderAt("unlisted") => Overrun(loader.cur)

\* A restore takes the newest of what had been reported, unless that was
\* pruned on the way or could not be read (LoadCheckpoint).
RestoreTakesTheNewest ==
  LoaderAt("restored") =>
    \A i \in loader.promised :
      loader.order[i] <= loader.order[loader.cur] \/ Overrun(i) \/ i \in loader.unread

=============================================================================
