------------------------ MODULE CheckpointStoreProofs ------------------------
(***************************************************************************)
(* Proofs about CheckpointStore, for one restore beside any number of      *)
(* publishers, any retention and any number of checkpoints and faults.     *)
(*                                                                         *)
(* A readable manifest has its archive, because a pruner deletes the       *)
(* manifest first.  A restore takes the newest checkpoint it saw, and      *)
(* fails only when everything it saw was pruned while it worked, because   *)
(* a prune spares the newest checkpoints of the moment it lists them.      *)
(* And once one was reported there is always one to restore, while         *)
(* retention keeps more manifests than failures and writers can use up.    *)
(***************************************************************************)
EXTENDS CheckpointStore, FiniteSetTheorems, TLAPS

\* A publisher that has an id and has not finished its manifest.
Writing(p) == publishers[p].pc \in {"writeArchive", "verify", "createManifest",
                                    "writeManifest"}
\* A pruner that is going to delete the archive of cur.
Condemned(p) == \/ publishers[p].pc = "dropArchive"
                \/ publishers[p].pc = "dropManifest" /\ publishers[p].valid

\* Ids not given out have no manifest.
UnusedIds == \A i \in Ids : i > begun => manifests[i] = "absent"

\* A publisher at work has an id, a pruner at work a victim.
BusyHasId == \A p \in Publishers :
  /\ publishers[p].pc # "idle" => publishers[p].id \in Ids
  /\ publishers[p].pc = "dropManifest" => publishers[p].cur \in Ids

\* Publishers that write have an id of their own, not published yet.
OwnIds == \A p \in Publishers : Writing(p) =>
  /\ Id(p) \in Ids /\ Id(p) <= begun
  /\ manifests[Id(p)] # "whole"
  /\ \A q \in Publishers : Writing(q) /\ Id(q) = Id(p) => q = p

\* Nothing takes a verified archive away before its manifest is written.
VerifiedStays == \A p \in Publishers :
  publishers[p].pc \in {"createManifest", "writeManifest"} => archives[Id(p)] = "whole"

\* Only published checkpoints are condemned, and the manifest goes first.
PublishedOnly == \A q \in Publishers : Condemned(q) =>
  /\ publishers[q].cur \in Ids /\ publishers[q].cur <= begun
  /\ \A p \in Publishers : Writing(p) => Id(p) # publishers[q].cur

ManifestFirst == \A q \in Publishers : publishers[q].pc = "dropArchive" =>
  \/ manifests[publishers[q].cur] # "whole"
  \/ publishers[q].cur \in undeleted

IInv == TypeOK /\ BusyHasId /\ UnusedIds /\ OwnIds /\ VerifiedStays /\ PublishedOnly
        /\ ManifestFirst /\ ManifestsAreBacked

-----------------------------------------------------------------------------
(* Publisher states.                                                       *)

\* The idle publisher and the idle loader have their types.
LEMMA IdleTypes == IdlePublisher \in PublisherStates /\ IdleLoader \in LoaderStates
BY CheckpointConstants DEF IdlePublisher, PublisherStates, PublisherSteps, IdleLoader,
   LoaderStates, LoaderSteps, NoId, Ids

\* What may be concluded of a step that changes one publisher: the others stay.
LEMMA ContinueEffect ==
  ASSUME publishers \in [Publishers -> PublisherStates], NEW p \in Publishers,
         NEW step \in PublisherSteps, Continue(p, step)
  PROVE  /\ publishers' \in [Publishers -> PublisherStates]
         /\ \A q \in Publishers : q # p => publishers'[q] = publishers[q]
         /\ publishers'[p].pc = step /\ publishers'[p].id = publishers[p].id
         /\ publishers'[p].cur = publishers[p].cur
         /\ publishers'[p].valid = publishers[p].valid
         /\ publishers'[p].victims = publishers[p].victims
BY DEF Continue, PublisherStates

\* Giving up makes the publisher idle.
LEMMA GiveUpEffect ==
  ASSUME publishers \in [Publishers -> PublisherStates], NEW p \in Publishers, GiveUp(p)
  PROVE  /\ publishers' \in [Publishers -> PublisherStates]
         /\ \A q \in Publishers : q # p => publishers'[q] = publishers[q]
         /\ publishers'[p].pc = "idle" /\ publishers'[p].victims = {}
BY IdleTypes DEF GiveUp, IdlePublisher

\* A manifest write changes that manifest only.
LEMMA TouchEffect ==
  ASSUME TypeOK, NEW i \in Ids, NEW content \in {"torn", "whole"}, Touch(i, content)
  PROVE  /\ manifests' \in [Ids -> {"absent", "torn", "whole"}]
         /\ modified' \in [Ids -> Nat] /\ clock' \in Nat
         /\ manifests'[i] = content
         /\ \A j \in Ids : j # i => manifests'[j] = manifests[j]
BY DEF Touch, TypeOK

-----------------------------------------------------------------------------
(* The parts of the invariant under a step that leaves the bucket alone    *)
(* and moves one publisher out of reach of all of them.                    *)

\* A publisher that stops, or goes on to prune, disturbs nothing.
LEMMA Harmless ==
  ASSUME IInv, NEW p \in Publishers,
         publishers' \in [Publishers -> PublisherStates],
         \A q \in Publishers : q # p => publishers'[q] = publishers[q],
         publishers'[p].pc \in {"idle", "list", "prune"},
         publishers'[p].pc # "idle" =>
           publishers'[p].id = publishers[p].id /\ publishers[p].pc # "idle",
         UNCHANGED <<archives, manifests, begun, undeleted>>
  PROVE  /\ BusyHasId' /\ UnusedIds' /\ OwnIds' /\ VerifiedStays' /\ PublishedOnly'
         /\ ManifestFirst' /\ ManifestsAreBacked'
<1>1. ~Writing(p)' /\ ~Condemned(p)'
  BY DEF Writing, Condemned
<1>2. \A q \in Publishers : q # p => /\ Writing(q)' <=> Writing(q)
                                     /\ Condemned(q)' <=> Condemned(q)
                                     /\ Id(q)' = Id(q)
  BY DEF Writing, Condemned, Id
<1>3. UnusedIds' /\ ManifestsAreBacked'
  BY DEF IInv, UnusedIds, ManifestsAreBacked
<1>4. OwnIds'
  BY <1>1, <1>2 DEF IInv, OwnIds
<1>5. VerifiedStays'
  BY <1>2 DEF IInv, VerifiedStays
<1>6. PublishedOnly'
  BY <1>1, <1>2 DEF IInv, PublishedOnly
<1>7. ManifestFirst'
  BY DEF IInv, ManifestFirst
<1>8. BusyHasId'
  BY DEF IInv, BusyHasId
<1> QED BY <1>3, <1>4, <1>5, <1>6, <1>7, <1>8

-----------------------------------------------------------------------------
(* Each step of a publisher preserves the invariant.                       *)

\* A new checkpoint takes an id nobody has used.
LEMMA BeginStep == ASSUME IInv, NEW p \in Publishers, Begin(p) PROVE IInv'
<1> DEFINE new == begun + 1
<1>1. new \in Ids /\ begun \in Nat /\ begun' = new
  BY CheckpointConstants DEF IInv, TypeOK, Begin, Ids
<1>2. /\ publishers' \in [Publishers -> PublisherStates]
      /\ \A q \in Publishers : q # p => publishers'[q] = publishers[q]
      /\ publishers'[p].pc = "writeArchive" /\ publishers'[p].id = new
  BY <1>1 DEF IInv, TypeOK, Begin, IdlePublisher, PublisherStates, PublisherSteps
<1>3. /\ archives' \in [Ids -> {"absent", "partial", "whole"}]
      /\ \A j \in Ids : j # new => archives'[j] = archives[j]
  BY <1>1 DEF IInv, TypeOK, Begin
<1>4. UNCHANGED <<manifests, undeleted>>
  BY DEF Begin
<1>5. \A q \in Publishers : q # p => /\ Writing(q)' <=> Writing(q)
                                     /\ Condemned(q)' <=> Condemned(q)
                                     /\ Id(q)' = Id(q)
  BY <1>2 DEF Writing, Condemned, Id
<1>6. Writing(p)' /\ ~Condemned(p)' /\ Id(p)' = new
  BY <1>2 DEF Writing, Condemned, Id
<1>7. manifests[new] = "absent"
  BY <1>1 DEF IInv, UnusedIds
<1>8. TypeOK'
  BY <1>1, <1>2, <1>3 DEF IInv, TypeOK, Begin, Ids
<1>9. UnusedIds'
  BY <1>1, <1>4 DEF IInv, UnusedIds, Ids
<1>10. OwnIds'
  <2>1. \A q \in Publishers : q # p /\ Writing(q) => Id(q) \in Ids /\ Id(q) <= begun
    BY DEF IInv, OwnIds
  <2>2. \A q \in Publishers : q # p /\ Writing(q) => Id(q) <= new /\ Id(q) # new
    BY <1>1, <2>1 DEF Ids
  <2> QED BY <1>1, <1>4, <1>5, <1>6, <1>7, <2>1, <2>2 DEF IInv, OwnIds
<1>11. VerifiedStays'
  <2>1. \A q \in Publishers : q # p /\ Writing(q) => Id(q) # new
    BY <1>1 DEF IInv, OwnIds, Ids
  <2>2. \A q \in Publishers : q # p /\ Writing(q) => Id(q) \in Ids
    BY DEF IInv, OwnIds
  <2> QED BY <1>2, <1>3, <1>5, <2>1, <2>2 DEF IInv, VerifiedStays, Writing
<1>12. PublishedOnly'
  <2>1. \A q \in Publishers : q # p /\ Condemned(q) =>
          /\ publishers[q].cur \in Ids /\ publishers[q].cur <= begun
          /\ \A o \in Publishers : Writing(o) => Id(o) # publishers[q].cur
    BY DEF IInv, PublishedOnly
  <2>2. \A q \in Publishers : q # p /\ Condemned(q) =>
          publishers[q].cur <= new /\ publishers[q].cur # new
    BY <1>1, <2>1 DEF Ids
  <2> QED BY <1>1, <1>2, <1>5, <1>6, <2>1, <2>2 DEF PublishedOnly
<1>13. ManifestFirst'
  BY <1>2, <1>4 DEF IInv, ManifestFirst
<1>14. ManifestsAreBacked'
  BY <1>3, <1>4, <1>7 DEF IInv, ManifestsAreBacked
<1>15. BusyHasId'
  BY <1>1, <1>2 DEF IInv, BusyHasId
<1> QED BY <1>8, <1>9, <1>10, <1>11, <1>12, <1>13, <1>14, <1>15 DEF IInv

\* A write completes the archive of its own checkpoint or changes nothing.
LEMMA WriteArchiveStep == ASSUME IInv, NEW p \in Publishers, WriteArchive(p) PROVE IInv'
<1>1. /\ publishers \in [Publishers -> PublisherStates]
      /\ Id(p) \in Ids /\ Writing(p)
  BY DEF IInv, TypeOK, WriteArchive, At, Writing, OwnIds
<1>2. /\ publishers' \in [Publishers -> PublisherStates]
      /\ \A q \in Publishers : q # p => publishers'[q] = publishers[q]
      /\ publishers'[p].pc = "verify" /\ publishers'[p].id = publishers[p].id
  <2>1. Continue(p, "verify") /\ "verify" \in PublisherSteps
    BY DEF WriteArchive, PublisherSteps
  <2> QED BY <1>1, <2>1, ContinueEffect
<1>3. /\ archives' \in [Ids -> {"absent", "partial", "whole"}]
      /\ \A j \in Ids : archives[j] = "whole" => archives'[j] = "whole"
  BY <1>1 DEF IInv, TypeOK, WriteArchive
<1>4. UNCHANGED <<manifests, undeleted, begun>>
  BY DEF WriteArchive
<1>5. \A q \in Publishers : /\ Writing(q)' <=> Writing(q)
                            /\ Condemned(q)' <=> Condemned(q)
                            /\ Id(q)' = Id(q)
  BY <1>1, <1>2 DEF Writing, Condemned, Id, WriteArchive, At
<1>6. TypeOK'
  BY <1>2, <1>3 DEF IInv, TypeOK, WriteArchive, Fault
<1>7. UnusedIds' /\ ManifestsAreBacked'
  BY <1>3, <1>4 DEF IInv, TypeOK, UnusedIds, ManifestsAreBacked
<1>8. OwnIds'
  BY <1>4, <1>5 DEF IInv, OwnIds
<1>9. VerifiedStays'
  <2>1. \A q \in Publishers : Writing(q) => Id(q) \in Ids
    BY DEF IInv, OwnIds
  <2> QED BY <1>2, <1>3, <1>5, <2>1 DEF IInv, VerifiedStays, Writing
<1>10. PublishedOnly'
  <2>1. \A q \in Publishers : Condemned(q) => q # p
    BY DEF Condemned, WriteArchive, At
  <2> QED BY <1>2, <1>4, <1>5, <2>1 DEF IInv, PublishedOnly
<1>11. ManifestFirst'
  BY <1>2, <1>4 DEF IInv, ManifestFirst
<1>12. BusyHasId'
  BY <1>1, <1>2 DEF IInv, BusyHasId, Id
<1> QED BY <1>6, <1>7, <1>8, <1>9, <1>10, <1>11, <1>12 DEF IInv

\* Only a whole archive passes the read-back.
LEMMA VerifyStep == ASSUME IInv, NEW p \in Publishers, Verify(p) PROVE IInv'
<1>1. publishers \in [Publishers -> PublisherStates] /\ publishers[p].pc = "verify"
  BY DEF IInv, TypeOK, Verify, At
<1>2. UNCHANGED <<archives, manifests, modified, clock, created, begun, reported, loader,
                  undeleted, faults>>
  BY DEF Verify, bucket
<1>3. CASE archives[Id(p)] = "whole"
  <2>1. Continue(p, "createManifest") /\ "createManifest" \in PublisherSteps
    BY <1>3 DEF Verify, PublisherSteps
  <2>2. /\ publishers' \in [Publishers -> PublisherStates]
        /\ \A q \in Publishers : q # p => publishers'[q] = publishers[q]
        /\ publishers'[p].pc = "createManifest" /\ publishers'[p].id = publishers[p].id
    BY <1>1, <2>1, ContinueEffect
  <2>3. \A q \in Publishers : /\ Writing(q)' <=> Writing(q)
                              /\ Condemned(q)' <=> Condemned(q)
                              /\ Id(q)' = Id(q)
    BY <1>1, <2>2 DEF Writing, Condemned, Id
  <2>4. TypeOK'
    BY <1>2, <2>2 DEF IInv, TypeOK
  <2>5. UnusedIds' /\ ManifestsAreBacked'
    BY <1>2 DEF IInv, UnusedIds, ManifestsAreBacked
  <2>6. OwnIds'
    BY <1>2, <2>3 DEF IInv, OwnIds
  <2>7. VerifiedStays'
    BY <1>2, <1>3, <2>2, <2>3 DEF IInv, VerifiedStays, Writing
  <2>8. PublishedOnly'
    <3>1. \A q \in Publishers : Condemned(q) => q # p
      BY <1>1 DEF Condemned
    <3> QED BY <1>2, <2>2, <2>3, <3>1 DEF IInv, PublishedOnly
  <2>9. ManifestFirst'
    BY <1>2, <2>2 DEF IInv, ManifestFirst
  <2>10. BusyHasId'
    BY <1>1, <2>2 DEF IInv, BusyHasId
  <2> QED BY <2>4, <2>5, <2>6, <2>7, <2>8, <2>9, <2>10 DEF IInv
<1>4. CASE archives[Id(p)] # "whole"
  <2>1. GiveUp(p)
    BY <1>4 DEF Verify
  <2>2. /\ publishers' \in [Publishers -> PublisherStates]
        /\ \A q \in Publishers : q # p => publishers'[q] = publishers[q]
        /\ publishers'[p].pc = "idle"
    BY <1>1, <2>1, GiveUpEffect
  <2>3. TypeOK'
    BY <1>2, <2>2 DEF IInv, TypeOK
  <2> QED BY <1>2, <2>2, <2>3, Harmless DEF IInv
<1> QED BY <1>3, <1>4

\* A torn manifest is not a whole one.
LEMMA CreateManifestStep ==
  ASSUME IInv, NEW p \in Publishers, CreateManifest(p) PROVE IInv'
<1>1. /\ publishers \in [Publishers -> PublisherStates]
      /\ publishers[p].pc = "createManifest" /\ Writing(p)
      /\ Id(p) \in Ids /\ Id(p) <= begun
  BY DEF IInv, TypeOK, CreateManifest, At, Writing, OwnIds
<1>2. /\ publishers' \in [Publishers -> PublisherStates]
      /\ \A q \in Publishers : q # p => publishers'[q] = publishers[q]
      /\ publishers'[p].pc = "writeManifest" /\ publishers'[p].id = publishers[p].id
  <2>1. Continue(p, "writeManifest") /\ "writeManifest" \in PublisherSteps
    BY DEF CreateManifest, PublisherSteps
  <2> QED BY <1>1, <2>1, ContinueEffect
<1>3. /\ manifests' \in [Ids -> {"absent", "torn", "whole"}]
      /\ modified' \in [Ids -> Nat] /\ clock' \in Nat
      /\ manifests'[Id(p)] = "torn"
      /\ \A j \in Ids : j # Id(p) => manifests'[j] = manifests[j]
  <2>1. Touch(Id(p), "torn") /\ TypeOK
    BY DEF CreateManifest, IInv
  <2> QED BY <1>1, <2>1, TouchEffect
<1>4. UNCHANGED <<archives, begun, undeleted, reported, loader, faults>>
  BY DEF CreateManifest
<1>5. \A q \in Publishers : /\ Writing(q)' <=> Writing(q)
                            /\ Condemned(q)' <=> Condemned(q)
                            /\ Id(q)' = Id(q)
  BY <1>1, <1>2 DEF Writing, Condemned, Id
<1>6. TypeOK'
  <2>1. created' \in [Ids -> Nat]
    BY <1>1 DEF IInv, TypeOK, CreateManifest
  <2> QED BY <1>2, <1>3, <1>4, <2>1 DEF IInv, TypeOK
<1>7. UnusedIds'
  <2>1. begun \in Nat
    BY CheckpointConstants DEF IInv, TypeOK
  <2> QED BY <1>1, <1>3, <1>4, <2>1 DEF IInv, UnusedIds, Ids
<1>8. \A j \in Ids : manifests'[j] = "whole" => manifests[j] = "whole"
  BY <1>1, <1>3
<1>9. ManifestsAreBacked'
  BY <1>4, <1>8 DEF IInv, ManifestsAreBacked
<1>10. OwnIds'
  BY <1>4, <1>5, <1>8 DEF IInv, OwnIds
<1>11. VerifiedStays'
  BY <1>1, <1>2, <1>4, <1>5 DEF IInv, VerifiedStays
<1>12. PublishedOnly'
  <2>1. \A q \in Publishers : Condemned(q) => q # p
    BY <1>1 DEF Condemned
  <2> QED BY <1>2, <1>4, <1>5, <2>1 DEF IInv, PublishedOnly
<1>13. ManifestFirst'
  <2>1. \A q \in Publishers : publishers'[q].pc = "dropArchive" =>
          q # p /\ Condemned(q) /\ publishers[q].pc = "dropArchive"
    BY <1>1, <1>2 DEF Condemned
  <2>2. \A q \in Publishers : Condemned(q) => publishers[q].cur \in Ids
    BY DEF IInv, PublishedOnly
  <2> QED BY <1>2, <1>4, <1>8, <2>1, <2>2 DEF IInv, ManifestFirst
<1>14. BusyHasId'
  BY <1>1, <1>2 DEF IInv, BusyHasId
<1> QED BY <1>6, <1>7, <1>9, <1>10, <1>11, <1>12, <1>13, <1>14 DEF IInv

\* The commit point: the manifest becomes whole with its archive in place.
LEMMA WriteManifestStep ==
  ASSUME IInv, NEW p \in Publishers, WriteManifest(p) PROVE IInv'
<1>1. /\ publishers \in [Publishers -> PublisherStates]
      /\ publishers[p].pc = "writeManifest" /\ Writing(p)
      /\ Id(p) \in Ids /\ Id(p) <= begun /\ archives[Id(p)] = "whole"
      /\ \A q \in Publishers : Writing(q) /\ q # p => Id(q) # Id(p)
  BY DEF IInv, TypeOK, WriteManifest, At, Writing, OwnIds, VerifiedStays
<1>2. /\ publishers' \in [Publishers -> PublisherStates]
      /\ \A q \in Publishers : q # p => publishers'[q] = publishers[q]
      /\ publishers'[p].pc = "list" /\ publishers'[p].id = publishers[p].id
  <2>1. Continue(p, "list") /\ "list" \in PublisherSteps
    BY DEF WriteManifest, PublisherSteps
  <2> QED BY <1>1, <2>1, ContinueEffect
<1>3. /\ manifests' \in [Ids -> {"absent", "torn", "whole"}]
      /\ modified' \in [Ids -> Nat] /\ clock' \in Nat
      /\ \A j \in Ids : j # Id(p) => manifests'[j] = manifests[j]
  <2>1. CASE Touch(Id(p), "whole")
    BY <1>1, <2>1, TouchEffect DEF IInv
  <2>2. CASE UNCHANGED <<manifests, modified, clock>>
    BY <2>2 DEF IInv, TypeOK
  <2> QED BY <2>1, <2>2 DEF WriteManifest
<1>4. UNCHANGED <<archives, created, begun, undeleted, reported, loader, faults>>
  BY DEF WriteManifest
<1>5. \A q \in Publishers : q # p => /\ Writing(q)' <=> Writing(q)
                                     /\ Condemned(q)' <=> Condemned(q)
                                     /\ Id(q)' = Id(q)
  BY <1>2 DEF Writing, Condemned, Id
<1>6. ~Writing(p)' /\ ~Condemned(p)'
  BY <1>2 DEF Writing, Condemned
<1>7. TypeOK'
  BY <1>2, <1>3, <1>4 DEF IInv, TypeOK
<1>8. UnusedIds'
  <2>1. begun \in Nat
    BY CheckpointConstants DEF IInv, TypeOK
  <2> QED BY <1>1, <1>3, <1>4, <2>1 DEF IInv, UnusedIds, Ids
<1>9. ManifestsAreBacked'
  BY <1>1, <1>3, <1>4 DEF IInv, ManifestsAreBacked
<1>10. OwnIds'
  <2>1. \A q \in Publishers : Writing(q) => Id(q) \in Ids
    BY DEF IInv, OwnIds
  <2> QED BY <1>1, <1>3, <1>4, <1>5, <1>6, <2>1 DEF IInv, OwnIds
<1>11. VerifiedStays'
  BY <1>2, <1>4, <1>5 DEF IInv, VerifiedStays
<1>12. PublishedOnly'
  BY <1>2, <1>4, <1>5, <1>6 DEF IInv, PublishedOnly
<1>13. ManifestFirst'
  <2>1. \A q \in Publishers : publishers'[q].pc = "dropArchive" =>
          q # p /\ Condemned(q) /\ publishers[q].pc = "dropArchive"
    BY <1>2 DEF Condemned
  <2>2. \A q \in Publishers : Condemned(q) =>
          publishers[q].cur \in Ids /\ publishers[q].cur # Id(p)
    BY <1>1 DEF IInv, PublishedOnly
  <2> QED BY <1>2, <1>3, <1>4, <2>1, <2>2 DEF IInv, ManifestFirst
<1>14. BusyHasId'
  BY <1>1, <1>2 DEF IInv, BusyHasId
<1> QED BY <1>7, <1>8, <1>9, <1>10, <1>11, <1>12, <1>13, <1>14 DEF IInv

\* Listing and reporting, and dying at any point, leave the files alone.
LEMMA QuietStep ==
  ASSUME IInv, NEW p \in Publishers, ListManifests(p) \/ Report(p) \/ Abandon(p)
  PROVE  IInv'
<1>1. publishers \in [Publishers -> PublisherStates]
  BY DEF IInv, TypeOK
<1>2. UNCHANGED <<archives, manifests, modified, clock, created, begun, loader, undeleted>>
  BY DEF ListManifests, Report, Abandon, bucket
<1>3. faults' \in Nat /\ reported' \subseteq Ids
  <2>1. Report(p) => Id(p) \in Ids
    BY DEF IInv, BusyHasId, Id, Report, At
  <2> QED BY <2>1 DEF IInv, TypeOK, ListManifests, Report, Abandon, Fault
<1>4. /\ publishers' \in [Publishers -> PublisherStates]
      /\ \A q \in Publishers : q # p => publishers'[q] = publishers[q]
      /\ publishers'[p].pc \in {"idle", "list", "prune"}
      /\ publishers'[p].pc # "idle" =>
           publishers'[p].id = publishers[p].id /\ publishers[p].pc # "idle"
  <2>1. CASE GiveUp(p)
    BY <1>1, <2>1, GiveUpEffect
  <2>2. CASE Continue(p, "prune") /\ At(p, "list")
    BY <1>1, <2>2, ContinueEffect DEF PublisherSteps, At
  <2>3. CASE /\ publishers' = [publishers EXCEPT ![p].pc = "prune", ![p].victims = Victims]
             /\ At(p, "list")
    BY <1>1, <2>3 DEF At, PublisherStates, PublisherSteps, Victims, Listed
  <2> QED BY <2>1, <2>2, <2>3 DEF ListManifests, Report, Abandon
<1>5. TypeOK'
  BY <1>2, <1>3, <1>4 DEF IInv, TypeOK
<1> QED BY <1>2, <1>4, <1>5, Harmless DEF IInv

\* Only a manifest that loads condemns its archive, so it was published.
LEMMA LoadVictimStep == ASSUME IInv, NEW p \in Publishers, LoadVictim(p) PROVE IInv'
<1>1. publishers \in [Publishers -> PublisherStates] /\ publishers[p].pc = "prune"
  BY DEF IInv, TypeOK, LoadVictim, At
<1> DEFINE victim(i) ==
         [pc |-> "dropManifest", id |-> Id(p), victims |-> publishers[p].victims \ {i},
          cur |-> i, valid |-> Loads(i)]
<1>2. PICK i \in publishers[p].victims : publishers' = [publishers EXCEPT ![p] = victim(i)]
  BY DEF LoadVictim
<1>3. i \in Ids
  BY <1>1 DEF PublisherStates
<1>4. /\ publishers' \in [Publishers -> PublisherStates]
      /\ \A q \in Publishers : q # p => publishers'[q] = publishers[q]
      /\ publishers'[p].pc = "dropManifest" /\ publishers'[p].id = publishers[p].id
      /\ publishers'[p].cur = i /\ publishers'[p].valid = Loads(i)
  <2>1. Loads(i) \in BOOLEAN
    BY DEF Loads
  <2>2. /\ victim(i) \in PublisherStates /\ victim(i).pc = "dropManifest"
        /\ victim(i).id = publishers[p].id /\ victim(i).cur = i
        /\ victim(i).valid = Loads(i)
    BY <1>1, <1>3, <2>1 DEF PublisherStates, PublisherSteps, Id
  <2> HIDE DEF victim
  <2> QED BY <1>1, <1>2, <2>2
<1>5. UNCHANGED <<archives, manifests, modified, clock, created, begun, reported, loader,
                  undeleted, faults>>
  BY DEF LoadVictim, bucket
<1>6. \A q \in Publishers : q # p => /\ Writing(q)' <=> Writing(q)
                                     /\ Condemned(q)' <=> Condemned(q)
                                     /\ Id(q)' = Id(q)
  BY <1>4 DEF Writing, Condemned, Id
<1>7. ~Writing(p)' /\ (Condemned(p)' => manifests[i] = "whole")
  BY <1>4 DEF Writing, Condemned, Loads
<1>8. TypeOK'
  BY <1>4, <1>5 DEF IInv, TypeOK
<1>9. UnusedIds' /\ ManifestsAreBacked'
  BY <1>5 DEF IInv, UnusedIds, ManifestsAreBacked
<1>10. OwnIds'
  BY <1>5, <1>6, <1>7 DEF IInv, OwnIds
<1>11. VerifiedStays'
  BY <1>4, <1>5, <1>6 DEF IInv, VerifiedStays
<1>12. PublishedOnly'
  <2>1. manifests[i] = "whole" =>
          i <= begun /\ \A q \in Publishers : Writing(q) => Id(q) # i
    <3>1. begun \in Nat /\ i \in Nat
      BY <1>3, CheckpointConstants DEF IInv, TypeOK, Ids
    <3> QED BY <1>3, <3>1 DEF IInv, UnusedIds, OwnIds
  <2> QED BY <1>3, <1>4, <1>5, <1>6, <1>7, <2>1 DEF IInv, PublishedOnly
<1>13. ManifestFirst'
  BY <1>4, <1>5 DEF IInv, ManifestFirst
<1>14. BusyHasId'
  BY <1>1, <1>3, <1>4 DEF IInv, BusyHasId
<1> QED BY <1>8, <1>9, <1>10, <1>11, <1>12, <1>13, <1>14 DEF IInv

\* The manifest is gone, or is remembered as one that could not be deleted.
LEMMA DropManifestStep == ASSUME IInv, NEW p \in Publishers, DropManifest(p) PROVE IInv'
<1> DEFINE cur == publishers[p].cur
           next == IF publishers[p].valid THEN "dropArchive" ELSE "prune"
<1>1. /\ publishers \in [Publishers -> PublisherStates]
      /\ publishers[p].pc = "dropManifest"
      /\ cur \in Ids \cup {NoId} /\ publishers[p].valid \in BOOLEAN
      /\ publishers[p].valid => cur \in Ids
  BY DEF IInv, TypeOK, DropManifest, At, PublisherStates, PublishedOnly, Condemned
<1>2. /\ publishers' \in [Publishers -> PublisherStates]
      /\ \A q \in Publishers : q # p => publishers'[q] = publishers[q]
      /\ publishers'[p].pc = next /\ publishers'[p].id = publishers[p].id
      /\ publishers'[p].cur = cur /\ publishers'[p].valid = publishers[p].valid
  <2>1. Continue(p, next) /\ next \in PublisherSteps
    BY DEF DropManifest, PublisherSteps
  <2> QED BY <1>1, <2>1, ContinueEffect
<1>3. /\ manifests' \in [Ids -> {"absent", "torn", "whole"}]
      /\ \A j \in Ids : manifests'[j] \in {manifests[j], "absent"}
      /\ undeleted \subseteq undeleted'
      /\ cur \in Ids => manifests'[cur] = "absent" \/ cur \in undeleted'
  BY DEF IInv, TypeOK, DropManifest
<1>4. UNCHANGED <<archives, modified, clock, created, begun, reported, loader>>
  BY DEF DropManifest
<1>5. \A q \in Publishers : /\ Writing(q)' <=> Writing(q)
                            /\ Condemned(q)' <=> Condemned(q)
                            /\ Id(q)' = Id(q)
                            /\ publishers'[q].cur = publishers[q].cur
  BY <1>1, <1>2 DEF Writing, Condemned, Id
<1>6. TypeOK'
  <2>1. undeleted' \subseteq Ids /\ faults' \in Nat
    <3>1. cur \in Ids
      BY DEF IInv, BusyHasId, DropManifest, At
    <3> QED BY <3>1 DEF IInv, TypeOK, DropManifest, Fault
  <2> QED BY <1>2, <1>3, <1>4, <2>1 DEF IInv, TypeOK
<1>7. UnusedIds'
  BY <1>3, <1>4 DEF IInv, UnusedIds
<1>8. ManifestsAreBacked'
  BY <1>3, <1>4 DEF IInv, ManifestsAreBacked
<1>9. OwnIds'
  <2>1. \A j \in Ids : manifests'[j] = "whole" => manifests[j] = "whole"
    BY <1>3
  <2> QED BY <1>4, <1>5, <2>1 DEF IInv, OwnIds
<1>10. VerifiedStays'
  BY <1>1, <1>2, <1>4, <1>5 DEF IInv, VerifiedStays
<1>11. PublishedOnly'
  BY <1>4, <1>5 DEF IInv, PublishedOnly
<1>12. ManifestFirst'
  <2>1. \A q \in Publishers : Condemned(q) => publishers[q].cur \in Ids
    BY DEF IInv, PublishedOnly
  <2>2. \A q \in Publishers : q # p /\ publishers[q].pc = "dropArchive" => Condemned(q)
    BY DEF Condemned
  <2>3. ASSUME NEW q \in Publishers, publishers'[q].pc = "dropArchive"
        PROVE  manifests'[publishers'[q].cur] # "whole" \/ publishers'[q].cur \in undeleted'
    <3>1. CASE q = p
      BY <1>1, <1>2, <1>3, <2>3, <3>1
    <3>2. CASE q # p
      BY <1>2, <1>3, <2>1, <2>2, <2>3, <3>2 DEF IInv, ManifestFirst
    <3> QED BY <3>1, <3>2
  <2> QED BY <2>3 DEF ManifestFirst
<1>13. BusyHasId'
  BY <1>1, <1>2 DEF IInv, BusyHasId
<1> QED BY <1>6, <1>7, <1>8, <1>9, <1>10, <1>11, <1>12, <1>13 DEF IInv

\* An archive goes only after its manifest, and only a published one.
LEMMA DropArchiveStep == ASSUME IInv, NEW p \in Publishers, DropArchive(p) PROVE IInv'
<1> DEFINE cur == publishers[p].cur
<1>1. /\ publishers \in [Publishers -> PublisherStates]
      /\ publishers[p].pc = "dropArchive"
      /\ cur \in Ids
      /\ manifests[cur] # "whole" \/ cur \in undeleted
      /\ \A q \in Publishers : Writing(q) => Id(q) # cur
  BY DEF IInv, TypeOK, DropArchive, At, PublishedOnly, Condemned, ManifestFirst
<1>2. /\ publishers' \in [Publishers -> PublisherStates]
      /\ \A q \in Publishers : q # p => publishers'[q] = publishers[q]
      /\ publishers'[p].pc = "prune" /\ publishers'[p].id = publishers[p].id
  <2>1. Continue(p, "prune") /\ "prune" \in PublisherSteps
    BY DEF DropArchive, PublisherSteps
  <2> QED BY <1>1, <2>1, ContinueEffect
<1>3. /\ archives' \in [Ids -> {"absent", "partial", "whole"}]
      /\ \A j \in Ids : j # cur => archives'[j] = archives[j]
  BY DEF IInv, TypeOK, DropArchive
<1>4. UNCHANGED <<manifests, modified, clock, created, begun, reported, loader, undeleted>>
  BY DEF DropArchive
<1>5. \A q \in Publishers : q # p => /\ Writing(q)' <=> Writing(q)
                                     /\ Condemned(q)' <=> Condemned(q)
                                     /\ Id(q)' = Id(q)
  BY <1>2 DEF Writing, Condemned, Id
<1>6. ~Writing(p)' /\ ~Condemned(p)'
  BY <1>2 DEF Writing, Condemned
<1>7. TypeOK'
  <2>1. faults' \in Nat
    BY DEF IInv, TypeOK, DropArchive, Fault
  <2> QED BY <1>2, <1>3, <1>4, <2>1 DEF IInv, TypeOK
<1>8. UnusedIds'
  BY <1>4 DEF IInv, UnusedIds
<1>9. ManifestsAreBacked'
  BY <1>1, <1>3, <1>4 DEF IInv, ManifestsAreBacked
<1>10. OwnIds'
  BY <1>4, <1>5, <1>6 DEF IInv, OwnIds
<1>11. VerifiedStays'
  <2>1. \A q \in Publishers : Writing(q) => Id(q) \in Ids
    BY DEF IInv, OwnIds
  <2> QED BY <1>1, <1>2, <1>3, <1>5, <2>1 DEF IInv, VerifiedStays, Writing
<1>12. PublishedOnly'
  BY <1>2, <1>4, <1>5, <1>6 DEF IInv, PublishedOnly
<1>13. ManifestFirst'
  BY <1>2, <1>4 DEF IInv, ManifestFirst
<1>14. BusyHasId'
  BY <1>1, <1>2 DEF IInv, BusyHasId
<1> QED BY <1>7, <1>8, <1>9, <1>10, <1>11, <1>12, <1>13, <1>14 DEF IInv

-----------------------------------------------------------------------------
(* The loader, and the theorem.                                            *)

\* A restore only reads.
LEMMA LoaderStep == ASSUME IInv, Restore PROVE IInv'
<1>1. UNCHANGED <<archives, manifests, modified, clock, created, begun, publishers,
                  reported, undeleted>>
  BY DEF Restore, LoadCheckpoint, StatManifest, WalkObjects, StatArchive, TryNext, Open,
     untouched, bucket
<1>2. faults' \in Nat
  <2>1. faults \in Nat
    BY DEF IInv, TypeOK
  <2>2. faults' = faults \/ Fault
    BY DEF Restore, LoadCheckpoint, StatManifest, WalkObjects, StatArchive, TryNext, Open
  <2> QED BY <2>1, <2>2 DEF Fault
<1>3. /\ loader' \in LoaderStates
      /\ loader'.pc \in {"open", "restored", "unlisted"} => loader'.cur # NoId
  <2>1. /\ loader \in LoaderStates /\ modified \in [Ids -> Nat] /\ reported \subseteq Ids
        /\ loader.pc \in {"open", "restored", "unlisted"} => loader.cur # NoId
        /\ IdleLoader \in LoaderStates
    BY IdleTypes DEF IInv, TypeOK
  <2>2. \A i \in Ids : i # NoId
    BY DEF Ids, NoId
  <2>3. CASE LoadCheckpoint
    <3>1. CASE loader' = [IdleLoader EXCEPT !.pc = "manifests", !.names = Listed,
                                            !.promised = Listed \cap reported]
      BY <2>1, <3>1 DEF LoaderStates, LoaderSteps, Listed
    <3>2. CASE \E i \in reported :
                 loader' = [IdleLoader EXCEPT !.pc = "try", !.left = {i}, !.promised = {i}]
      <4>1. PICK i \in reported :
              loader' = [IdleLoader EXCEPT !.pc = "try", !.left = {i}, !.promised = {i}]
        BY <3>2
      <4>2. {i} \in SUBSET Ids
        BY <2>1
      <4> QED BY <2>1, <4>1, <4>2 DEF LoaderStates, LoaderSteps
    <3> QED BY <2>3, <3>1, <3>2 DEF LoadCheckpoint
  <2>4. CASE StatManifest
    <3>1. PICK i \in Ids :
            loader' = IF manifests[i] = "absent"
                      THEN [loader EXCEPT !.pc = "unlisted", !.cur = i]
                      ELSE [loader EXCEPT !.names = @ \ {i}, !.left = @ \cup {i},
                                          !.order[i] = modified[i]]
      BY <2>4 DEF StatManifest
    <3>2. loader.pc = "manifests" /\ modified[i] \in Nat
      BY <2>1, <2>4 DEF StatManifest, LoaderAt
    <3> QED BY <2>1, <2>2, <3>1, <3>2 DEF LoaderStates, LoaderSteps
  <2>5. CASE WalkObjects
    BY <2>1, <2>5 DEF WalkObjects, LoaderStates, LoaderSteps
  <2>6. CASE StatArchive
    <3>1. CASE \E i \in Ids :
                 loader' = IF archives[i] = "absent"
                           THEN [loader EXCEPT !.pc = "unlisted", !.cur = i]
                           ELSE [loader EXCEPT !.names = @ \ {i}]
      <4>1. PICK i \in Ids :
                 loader' = IF archives[i] = "absent"
                           THEN [loader EXCEPT !.pc = "unlisted", !.cur = i]
                           ELSE [loader EXCEPT !.names = @ \ {i}]
        BY <3>1
      <4>2. loader.pc = "objects" /\ loader.names \ {i} \in SUBSET Ids
        BY <2>1, <2>6 DEF StatArchive, LoaderAt, LoaderStates
      <4> QED BY <2>1, <2>2, <4>1, <4>2 DEF LoaderStates, LoaderSteps
    <3>2. CASE loader' = [loader EXCEPT !.pc = "try"]
      BY <2>1, <3>2 DEF LoaderStates, LoaderSteps
    <3> QED BY <2>6, <3>1, <3>2 DEF StatArchive
  <2>7. CASE TryNext
    <3>1. CASE \E i \in loader.left :
                 \/ loader' = [loader EXCEPT !.left = @ \ {i}, !.cur = i,
                                             !.pc = IF Loads(i) THEN "open" ELSE "try"]
                 \/ loader' = [loader EXCEPT !.left = @ \ {i}, !.unread = @ \cup {i}]
      <4>1. PICK i \in loader.left :
              \/ loader' = [loader EXCEPT !.left = @ \ {i}, !.cur = i,
                                          !.pc = IF Loads(i) THEN "open" ELSE "try"]
              \/ loader' = [loader EXCEPT !.left = @ \ {i}, !.unread = @ \cup {i}]
        BY <3>1
      <4>2. i \in Ids /\ i # NoId /\ loader.pc = "try"
        BY <2>1, <2>2, <2>7 DEF LoaderStates, TryNext, LoaderAt
      <4>3. loader.left \ {i} \in SUBSET Ids /\ loader.unread \cup {i} \in SUBSET Ids
        BY <2>1, <4>2 DEF LoaderStates
      <4>4. CASE loader' = [loader EXCEPT !.left = @ \ {i}, !.cur = i,
                                          !.pc = IF Loads(i) THEN "open" ELSE "try"]
        BY <2>1, <4>2, <4>3, <4>4 DEF LoaderStates, LoaderSteps
      <4>5. CASE loader' = [loader EXCEPT !.left = @ \ {i}, !.unread = @ \cup {i}]
        BY <2>1, <4>2, <4>3, <4>5 DEF LoaderStates, LoaderSteps
      <4> QED BY <4>1, <4>4, <4>5
    <3>2. CASE loader' = [loader EXCEPT !.pc = "failed", !.cur = NoId]
      BY <2>1, <3>2 DEF LoaderStates, LoaderSteps
    <3> QED BY <2>7, <3>1, <3>2 DEF TryNext
  <2>8. CASE Open
    <3>1. loader.cur \in Ids /\ loader.pc = "open"
      BY <2>1, <2>8 DEF Open, LoaderAt, LoaderStates
    <3>2. loader.unread \cup {loader.cur} \in SUBSET Ids
      BY <2>1, <3>1 DEF LoaderStates
    <3>3. CASE loader' = [loader EXCEPT !.pc = IF archives[loader.cur] = "whole"
                                               THEN "restored" ELSE "try"]
      BY <2>1, <3>1, <3>3 DEF LoaderStates, LoaderSteps
    <3>4. CASE loader' = [loader EXCEPT !.pc = "try", !.unread = @ \cup {loader.cur}]
      BY <2>1, <3>1, <3>2, <3>4 DEF LoaderStates, LoaderSteps
    <3>5. CASE loader' = [loader EXCEPT !.pc = "halfUnpacked"]
      BY <2>1, <3>1, <3>5 DEF LoaderStates, LoaderSteps
    <3> QED BY <2>8, <3>3, <3>4, <3>5 DEF Open
  <2> QED BY <2>3, <2>4, <2>5, <2>6, <2>7, <2>8 DEF Restore
<1>4. TypeOK'
  BY <1>1, <1>2, <1>3 DEF IInv, TypeOK
<1>5. /\ BusyHasId' /\ UnusedIds' /\ OwnIds' /\ VerifiedStays' /\ PublishedOnly'
      /\ ManifestFirst' /\ ManifestsAreBacked'
  BY <1>1 DEF IInv, BusyHasId, UnusedIds, OwnIds, VerifiedStays, PublishedOnly,
     ManifestFirst, ManifestsAreBacked, Writing, Condemned, Id
<1> QED BY <1>4, <1>5 DEF IInv

\* The empty bucket satisfies the invariant.
LEMMA InitInvariant == Init => IInv
<1> SUFFICES ASSUME Init PROVE IInv
  OBVIOUS
<1>1. \A p \in Publishers : publishers[p].pc = "idle"
  BY DEF Init, IdlePublisher
<1>2. TypeOK
  <2>1. loader.pc = "idle"
    BY DEF Init, IdleLoader
  <2> QED BY <2>1, IdleTypes, CheckpointConstants DEF Init, TypeOK, Ids
<1> QED BY <1>1, <1>2 DEF Init, IInv, BusyHasId, UnusedIds, OwnIds, VerifiedStays,
           PublishedOnly, ManifestFirst, ManifestsAreBacked, Writing, Condemned

\* Every step preserves it.
LEMMA StepInvariant == IInv /\ [Next]_vars => IInv'
<1> SUFFICES ASSUME IInv, [Next]_vars PROVE IInv'
  OBVIOUS
<1>1. CASE UNCHANGED vars
  BY <1>1 DEF vars, IInv, TypeOK, BusyHasId, UnusedIds, OwnIds, VerifiedStays,
     PublishedOnly, ManifestFirst, ManifestsAreBacked, Writing, Condemned, Id
<1>2. ASSUME NEW p \in Publishers, Publish(p) PROVE IInv'
  BY <1>2, BeginStep, WriteArchiveStep, VerifyStep, CreateManifestStep, WriteManifestStep,
     QuietStep, LoadVictimStep, DropManifestStep, DropArchiveStep DEF Publish
<1>3. CASE Restore
  BY <1>3, LoaderStep
<1> QED BY <1>1, <1>2, <1>3 DEF Next

\* The inductive invariant holds in every reachable state: publishers own the
\* ids they write, and only published archives are condemned
\* (PublishCheckpoint, pruneCheckpoints).
THEOREM Invariance == Spec => []IInv
BY InitInvariant, StepInvariant, PTL DEF Spec

\* Every reachable state of the bucket is well-typed, and a restore that says
\* it succeeded has a checkpoint (LoadCheckpoint).
THEOREM TypeCorrect == Spec => []TypeOK
<1>1. IInv => TypeOK
  BY DEF IInv
<1> QED BY <1>1, Invariance, PTL

\* A readable manifest always has its archive unless its deletion failed,
\* whatever publishers and pruners run at once or die on the way
\* (PublishCheckpoint, pruneCheckpoints).
THEOREM Backed == Spec => []ManifestsAreBacked
<1>1. IInv => ManifestsAreBacked
  BY DEF IInv
<1> QED BY <1>1, Invariance, PTL

-----------------------------------------------------------------------------
(* What a restore may rely on: a checkpoint that was reported loads, or as *)
(* many manifests as retention keeps were written after it was created.    *)

\* A publisher whose manifest has no file yet, and one that has written it.
Unlisted(p) == publishers[p].pc \in {"writeArchive", "verify", "createManifest"}
Pruning(p) == publishers[p].pc \in {"list", "prune", "dropManifest", "dropArchive"}

\* The time i was created is not going to change any more.
Dated(i) == i <= begun /\ \A p \in Publishers : Unlisted(p) => Id(p) # i

\* What a pruner has chosen and not finished with, and what a publisher has
\* committed.
Chosen(p) == publishers[p].victims \cup
  (IF publishers[p].pc \in {"dropManifest", "dropArchive"} THEN {publishers[p].cur} ELSE {})
Settled == reported \cup {i \in Ids : \E p \in Publishers : Pruning(p) /\ Id(p) = i}

Clocked == \A i \in Ids : modified[i] <= clock /\ created[i] <= modified[i]
Unwritten == \A p \in Publishers : Unlisted(p) => manifests[Id(p)] = "absent"
ChosenOverrun == \A p \in Publishers : \A i \in Chosen(p) : i \in Ids /\ Dated(i) /\ Overrun(i)
WrittenStays == \A p \in Publishers : publishers[p].pc = "writeManifest" =>
  manifests[Id(p)] # "absent" \/ Overrun(Id(p))
SettledLoads == \A i \in Settled : Dated(i) /\ (Loads(i) \/ Overrun(i))

RInv == Clocked /\ Unwritten /\ ChosenOverrun /\ WrittenStays /\ SettledLoads

\* What the walk still has to look at is there, or retention took it.
WalkInv ==
  /\ LoaderAt("manifests") => \A i \in loader.names :
       Dated(i) /\ (manifests[i] # "absent" \/ Overrun(i))
  /\ LoaderAt("objects") => \A i \in loader.names :
       archives[i] # "absent" \/ (Dated(i) /\ Overrun(i))
  /\ LoaderAt("unlisted") => Dated(loader.cur) /\ Overrun(loader.cur)

\* A promised checkpoint was overrun or could not be read, or the restore has it
\* at hand, or will come to it and finds it older than the one at hand.
Kept(i) ==
  \/ Overrun(i)
  \/ i \in loader.unread
  \/ i \in loader.names /\ loader.pc = "manifests"
  \/ /\ i \in loader.left
     /\ loader.pc \in {"open", "restored"} => loader.order[i] <= loader.order[loader.cur]
  \/ i = loader.cur /\ loader.pc \in {"open", "restored"}

RestoreInv ==
  /\ loader.promised \subseteq reported
  /\ LoaderAt("failed") => loader.left = {}
  /\ loader.pc \notin {"unlisted", "halfUnpacked"} => \A i \in loader.promised : Kept(i)

\* There are finitely many ids.
LEMMA FiniteIds == IsFiniteSet(Ids)
BY FS_Interval, CheckpointConstants DEF Ids

\* More recent manifests never become fewer.
LEMMA OverrunStays ==
  ASSUME NEW i \in Ids, modified \in [Ids -> Nat], modified' \in [Ids -> Nat], created \in [Ids -> Nat],
         \A j \in Ids : modified[j] <= modified'[j], created'[i] = created[i], Overrun(i)
  PROVE  Overrun(i)'
<1> DEFINE S == {j \in Ids \ {i} : modified[j] > created[i]}
           T == {j \in Ids \ {i} : modified'[j] > created'[i]}
<1>1. S \subseteq T /\ T \subseteq Ids
  OBVIOUS
<1>2. IsFiniteSet(T) /\ IsFiniteSet(S)
  BY <1>1, FiniteIds, FS_Subset
<1>3. Cardinality(S) <= Cardinality(T) /\ Cardinality(S) \in Nat /\ Cardinality(T) \in Nat
  BY <1>1, <1>2, FS_Subset, FS_CardinalityType
<1>4. Cardinality(S) >= Retain
  BY DEF Overrun
<1>5. Cardinality(T) >= Retain
  BY <1>3, <1>4, CheckpointConstants
<1>6. QED
  BY <1>5 DEF Overrun

\* What retention chooses has been overrun: a manifest is created no later than
\* it is modified.
LEMMA VictimsOverrun ==
  ASSUME IInv, RInv, NEW i \in Victims PROVE i \in Ids /\ Dated(i) /\ Overrun(i)
<1>1. i \in Ids /\ manifests[i] # "absent" /\ Cardinality(Newer(i)) >= Retain
  BY DEF Victims, Listed
<1> DEFINE S == {j \in Ids \ {i} : modified[j] > created[i]}
<1>2. Newer(i) \subseteq S
  <2>1. modified \in [Ids -> Nat] /\ created \in [Ids -> Nat] /\ created[i] <= modified[i]
    BY <1>1 DEF IInv, TypeOK, RInv, Clocked
  <2>2. QED
    BY <1>1, <2>1 DEF Newer, Listed
<1>3. IsFiniteSet(S)
  BY FiniteIds, FS_Subset
<1>4. Cardinality(Newer(i)) <= Cardinality(S) /\ Cardinality(Newer(i)) \in Nat
      /\ Cardinality(S) \in Nat
  BY <1>2, <1>3, FS_Subset, FS_CardinalityType
<1>5. Cardinality(S) >= Retain
  BY <1>1, <1>4, CheckpointConstants
<1>6. Overrun(i)
  BY <1>5 DEF Overrun
<1>7. Dated(i)
  <2>1. begun \in Nat /\ i \in Nat
    BY <1>1, CheckpointConstants DEF IInv, TypeOK, Ids
  <2>2. i <= begun
    BY <1>1, <2>1 DEF IInv, UnusedIds
  <2>3. QED
    BY <1>1, <2>2 DEF RInv, Unwritten, Dated
<1>8. QED
  BY <1>1, <1>6, <1>7

\* Where a step of p can leave it, and from where.
LEMMA PublisherMoves ==
  ASSUME IInv, NEW p \in Publishers, Publish(p)
  PROVE  /\ \A q \in Publishers : q # p => publishers'[q] = publishers[q]
         /\ Unlisted(p)' => Begin(p) \/ (Unlisted(p) /\ ~CreateManifest(p) /\ Id(p)' = Id(p))
         /\ publishers'[p].pc = "writeManifest" => CreateManifest(p) /\ Id(p)' = Id(p)
         /\ Pruning(p)' => (Pruning(p) \/ WriteManifest(p)) /\ Id(p)' = Id(p)
         /\ \A i \in Chosen(p)' : i \in Chosen(p) \/ i \in Victims
<1>0. publishers \in [Publishers -> PublisherStates]
  BY DEF IInv, TypeOK
<1> DEFINE G == /\ \A q \in Publishers : q # p => publishers'[q] = publishers[q]
                /\ Unlisted(p)' => Begin(p) \/ (Unlisted(p) /\ ~CreateManifest(p) /\ Id(p)' = Id(p))
                /\ publishers'[p].pc = "writeManifest" => CreateManifest(p) /\ Id(p)' = Id(p)
                /\ Pruning(p)' => (Pruning(p) \/ WriteManifest(p)) /\ Id(p)' = Id(p)
                /\ \A i \in Chosen(p)' : i \in Chosen(p) \/ i \in Victims
<1>1. ASSUME GiveUp(p) PROVE G
  BY <1>0, <1>1, GiveUpEffect DEF Unlisted, Pruning, Chosen
<1>2. CASE Begin(p)
  <2>1. /\ \A q \in Publishers : q # p => publishers'[q] = publishers[q]
        /\ publishers'[p].pc = "writeArchive" /\ publishers'[p].victims = {}
    BY <1>0, <1>2 DEF Begin, IdlePublisher
  <2>2. QED
    BY <1>2, <2>1 DEF Unlisted, Pruning, Chosen
<1>3. ASSUME NEW step \in PublisherSteps, Continue(p, step),
             step \in {"verify", "createManifest"} => Unlisted(p) /\ ~CreateManifest(p),
             step # "writeArchive",
             step = "writeManifest" => CreateManifest(p),
             step \in {"list", "prune", "dropManifest", "dropArchive"} => Pruning(p) \/ WriteManifest(p),
             step \in {"dropManifest", "dropArchive"} => publishers[p].pc = "dropManifest"
      PROVE  G
  <2>1. /\ \A q \in Publishers : q # p => publishers'[q] = publishers[q]
        /\ publishers'[p].pc = step /\ publishers'[p].id = publishers[p].id
        /\ publishers'[p].cur = publishers[p].cur
        /\ publishers'[p].victims = publishers[p].victims
    BY <1>0, <1>3, ContinueEffect
  <2>2. \A i \in Chosen(p)' : i \in Chosen(p)
    BY <1>3, <2>1 DEF Chosen
  <2>3. Id(p)' = Id(p)
    BY <2>1 DEF Id
  <2>4. QED
    BY <1>3, <2>1, <2>2, <2>3 DEF Unlisted, Pruning
<1>4. CASE WriteArchive(p)
  <2>1. Continue(p, "verify") /\ publishers[p].pc = "writeArchive" /\ "verify" \in PublisherSteps
    BY <1>4 DEF WriteArchive, At, PublisherSteps
  <2>2. Unlisted(p) /\ ~CreateManifest(p)
    BY <2>1 DEF Unlisted, CreateManifest, At
  <2>3. QED
    BY <1>3, <2>1, <2>2
<1>5. CASE Verify(p)
  <2>1. publishers[p].pc = "verify" /\ "createManifest" \in PublisherSteps
    BY <1>5 DEF Verify, At, PublisherSteps
  <2>2. Unlisted(p) /\ ~CreateManifest(p)
    BY <2>1 DEF Unlisted, CreateManifest, At
  <2>3. QED
    BY <1>1, <1>3, <1>5, <2>1, <2>2 DEF Verify
<1>6. CASE CreateManifest(p)
  <2>1. Continue(p, "writeManifest") /\ "writeManifest" \in PublisherSteps
    BY <1>6 DEF CreateManifest, PublisherSteps
  <2>2. QED
    BY <1>3, <1>6, <2>1
<1>7. CASE WriteManifest(p)
  <2>1. Continue(p, "list") /\ "list" \in PublisherSteps
    BY <1>7 DEF WriteManifest, PublisherSteps
  <2>2. QED
    BY <1>3, <1>7, <2>1
<1>8. CASE ListManifests(p)
  <2>1. publishers[p].pc = "list" /\ "prune" \in PublisherSteps
    BY <1>8 DEF ListManifests, At, PublisherSteps
  <2>2. Pruning(p)
    BY <2>1 DEF Pruning
  <2>3. CASE Continue(p, "prune")
    BY <1>3, <2>1, <2>2, <2>3
  <2>4. CASE publishers' = [publishers EXCEPT ![p].pc = "prune", ![p].victims = Victims]
    <3>1. /\ \A q \in Publishers : q # p => publishers'[q] = publishers[q]
          /\ publishers'[p].pc = "prune" /\ publishers'[p].id = publishers[p].id
          /\ publishers'[p].victims = Victims
      BY <1>0, <2>4 DEF PublisherStates
    <3>2. QED
      BY <2>2, <3>1 DEF Unlisted, Pruning, Chosen, Id
  <2>5. QED
    BY <1>8, <2>3, <2>4 DEF ListManifests
<1>9. CASE LoadVictim(p)
  <2>1. publishers[p].pc = "prune"
    BY <1>9 DEF LoadVictim, At
  <2>2. PICK i \in publishers[p].victims : publishers' = [publishers EXCEPT ![p] =
         [pc |-> "dropManifest", id |-> Id(p), victims |-> publishers[p].victims \ {i},
          cur |-> i, valid |-> Loads(i)]]
    BY <1>9 DEF LoadVictim
  <2>3. /\ \A q \in Publishers : q # p => publishers'[q] = publishers[q]
        /\ publishers'[p].pc = "dropManifest" /\ publishers'[p].id = publishers[p].id
        /\ publishers'[p].cur = i /\ publishers'[p].victims = publishers[p].victims \ {i}
    BY <1>0, <2>2 DEF Id
  <2>4. QED
    BY <2>1, <2>3 DEF Unlisted, Pruning, Chosen, Id
<1>10. CASE DropManifest(p)
  <2>1. publishers[p].pc = "dropManifest" /\ "prune" \in PublisherSteps
        /\ "dropArchive" \in PublisherSteps
    BY <1>10 DEF DropManifest, At, PublisherSteps
  <2>2. Continue(p, "prune") \/ Continue(p, "dropArchive")
    BY <1>10 DEF DropManifest
  <2>3. Pruning(p)
    BY <2>1 DEF Pruning
  <2>4. QED
    BY <1>3, <2>1, <2>2, <2>3
<1>11. CASE DropArchive(p)
  <2>1. publishers[p].pc = "dropArchive" /\ Continue(p, "prune") /\ "prune" \in PublisherSteps
    BY <1>11 DEF DropArchive, At, PublisherSteps
  <2>2. Pruning(p)
    BY <2>1 DEF Pruning
  <2>3. QED
    BY <1>3, <2>1, <2>2
<1>12. CASE Report(p) \/ Abandon(p)
  BY <1>1, <1>12 DEF Report, Abandon
<1>13. QED
  BY <1>2, <1>4, <1>5, <1>6, <1>7, <1>8, <1>9, <1>10, <1>11, <1>12 DEF Publish

\* Manifests are touched at later and later times, and only a publisher whose
\* manifest has no file yet sets the time of creation.
LEMMA TimeMoves ==
  ASSUME IInv, RInv, [Next]_vars
  PROVE  /\ Clocked'
         /\ \A j \in Ids : modified[j] <= modified'[j]
         /\ \A i \in Ids : created'[i] = created[i]
                           \/ \E p \in Publishers : CreateManifest(p) /\ Id(p) = i
<1>0. /\ modified \in [Ids -> Nat] /\ created \in [Ids -> Nat] /\ clock \in Nat
      /\ \A i \in Ids : modified[i] <= clock /\ created[i] <= modified[i]
  BY DEF IInv, TypeOK, RInv, Clocked
<1>1. ASSUME UNCHANGED <<modified, clock, created>> PROVE Clocked' /\ \A j \in Ids : modified[j] <= modified'[j]
  BY <1>0, <1>1 DEF Clocked
<1>2. ASSUME NEW p \in Publishers, CreateManifest(p) PROVE Clocked' /\ \A j \in Ids : modified[j] <= modified'[j]
  <2>1. Id(p) \in Ids
    BY <1>2 DEF IInv, BusyHasId, Id, CreateManifest, At
  <2>2. /\ modified' = [modified EXCEPT ![Id(p)] = clock + 1] /\ clock' = clock + 1
        /\ created' = [created EXCEPT ![Id(p)] = clock + 1]
    BY <1>2 DEF CreateManifest, Touch
  <2>3. QED
    BY <1>0, <2>1, <2>2 DEF Clocked
<1>3. ASSUME NEW p \in Publishers, WriteManifest(p) PROVE Clocked' /\ \A j \in Ids : modified[j] <= modified'[j]
  <2>1. Id(p) \in Ids
    BY <1>3 DEF IInv, BusyHasId, Id, WriteManifest, At
  <2>2. CASE UNCHANGED <<modified, clock>>
    BY <1>1, <1>3, <2>2 DEF WriteManifest
  <2>3. CASE Touch(Id(p), "whole")
    <3>1. /\ modified' = [modified EXCEPT ![Id(p)] = clock + 1] /\ clock' = clock + 1
          /\ created' = created
      BY <1>3, <2>3 DEF WriteManifest, Touch
    <3>2. QED
      BY <1>0, <2>1, <3>1 DEF Clocked
  <2>4. QED
    BY <1>3, <2>2, <2>3 DEF WriteManifest
<1>4. \/ UNCHANGED <<modified, clock, created>>
      \/ \E p \in Publishers : CreateManifest(p) \/ WriteManifest(p)
  BY DEF Next, vars, Publish, Begin, WriteArchive, Verify, ListManifests, LoadVictim,
     DropManifest, DropArchive, Report, Abandon, Restore, LoadCheckpoint, StatManifest,
     WalkObjects, StatArchive, TryNext, Open, untouched, bucket
<1>5. \A i \in Ids : created'[i] = created[i]
                     \/ \E p \in Publishers : CreateManifest(p) /\ Id(p) = i
  <2>1. ASSUME NEW p \in Publishers, CreateManifest(p), NEW i \in Ids, i # Id(p)
        PROVE  created'[i] = created[i]
    BY <1>0, <2>1 DEF CreateManifest
  <2>2. ASSUME NEW p \in Publishers, WriteManifest(p) PROVE created' = created
    BY <2>2 DEF WriteManifest
  <2>3. QED
    BY <1>4, <2>1, <2>2
<1>6. QED
  BY <1>1, <1>2, <1>3, <1>4, <1>5

\* The publisher that takes a step, or a step that is not a publisher's.
LEMMA WhoMoves ==
  ASSUME [Next]_vars
  PROVE  \/ \E p \in Publishers : Publish(p)
         \/ UNCHANGED untouched
BY DEF Next, vars, bucket, Restore, LoadCheckpoint, StatManifest, WalkObjects, StatArchive,
   TryNext, Open, untouched

\* A checkpoint whose time is settled stays so, and overrun once it is overrun.
LEMMA DatedStays ==
  ASSUME IInv, RInv, [Next]_vars, NEW i \in Ids, Dated(i)
  PROVE  Dated(i)' /\ (Overrun(i) => Overrun(i)')
<1>0. begun \in Nat /\ i \in Nat
  BY CheckpointConstants DEF IInv, TypeOK, Ids
<1>1. Dated(i)'
  <2>1. CASE UNCHANGED untouched
    BY <2>1 DEF Dated, Unlisted, Id, untouched
  <2>2. ASSUME NEW p \in Publishers, Publish(p) PROVE Dated(i)'
    <3>1. begun' >= begun /\ (Begin(p) => begun' = begun + 1 /\ Id(p)' = begun + 1)
      <4>1. begun' = begun \/ Begin(p)
        BY <2>2 DEF Publish, WriteArchive, Verify, CreateManifest, WriteManifest,
           ListManifests, LoadVictim, DropManifest, DropArchive, Report, Abandon
      <4>2. Begin(p) => begun' = begun + 1 /\ Id(p)' = begun + 1
        BY DEF Begin, IInv, TypeOK, IdlePublisher, Id
      <4>3. QED
        BY <1>0, <4>1, <4>2
    <3>2. i <= begun /\ begun' \in Nat
      BY StepInvariant, CheckpointConstants DEF Dated, IInv, TypeOK
    <3>3. \A q \in Publishers : Unlisted(q)' => Id(q)' # i
      <4>1. \A q \in Publishers : q # p => (Unlisted(q)' <=> Unlisted(q)) /\ Id(q)' = Id(q)
        BY <2>2, PublisherMoves DEF Unlisted, Id
      <4>2. Unlisted(p)' => Id(p)' # i
        BY <1>0, <2>2, <3>1, <3>2, PublisherMoves DEF Dated
      <4>3. QED
        BY <4>1, <4>2 DEF Dated
    <3>4. i <= begun'
      BY <1>0, <3>1, <3>2
    <3>5. QED
      BY <3>3, <3>4 DEF Dated
  <2>3. QED
    BY <2>1, <2>2, WhoMoves
<1>2. ASSUME Overrun(i) PROVE Overrun(i)'
  <2>1. ASSUME NEW p \in Publishers, CreateManifest(p) PROVE Id(p) # i
    BY <2>1 DEF Dated, Unlisted, CreateManifest, At
  <2>2. created'[i] = created[i] /\ \A j \in Ids : modified[j] <= modified'[j]
    BY <2>1, TimeMoves
  <2>3. modified \in [Ids -> Nat] /\ modified' \in [Ids -> Nat] /\ created \in [Ids -> Nat]
    BY StepInvariant DEF IInv, TypeOK
  <2>4. QED
    BY <1>2, <2>2, <2>3, OverrunStays
<1>3. QED
  BY <1>1, <1>2

\* A checkpoint that loads does so until it is overrun.
LEMMA LoadsStays ==
  ASSUME IInv, RInv, [Next]_vars, NEW i \in Ids, Dated(i), Loads(i)
  PROVE  Loads(i)' \/ Overrun(i)'
<1>0. /\ archives \in [Ids -> {"absent", "partial", "whole"}]
      /\ manifests \in [Ids -> {"absent", "torn", "whole"}]
      /\ i \in Nat /\ begun \in Nat /\ i <= begun
  BY CheckpointConstants DEF IInv, TypeOK, Ids, Dated
<1>1. CASE UNCHANGED untouched
  BY <1>1 DEF Loads, untouched, bucket
<1>2. ASSUME NEW p \in Publishers, Publish(p) PROVE Loads(i)' \/ Overrun(i)'
  <2>1. CASE DropManifest(p) \/ DropArchive(p)
    <3> DEFINE cur == publishers[p].cur
    <3>1. cur \in Chosen(p)
      BY <2>1 DEF Chosen, DropManifest, DropArchive, At
    <3>2. CASE cur = i
      BY <3>1, <3>2, DatedStays DEF RInv, ChosenOverrun
    <3>3. CASE cur # i
      <4>1. manifests'[i] = manifests[i] /\ archives'[i] = archives[i]
        BY <1>0, <2>1, <3>3 DEF DropManifest, DropArchive
      <4>2. QED
        BY <4>1 DEF Loads
    <3>4. QED
      BY <3>2, <3>3
  <2>2. CASE Begin(p)
    BY <1>0, <2>2 DEF Begin, Loads
  <2>3. CASE WriteArchive(p)
    BY <1>0, <2>3 DEF WriteArchive, Loads
  <2>4. CASE CreateManifest(p)
    <3>1. Id(p) # i
      BY <2>4 DEF Dated, Unlisted, CreateManifest, At
    <3>2. QED
      BY <1>0, <2>4, <3>1 DEF CreateManifest, Touch, Loads
  <2>5. CASE WriteManifest(p)
    BY <1>0, <2>5 DEF WriteManifest, Touch, Loads
  <2>6. CASE Verify(p) \/ ListManifests(p) \/ LoadVictim(p) \/ Report(p) \/ Abandon(p)
    BY <2>6 DEF Verify, ListManifests, LoadVictim, Report, Abandon, bucket, Loads
  <2>7. QED
    BY <1>2, <2>1, <2>2, <2>3, <2>4, <2>5, <2>6 DEF Publish
<1>3. QED
  BY <1>1, <1>2, WhoMoves

\* Nobody else writes the manifest of a publisher that has not created its own.
LEMMA UnwrittenStep == ASSUME IInv, RInv, [Next]_vars PROVE Unwritten'
<1>1. CASE UNCHANGED untouched
  BY <1>1 DEF RInv, Unwritten, Unlisted, Id, untouched, bucket
<1>2. ASSUME NEW p \in Publishers, Publish(p), NEW q \in Publishers, Unlisted(q)'
      PROVE  manifests'[Id(q)'] = "absent"
  <2>0. manifests \in [Ids -> {"absent", "torn", "whole"}]
    BY DEF IInv, TypeOK
  <2>1. CASE Begin(p) /\ p = q
    <3>1. Id(q)' = begun + 1 /\ begun + 1 \in Ids /\ begun \in Nat /\ manifests' = manifests
      BY <2>1, CheckpointConstants DEF Begin, IInv, TypeOK, IdlePublisher, Id, Ids
    <3>2. manifests[begun + 1] = "absent"
      BY <3>1 DEF IInv, UnusedIds
    <3>3. QED
      BY <3>1, <3>2
  <2>2. CASE ~(Begin(p) /\ p = q)
    <3>1. Unlisted(q) /\ Id(q)' = Id(q) /\ (p = q => ~CreateManifest(p))
      BY <1>2, <2>2, PublisherMoves DEF Unlisted, Id
    <3>2. manifests[Id(q)] = "absent" /\ Id(q) \in Ids /\ Writing(q)
      BY <3>1 DEF RInv, Unwritten, IInv, OwnIds, Writing, Unlisted
    <3>3. ASSUME CreateManifest(p) \/ WriteManifest(p) PROVE Id(p) # Id(q) /\ Id(p) \in Ids
      <4>1. Writing(p) /\ p # q
        BY <3>1, <3>3 DEF Writing, Unlisted, CreateManifest, WriteManifest, At
      <4>2. QED
        BY <3>2, <4>1 DEF IInv, OwnIds
    <3>4. manifests'[Id(q)] = "absent"
      <4>1. CASE CreateManifest(p) \/ WriteManifest(p)
        BY <2>0, <3>2, <3>3, <4>1 DEF CreateManifest, WriteManifest, Touch
      <4>2. CASE DropManifest(p)
        BY <2>0, <3>2, <4>2 DEF DropManifest
      <4>3. CASE ~CreateManifest(p) /\ ~WriteManifest(p) /\ ~DropManifest(p)
        <5>1. manifests' = manifests
          BY <1>2, <4>3 DEF Publish, Begin, WriteArchive, Verify, ListManifests, LoadVictim,
             DropArchive, Report, Abandon, bucket
        <5>2. QED
          BY <3>2, <5>1
      <4>4. QED
        BY <4>1, <4>2, <4>3
    <3>5. QED
      BY <3>1, <3>4
  <2>3. QED
    BY <2>1, <2>2
<1>3. QED
  BY <1>1, <1>2, WhoMoves DEF Unwritten

\* A pruner's choice stays overrun, and it chooses only what is.
LEMMA ChosenStep == ASSUME IInv, RInv, [Next]_vars PROVE ChosenOverrun'
<1>1. ASSUME NEW q \in Publishers, NEW i \in Chosen(q)' PROVE i \in Chosen(q) \/ i \in Victims
  <2>1. CASE UNCHANGED untouched
    BY <1>1, <2>1 DEF Chosen, untouched
  <2>2. ASSUME NEW p \in Publishers, Publish(p) PROVE i \in Chosen(q) \/ i \in Victims
    <3>1. CASE p = q
      BY <1>1, <2>2, <3>1, PublisherMoves
    <3>2. CASE p # q
      BY <1>1, <2>2, <3>2, PublisherMoves DEF Chosen
    <3>3. QED
      BY <3>1, <3>2
  <2>3. QED
    BY <2>1, <2>2, WhoMoves
<1>2. ASSUME NEW q \in Publishers, NEW i \in Chosen(q)' PROVE (i \in Ids /\ Dated(i) /\ Overrun(i))'
  <2>1. i \in Ids /\ Dated(i) /\ Overrun(i)
    BY <1>1, <1>2, VictimsOverrun DEF RInv, ChosenOverrun
  <2>2. QED
    BY <2>1, DatedStays DEF Ids
<1>3. QED
  BY <1>2 DEF ChosenOverrun

\* A publisher that is writing its manifest has fixed the time of its checkpoint.
LEMMA WriterDated ==
  ASSUME IInv, NEW p \in Publishers, publishers[p].pc = "writeManifest"
  PROVE  Id(p) \in Ids /\ Dated(Id(p))
<1>1. Writing(p)
  BY DEF Writing
<1>2. \A q \in Publishers : Unlisted(q) => Writing(q) /\ q # p
  BY DEF Writing, Unlisted
<1>3. QED
  BY <1>1, <1>2 DEF IInv, OwnIds, Dated

\* A manifest that disappears while it is being written was overrun.
LEMMA WrittenStep == ASSUME IInv, RInv, [Next]_vars PROVE WrittenStays'
<1> SUFFICES ASSUME NEW q \in Publishers, publishers'[q].pc = "writeManifest"
             PROVE  manifests'[Id(q)'] # "absent" \/ Overrun(Id(q))'
  BY DEF WrittenStays
<1>0. manifests \in [Ids -> {"absent", "torn", "whole"}]
  BY DEF IInv, TypeOK
<1>1. CASE UNCHANGED untouched
  <2>1. publishers[q].pc = "writeManifest" /\ Id(q)' = Id(q) /\ manifests' = manifests
    BY <1>1 DEF Id, untouched, bucket
  <2>2. Overrun(Id(q))' <=> Overrun(Id(q))
    BY <1>1, <2>1 DEF Overrun, untouched, bucket
  <2>3. QED
    BY <2>1, <2>2 DEF RInv, WrittenStays
<1>2. ASSUME NEW p \in Publishers, Publish(p)
      PROVE  manifests'[Id(q)'] # "absent" \/ Overrun(Id(q))'
  <2>1. CASE p = q
    <3>1. CreateManifest(p) /\ Id(p)' = Id(p)
      BY <1>2, <2>1, PublisherMoves
    <3>2. Id(p) \in Ids
      BY <3>1 DEF IInv, BusyHasId, Id, CreateManifest, At
    <3>3. manifests'[Id(p)] = "torn"
      BY <1>0, <3>1, <3>2 DEF CreateManifest, Touch
    <3>4. QED
      BY <2>1, <3>1, <3>3
  <2>2. CASE p # q
    <3>1. publishers'[q] = publishers[q]
      BY <1>2, <2>2, PublisherMoves
    <3>2. publishers[q].pc = "writeManifest" /\ Id(q)' = Id(q)
      BY <3>1 DEF Id
    <3>3. Id(q) \in Ids /\ Dated(Id(q))
      BY <3>2, WriterDated
    <3>4. PICK i \in Ids : i = Id(q) /\ i = Id(q)' /\ Dated(i)
      BY <3>2, <3>3
    <3>5. manifests[i] # "absent" \/ Overrun(i)
      BY <3>2, <3>4 DEF RInv, WrittenStays
    <3>6. Overrun(i) => Overrun(Id(q))'
      <4>1. Overrun(i)' => Overrun(Id(q))'
        BY <3>4 DEF Overrun
      <4>2. QED
        BY <3>4, <4>1, DatedStays
    <3>7. CASE DropManifest(p) /\ publishers[p].cur = i
      <4>1. Overrun(i)
        BY <3>7 DEF Chosen, DropManifest, At, RInv, ChosenOverrun
      <4>2. QED
        BY <3>6, <4>1
    <3>8. CASE ~(DropManifest(p) /\ publishers[p].cur = i)
      <4>1. manifests[i] # "absent" => manifests'[i] # "absent"
        BY <1>0, <1>2, <3>4, <3>8 DEF Publish, Begin, WriteArchive, Verify, CreateManifest,
           WriteManifest, Touch, ListManifests, LoadVictim, DropManifest, DropArchive, Report,
           Abandon, bucket
      <4>2. QED
        BY <3>4, <3>5, <3>6, <4>1
    <3>9. QED
      BY <3>7, <3>8
  <2>3. QED
    BY <2>1, <2>2
<1>3. QED
  BY <1>1, <1>2, WhoMoves

\* A committed checkpoint loads unless it was overrun, before and after it is
\* reported.
LEMMA SettledStep == ASSUME IInv, RInv, [Next]_vars PROVE SettledLoads'
<1>1. ASSUME NEW i \in Ids, Dated(i), Loads(i) \/ Overrun(i)
      PROVE  Dated(i)' /\ (Loads(i)' \/ Overrun(i)')
  BY <1>1, DatedStays, LoadsStays
<1>2. ASSUME NEW i \in Settled' PROVE Dated(i)' /\ (Loads(i)' \/ Overrun(i)')
  <2>0. reported \subseteq Ids
    BY DEF IInv, TypeOK
  <2>1. CASE i \in Settled
    BY <1>1, <2>0, <2>1 DEF RInv, SettledLoads, Settled
  <2>2. CASE i \notin Settled
    <3>1. PICK p \in Publishers : Publish(p)
      <4>1. ~UNCHANGED untouched
        BY <1>2, <2>2 DEF Settled, Pruning, Id, Ids, untouched
      <4>2. QED
        BY <4>1, WhoMoves
    <3>2. reported' \subseteq Settled
      <4>1. Report(p) => Id(p) \in Settled
        BY DEF Report, At, Settled, Pruning, IInv, BusyHasId, Id
      <4>2. reported' = reported \/ (Report(p) /\ reported' = reported \cup {Id(p)})
        BY <3>1 DEF Publish, Begin, WriteArchive, Verify, CreateManifest, WriteManifest,
           ListManifests, LoadVictim, DropManifest, DropArchive, Report, Abandon
      <4>3. QED
        BY <4>1, <4>2 DEF Settled
    <3>3. PICK q \in Publishers : Pruning(q)' /\ Id(q)' = i
      BY <1>2, <2>2, <3>2 DEF Settled
    <3>4. i \in Ids
      BY <1>2, <2>2, <3>2 DEF Settled, Ids
    <3>5. p = q /\ WriteManifest(p) /\ Id(p) = i
      <4>1. q # p => Pruning(q) /\ Id(q) = i
        BY <3>1, <3>3, PublisherMoves DEF Pruning, Id
      <4>2. \A o \in Publishers : ~(Pruning(o) /\ Id(o) = i)
        BY <2>2, <3>4 DEF Settled
      <4>3. q = p
        BY <4>1, <4>2
      <4>4. (Pruning(p) \/ WriteManifest(p)) /\ Id(p)' = Id(p)
        BY <3>1, <3>3, <4>3, PublisherMoves
      <4>5. QED
        BY <3>3, <4>2, <4>3, <4>4
    <3>6. publishers[p].pc = "writeManifest" /\ archives[i] = "whole" /\ archives' = archives
      BY <3>5 DEF WriteManifest, At, IInv, VerifiedStays
    <3>7. Dated(i)
      BY <3>5, <3>6, WriterDated
    <3>8. CASE Touch(i, "whole")
      <4>1. manifests'[i] = "whole"
        BY <3>4, <3>8, TouchEffect DEF IInv
      <4>2. QED
        BY <3>4, <3>6, <3>7, <4>1, DatedStays DEF Loads
    <3>9. CASE manifests[i] = "absent"
      BY <1>1, <3>4, <3>5, <3>6, <3>7, <3>9 DEF RInv, WrittenStays
    <3>10. QED
      BY <3>5, <3>8, <3>9 DEF WriteManifest
  <2>3. QED
    BY <2>1, <2>2
<1>3. QED
  BY <1>2 DEF SettledLoads

\* In every reachable state a reported checkpoint loads or was overrun, and
\* pruners are at work on overrun ones only (pruneCheckpoints).
THEOREM RetentionInvariance == Spec => []RInv
<1>1. ASSUME Init PROVE RInv
  <2>1. \A p \in Publishers : publishers[p].pc = "idle" /\ publishers[p].victims = {}
    BY <1>1 DEF Init, IdlePublisher
  <2>2. Clocked
    BY <1>1 DEF Init, Clocked
  <2>3. reported = {}
    BY <1>1 DEF Init
  <2>4. QED
    BY <2>1, <2>2, <2>3 DEF RInv, Unwritten, ChosenOverrun, WrittenStays, SettledLoads,
       Settled, Unlisted, Pruning, Chosen
<1>2. ASSUME IInv, RInv, [Next]_vars PROVE RInv'
  BY <1>2, TimeMoves, UnwrittenStep, ChosenStep, WrittenStep, SettledStep DEF RInv
<1>3. QED
  BY <1>1, <1>2, Invariance, PTL DEF Spec

\* What was reported stays reported.
LEMMA ReportedGrows == ASSUME [Next]_vars PROVE reported \subseteq reported'
BY DEF Next, vars, Publish, Begin, WriteArchive, Verify, CreateManifest, WriteManifest,
   ListManifests, LoadVictim, DropManifest, DropArchive, Report, Abandon, Restore,
   LoadCheckpoint, StatManifest, WalkObjects, StatArchive, TryNext, Open, untouched, bucket

\* Publishers do not disturb a restore but by overrunning what it was promised.
LEMMA RestoreStep == ASSUME IInv, RInv, RestoreInv, [Next]_vars PROVE RestoreInv'
<1>0. /\ loader \in LoaderStates /\ reported \subseteq Ids /\ loader.promised \subseteq reported
      /\ loader.promised \subseteq Ids
  BY DEF IInv, TypeOK, RestoreInv
<1>1. \A i \in reported : Dated(i) /\ (Loads(i) \/ Overrun(i))
  BY DEF RInv, SettledLoads, Settled
<1>2. \A i \in reported : Overrun(i) => Overrun(i)'
  BY <1>0, <1>1, DatedStays
<1>3. reported \subseteq reported'
  BY ReportedGrows
<1>4. CASE UNCHANGED loader
  BY <1>0, <1>2, <1>3, <1>4 DEF RestoreInv, Kept, LoaderAt
<1>5. CASE LoadCheckpoint
  <2>1. CASE loader' = [IdleLoader EXCEPT !.pc = "manifests", !.names = Listed,
                                          !.promised = Listed \cap reported]
    BY <1>3, <2>1 DEF RestoreInv, Kept, LoaderAt, IdleLoader
  <2>2. CASE \E i \in reported :
               loader' = [IdleLoader EXCEPT !.pc = "try", !.left = {i}, !.promised = {i}]
    BY <1>3, <2>2 DEF RestoreInv, Kept, LoaderAt, IdleLoader
  <2>3. QED
    BY <1>5, <2>1, <2>2 DEF LoadCheckpoint
<1>6. CASE StatManifest
  <2>1. PICK i \in Ids :
          loader' = IF manifests[i] = "absent"
                    THEN [loader EXCEPT !.pc = "unlisted", !.cur = i]
                    ELSE [loader EXCEPT !.names = @ \ {i}, !.left = @ \cup {i},
                                        !.order[i] = modified[i]]
    BY <1>6 DEF StatManifest
  <2>2. loader.pc = "manifests"
    BY <1>6 DEF StatManifest, LoaderAt
  <2>3. CASE manifests[i] = "absent"
    <3>1. loader'.pc = "unlisted" /\ loader'.promised = loader.promised
      BY <1>0, <2>1, <2>3 DEF LoaderStates
    <3>2. QED
      BY <1>0, <1>3, <3>1 DEF RestoreInv, LoaderAt
  <2>4. CASE manifests[i] # "absent"
    <3>1. /\ loader'.pc = "manifests" /\ loader'.promised = loader.promised
          /\ loader'.unread = loader.unread /\ loader'.names = loader.names \ {i}
          /\ loader'.left = loader.left \cup {i}
      BY <1>0, <2>1, <2>2, <2>4 DEF LoaderStates
    <3>2. \A k \in loader.promised : Kept(k)
      BY <2>2 DEF RestoreInv
    <3>3. \A k \in loader.promised : Kept(k)'
      BY <1>0, <1>2, <2>2, <3>1, <3>2 DEF Kept
    <3>4. QED
      BY <1>0, <1>3, <3>1, <3>3 DEF RestoreInv, LoaderAt
  <2>5. QED
    BY <2>3, <2>4
<1>7. CASE WalkObjects \/ StatArchive
  <2>1. /\ loader'.promised = loader.promised
        /\ \/ loader'.pc = "unlisted"
           \/ /\ loader'.pc \in {"objects", "try"}
              /\ loader'.unread = loader.unread /\ loader'.left = loader.left
              /\ loader.pc = "objects" \/ (loader.pc = "manifests" /\ loader.names = {})
    BY <1>0, <1>7 DEF WalkObjects, StatArchive, LoaderStates, LoaderAt
  <2>2. CASE loader'.pc = "unlisted"
    BY <1>0, <1>3, <2>1, <2>2 DEF RestoreInv, LoaderAt
  <2>3. CASE loader'.pc # "unlisted"
    <3>1. \A k \in loader.promised : Kept(k)
      BY <2>1, <2>3 DEF RestoreInv
    <3>2. \A k \in loader.promised : Kept(k)'
      BY <1>0, <1>2, <2>1, <2>3, <3>1 DEF Kept
    <3>3. QED
      BY <1>0, <1>3, <2>1, <2>3, <3>2 DEF RestoreInv, LoaderAt
  <2>4. QED
    BY <2>2, <2>3
<1>8. CASE TryNext
  <2>0. loader.pc = "try" /\ \A k \in loader.promised : Kept(k)
    BY <1>8 DEF TryNext, LoaderAt, RestoreInv
  <2>1. ASSUME NEW i \in loader.left, First(i),
               loader' = [loader EXCEPT !.left = @ \ {i}, !.cur = i,
                                        !.pc = IF Loads(i) THEN "open" ELSE "try"]
        PROVE  RestoreInv'
    <3>1. /\ loader'.left = loader.left \ {i} /\ loader'.cur = i
          /\ loader'.pc = IF Loads(i) THEN "open" ELSE "try"
          /\ loader'.promised = loader.promised /\ loader'.order = loader.order
          /\ loader'.unread = loader.unread
      BY <1>0, <2>1 DEF LoaderStates
    <3>2. ASSUME NEW k \in loader.promised PROVE Kept(k)'
      <4>1. Overrun(k) \/ k \in loader.unread \/ k \in loader.left
        BY <2>0 DEF Kept
      <4>2. CASE Overrun(k) \/ k \in loader.unread
        BY <1>0, <1>2, <3>1, <4>2 DEF Kept
      <4>3. CASE k \in loader.left /\ k # i
        BY <2>1, <3>1, <4>3 DEF First, Kept
      <4>4. CASE k = i /\ Loads(i)
        BY <3>1, <4>4 DEF Kept
      <4>5. CASE k = i /\ ~Loads(i)
        BY <1>0, <1>1, <1>2, <4>5 DEF Kept
      <4>6. QED
        BY <4>1, <4>2, <4>3, <4>4, <4>5
    <3>3. QED
      BY <1>0, <1>3, <3>1, <3>2 DEF RestoreInv, LoaderAt
  <2>2. ASSUME NEW i \in loader.left,
               loader' = [loader EXCEPT !.left = @ \ {i}, !.unread = @ \cup {i}]
        PROVE  RestoreInv'
    <3>1. /\ loader'.left = loader.left \ {i} /\ loader'.pc = "try"
          /\ loader'.promised = loader.promised /\ loader'.unread = loader.unread \cup {i}
      BY <1>0, <2>0, <2>2 DEF LoaderStates
    <3>2. \A k \in loader.promised : Kept(k)'
      BY <1>0, <1>2, <2>0, <3>1 DEF Kept
    <3>3. QED
      BY <1>0, <1>3, <3>1, <3>2 DEF RestoreInv, LoaderAt
  <2>3. CASE loader.left = {} /\ loader' = [loader EXCEPT !.pc = "failed", !.cur = NoId]
    <3>1. /\ loader'.left = {} /\ loader'.promised = loader.promised
          /\ loader'.unread = loader.unread /\ loader'.pc = "failed"
      BY <1>0, <2>3 DEF LoaderStates
    <3>2. \A k \in loader.promised : Overrun(k) \/ k \in loader.unread
      BY <2>0, <2>3 DEF Kept
    <3>3. QED
      BY <1>0, <1>2, <1>3, <3>1, <3>2 DEF RestoreInv, Kept, LoaderAt
  <2>4. QED
    BY <1>8, <2>1, <2>2, <2>3 DEF TryNext
<1>9. CASE Open
  <2>0. /\ loader.pc = "open" /\ loader.cur \in Ids \cup {NoId}
        /\ \A k \in loader.promised : Kept(k)
    BY <1>0, <1>9 DEF Open, LoaderAt, RestoreInv, LoaderStates
  <2>1. /\ loader'.left = loader.left /\ loader'.cur = loader.cur
        /\ loader'.promised = loader.promised /\ loader'.order = loader.order
        /\ \/ /\ loader'.pc = (IF archives[loader.cur] = "whole" THEN "restored" ELSE "try")
              /\ loader'.unread = loader.unread
           \/ loader'.pc = "try" /\ loader'.unread = loader.unread \cup {loader.cur}
           \/ loader'.pc = "halfUnpacked"
    BY <1>0, <1>9 DEF Open, LoaderAt, LoaderStates
  <2>2. CASE loader'.pc = "halfUnpacked"
    BY <1>0, <1>3, <2>1, <2>2 DEF RestoreInv, LoaderAt
  <2>3. ASSUME loader'.pc # "halfUnpacked", NEW k \in loader.promised PROVE Kept(k)'
    <3>1. \/ Overrun(k) \/ k \in loader.unread
          \/ k \in loader.left /\ loader.order[k] <= loader.order[loader.cur]
          \/ k = loader.cur
      BY <2>0 DEF Kept
    <3>2. CASE Overrun(k) \/ k \in loader.unread
      BY <1>0, <1>2, <2>1, <2>3, <3>2 DEF Kept
    <3>3. CASE k \in loader.left /\ loader.order[k] <= loader.order[loader.cur]
      BY <2>1, <2>3, <3>3 DEF Kept
    <3>4. CASE k = loader.cur
      <4>1. Loads(k) \/ Overrun(k)'
        BY <1>0, <1>1, <1>2
      <4>2. QED
        BY <2>1, <2>3, <3>4, <4>1 DEF Loads, Kept
    <3>5. QED
      BY <3>1, <3>2, <3>3, <3>4
  <2>4. QED
    BY <1>0, <1>3, <2>1, <2>2, <2>3 DEF RestoreInv, LoaderAt
<1>10. QED
  <2>1. UNCHANGED loader \/ Restore
    BY DEF Next, vars, Publish, Begin, WriteArchive, Verify, CreateManifest, WriteManifest,
       ListManifests, LoadVictim, DropManifest, DropArchive, Report, Abandon
  <2>2. QED
    BY <1>4, <1>5, <1>6, <1>7, <1>8, <1>9, <2>1 DEF Restore

\* A file that is there stays, or was taken by retention.
LEMMA FilesStay ==
  ASSUME IInv, RInv, [Next]_vars, NEW i \in Ids
  PROVE  /\ manifests[i] # "absent" => manifests'[i] # "absent" \/ (Dated(i)' /\ Overrun(i)')
         /\ archives[i] # "absent" => archives'[i] # "absent" \/ (Dated(i)' /\ Overrun(i)')
<1>0. /\ manifests \in [Ids -> {"absent", "torn", "whole"}]
      /\ archives \in [Ids -> {"absent", "partial", "whole"}]
  BY DEF IInv, TypeOK
<1>1. CASE UNCHANGED untouched
  BY <1>1 DEF untouched, bucket
<1>2. ASSUME NEW p \in Publishers, Publish(p) PROVE
         /\ manifests[i] # "absent" => manifests'[i] # "absent" \/ (Dated(i)' /\ Overrun(i)')
         /\ archives[i] # "absent" => archives'[i] # "absent" \/ (Dated(i)' /\ Overrun(i)')
  <2>1. CASE (DropManifest(p) \/ DropArchive(p)) /\ publishers[p].cur = i
    <3>1. i \in Chosen(p)
      BY <2>1 DEF Chosen, DropManifest, DropArchive, At
    <3>2. Dated(i) /\ Overrun(i)
      BY <3>1 DEF RInv, ChosenOverrun
    <3>3. QED
      BY <3>2, DatedStays
  <2>2. CASE DropManifest(p) /\ publishers[p].cur # i
    BY <1>0, <2>2 DEF DropManifest
  <2>3. CASE DropArchive(p) /\ publishers[p].cur # i
    BY <1>0, <2>3 DEF DropArchive
  <2>4. CASE Begin(p) \/ WriteArchive(p)
    BY <1>0, <2>4 DEF Begin, WriteArchive
  <2>5. CASE CreateManifest(p) \/ WriteManifest(p)
    BY <1>0, <2>5 DEF CreateManifest, WriteManifest, Touch
  <2>6. CASE Verify(p) \/ ListManifests(p) \/ LoadVictim(p) \/ Report(p) \/ Abandon(p)
    BY <2>6 DEF Verify, ListManifests, LoadVictim, Report, Abandon, bucket
  <2>7. QED
    BY <1>2, <2>1, <2>2, <2>3, <2>4, <2>5, <2>6 DEF Publish
<1>3. QED
  BY <1>1, <1>2, WhoMoves

\* A manifest in the directory has its time of creation.
LEMMA ListedDated == ASSUME IInv, RInv, NEW i \in Ids, manifests[i] # "absent" PROVE Dated(i)
<1>1. begun \in Nat /\ i \in Nat
  BY CheckpointConstants DEF IInv, TypeOK, Ids
<1>2. i <= begun
  BY <1>1 DEF IInv, UnusedIds
<1>3. QED
  BY <1>2 DEF RInv, Unwritten, Dated

\* A walk meets a missing file only where retention has been.
LEMMA WalkStep == ASSUME IInv, RInv, WalkInv, [Next]_vars PROVE WalkInv'
<1>0. loader \in LoaderStates /\ IdleLoader \in LoaderStates
  BY IdleTypes DEF IInv, TypeOK
<1>1. CASE UNCHANGED loader
  <2>1. ASSUME NEW i \in loader.names, loader.pc = "manifests"
        PROVE  Dated(i)' /\ (manifests'[i] # "absent" \/ Overrun(i)')
    <3>1. i \in Ids /\ Dated(i) /\ (manifests[i] # "absent" \/ Overrun(i))
      BY <1>0, <2>1 DEF WalkInv, LoaderAt, LoaderStates
    <3>2. QED
      BY <3>1, FilesStay, DatedStays
  <2>2. ASSUME NEW i \in loader.names, loader.pc = "objects"
        PROVE  archives'[i] # "absent" \/ (Dated(i)' /\ Overrun(i)')
    <3>1. i \in Ids /\ (archives[i] # "absent" \/ (Dated(i) /\ Overrun(i)))
      BY <1>0, <2>2 DEF WalkInv, LoaderAt, LoaderStates
    <3>2. QED
      BY <3>1, FilesStay, DatedStays
  <2>3. ASSUME loader.pc = "unlisted" PROVE Dated(loader.cur)' /\ Overrun(loader.cur)'
    <3>1. loader.cur \in Ids /\ Dated(loader.cur) /\ Overrun(loader.cur)
      BY <2>3 DEF WalkInv, LoaderAt, IInv, TypeOK, LoaderStates
    <3>2. QED
      BY <1>1, <3>1, DatedStays
  <2>4. QED
    BY <1>1, <2>1, <2>2, <2>3 DEF WalkInv, LoaderAt
<1>2. CASE Restore
  <2>0. UNCHANGED <<untouched, Listed, archives, manifests>>
    BY <1>2 DEF Restore, LoadCheckpoint, StatManifest, WalkObjects, StatArchive, TryNext,
       Open, Listed, untouched, bucket
  <2>1. \A i \in Ids : (Dated(i) => Dated(i)') /\ (Dated(i) /\ Overrun(i) => Overrun(i)')
    BY DatedStays
  <2>2. CASE LoadCheckpoint \/ TryNext \/ Open
    <3>1. \/ loader'.pc \in {"open", "try", "restored", "failed", "halfUnpacked"}
          \/ loader'.pc = "manifests" /\ loader'.names = Listed
      <4>1. CASE LoadCheckpoint
        BY <1>0, <4>1 DEF LoadCheckpoint, LoaderStates
      <4>2. CASE TryNext
        <5>1. loader.pc = "try"
          BY <4>2 DEF TryNext, LoaderAt
        <5>2. QED
          BY <1>0, <4>2, <5>1 DEF TryNext, LoaderStates
      <4>3. CASE Open
        BY <1>0, <4>3 DEF Open, LoaderStates
      <4>4. QED
        BY <2>2, <4>1, <4>2, <4>3
    <3>2. ASSUME NEW i \in Listed PROVE Dated(i)' /\ manifests'[i] # "absent"
      BY <2>0, <2>1, <3>2, ListedDated DEF Listed
    <3>3. QED
      BY <3>1, <3>2 DEF WalkInv, LoaderAt
  <2>3. CASE StatManifest
    <3>1. PICK i \in Ids : NextName(i) /\
            loader' = IF manifests[i] = "absent"
                      THEN [loader EXCEPT !.pc = "unlisted", !.cur = i]
                      ELSE [loader EXCEPT !.names = @ \ {i}, !.left = @ \cup {i},
                                          !.order[i] = modified[i]]
      BY <2>3 DEF StatManifest
    <3>2. /\ loader.pc = "manifests" /\ loader.names \subseteq Ids /\ i \in loader.names
          /\ \A k \in loader.names : Dated(k) /\ (manifests[k] # "absent" \/ Overrun(k))
      BY <1>0, <2>3, <3>1 DEF StatManifest, LoaderAt, WalkInv, LoaderStates, NextName
    <3>3. CASE manifests[i] = "absent"
      <4>1. loader'.pc = "unlisted" /\ loader'.cur = i
        BY <1>0, <3>1, <3>3 DEF LoaderStates
      <4>2. QED
        BY <2>1, <3>2, <3>3, <4>1 DEF WalkInv, LoaderAt
    <3>4. CASE manifests[i] # "absent"
      <4>1. loader'.pc = "manifests" /\ loader'.names = loader.names \ {i}
        BY <1>0, <3>1, <3>2, <3>4 DEF LoaderStates
      <4>2. QED
        BY <2>0, <2>1, <3>2, <4>1 DEF WalkInv, LoaderAt
    <3>5. QED
      BY <3>3, <3>4
  <2>4. CASE WalkObjects
    <3>1. loader'.pc = "objects" /\ loader'.names = {i \in Ids : archives[i] # "absent"}
      BY <1>0, <2>4 DEF WalkObjects, LoaderStates
    <3>2. QED
      BY <2>0, <3>1 DEF WalkInv, LoaderAt
  <2>5. CASE StatArchive
    <3>1. /\ loader.pc = "objects" /\ loader.names \subseteq Ids
          /\ \A k \in loader.names : archives[k] # "absent" \/ (Dated(k) /\ Overrun(k))
      BY <1>0, <2>5 DEF StatArchive, LoaderAt, WalkInv, LoaderStates
    <3>2. \/ \E i \in loader.names : archives[i] = "absent" /\ loader'.pc = "unlisted"
                                     /\ loader'.cur = i
          \/ loader'.pc = "objects" /\ loader'.names \subseteq loader.names
          \/ loader'.pc = "try"
      BY <1>0, <2>5, <3>1 DEF StatArchive, LoaderStates, NextName
    <3>3. QED
      BY <2>0, <2>1, <3>1, <3>2 DEF WalkInv, LoaderAt
  <2>6. QED
    BY <1>2, <2>2, <2>3, <2>4, <2>5 DEF Restore
<1>3. QED
  <2>1. UNCHANGED loader \/ Restore
    BY DEF Next, vars, Publish, Begin, WriteArchive, Verify, CreateManifest, WriteManifest,
       ListManifests, LoadVictim, DropManifest, DropArchive, Report, Abandon
  <2>2. QED
    BY <1>1, <1>2, <2>1

\* The loader's part is invariant, too.
THEOREM RestoreInvariance == Spec => [](RestoreInv /\ WalkInv)
<1>1. Init => RestoreInv /\ WalkInv
  BY DEF Init, IdleLoader, RestoreInv, WalkInv, Kept, LoaderAt
<1>2. IInv /\ RInv /\ RestoreInv /\ WalkInv /\ [Next]_vars => RestoreInv' /\ WalkInv'
  BY RestoreStep, WalkStep
<1>3. QED
  BY <1>1, <1>2, Invariance, RetentionInvariance, PTL DEF Spec

\* For any number of publishers and any retention, a restore finds nothing to
\* load only when everything it was promised has been overrun or cannot be read,
\* and fails to list the store only over a file that retention removed
\* (LoadCheckpoint, List, pruneCheckpoints).
THEOREM RestoreFailure == Spec => []RestoreFailsOnlyWhenOverrun
<1>1. RestoreInv /\ WalkInv => RestoreFailsOnlyWhenOverrun
  BY DEF RestoreInv, WalkInv, Kept, RestoreFailsOnlyWhenOverrun, LoaderAt
<1>2. QED
  BY <1>1, RestoreInvariance, PTL

\* A restore never passes over a promised checkpoint for an older one, unless
\* the newer was overrun or could not be read (LoadCheckpoint).
THEOREM RestoreNewest == Spec => []RestoreTakesTheNewest
<1>1. IInv /\ RestoreInv => RestoreTakesTheNewest
  <2> SUFFICES ASSUME IInv, RestoreInv, LoaderAt("restored"), NEW i \in loader.promised
               PROVE  \/ loader.order[i] <= loader.order[loader.cur]
                      \/ Overrun(i) \/ i \in loader.unread
    BY DEF RestoreTakesTheNewest
  <2>1. /\ loader.order \in [Ids -> Nat] /\ i \in Ids /\ loader.pc = "restored"
    BY DEF IInv, TypeOK, LoaderStates, LoaderAt
  <2>2. \/ Overrun(i) \/ i \in loader.unread
        \/ loader.order[i] <= loader.order[loader.cur] \/ i = loader.cur
    BY <2>1 DEF RestoreInv, Kept
  <2>3. loader.order[i] \in Nat
    BY <2>1
  <2>4. QED
    BY <2>2, <2>3
<1>2. QED
  BY <1>1, Invariance, RestoreInvariance, PTL

-----------------------------------------------------------------------------
(* Something can always be restored.  A prune spares the newest checkpoint *)
(* that loads and that nobody is going to remove, because too few newer    *)
(* manifests can be counted against it: torn ones, and such as were listed *)
(* for removal while they were being written.                              *)

\* A publisher that is writing its manifest, and the manifests being written.
Creating(p) == publishers[p].pc = "writeManifest"
Unfinished == {i \in Ids : \E p \in Publishers : Creating(p) /\ Id(p) = i}

\* A checkpoint that loads and whose removal has not been tried in vain, and one
\* that nobody is going to remove.
Sound(i) == Loads(i) /\ i \notin undeleted
Safe(i) == Sound(i) /\ \A p \in Publishers : i \notin Chosen(p)

\* Manifests that are there because of a fault.
Debris == undeleted \cup {i \in Ids : manifests[i] = "torn" /\ i \notin Unfinished}

\* Checkpoints that were being written when c was committed.
Straddlers(c) == {j \in Ids : /\ created[j] < modified[c]
                              /\ modified[j] > modified[c] \/ j \in Unfinished}

\* Retention keeps more than what can be written without a checkpoint that lasts.
Roomy == /\ faults + Cardinality(Publishers) <= Retain
         /\ faults + 2 * Cardinality(Publishers) <= Retain + 2

\* A checkpoint was committed.
Started == \/ reported # {} \/ undeleted # {}
           \/ \E p \in Publishers : \/ Pruning(p)
                                    \/ Creating(p) /\ manifests[Id(p)] = "absent"

\* Only pruners have chosen manifests.
PrunersChoose == \A p \in Publishers :
  Chosen(p) # {} => publishers[p].pc \in {"prune", "dropManifest", "dropArchive"}
\* A prune removes nothing that was created after what it leaves.
ChosenBefore == \A p \in Publishers : \A j \in Chosen(p), c \in Ids :
  Sound(c) /\ c \notin Chosen(p) => created[j] < modified[c]
FewStraddle == \A c \in Ids :
  manifests[c] = "whole" => Cardinality(Straddlers(c)) < Cardinality(Publishers)
DebrisPaid == Cardinality(Debris) <= faults
SafeRemains == Roomy /\ Started => \E c \in Ids : Safe(c)

KInv == PrunersChoose /\ ChosenBefore /\ FewStraddle /\ DebrisPaid /\ SafeRemains

\* A set of numbers that is not empty has a least one.
LEMMA LeastOne ==
  ASSUME NEW T \in SUBSET Nat, T # {} PROVE \E x \in T : \A y \in T : x <= y
<1> DEFINE R == OpToRel(<, Nat)
<1>1. IsWellFoundedOn(R, Nat)
  BY NatLessThanWellFounded
<1> HIDE DEF R
<1>2. PICK x \in T : \A y \in T : ~(<<y, x>> \in R)
  BY <1>1, WFMin, Zenon
<1>3. ASSUME NEW y \in T PROVE x <= y
  <2>1. ~(<<y, x>> \in R) /\ x \in Nat /\ y \in Nat
    BY <1>2
  <2>2. ~(y < x)
    BY <2>1 DEF R, OpToRel
  <2>3. QED
    BY <2>1, <2>2
<1>4. QED
  BY <1>3

\* Publishers have at most one id each.
LEMMA OneIdEach ==
  ASSUME NEW W \in SUBSET Publishers, NEW S, S = {Id(p) : p \in W}
  PROVE  IsFiniteSet(S) /\ Cardinality(S) <= Cardinality(W) /\ Cardinality(W) \in Nat
         /\ Cardinality(S) \in Nat
<1> DEFINE f == [p \in W |-> Id(p)]
<1>1. f \in Surjection(W, S)
  BY DEF Surjection
<1>2. IsFiniteSet(W)
  BY FS_Subset, CheckpointConstants
<1>3. IsFiniteSet(S) /\ Cardinality(S) <= Cardinality(W)
  BY <1>1, <1>2, FS_Surjection
<1>4. QED
  BY <1>2, <1>3, FS_CardinalityType

\* Two sets together have at most as many elements as each has.
LEMMA UnionBound ==
  ASSUME NEW S, NEW T, IsFiniteSet(S), IsFiniteSet(T)
  PROVE  /\ IsFiniteSet(S \cup T) /\ Cardinality(S \cup T) \in Nat
         /\ Cardinality(S) \in Nat /\ Cardinality(T) \in Nat
         /\ Cardinality(S \cup T) <= Cardinality(S) + Cardinality(T)
<1>1. /\ IsFiniteSet(S \cup T)
      /\ Cardinality(S \cup T) = Cardinality(S) + Cardinality(T) - Cardinality(S \cap T)
  BY FS_Union
<1>2. IsFiniteSet(S \cap T)
  BY FS_Intersection
<1>3. /\ Cardinality(S) \in Nat /\ Cardinality(T) \in Nat /\ Cardinality(S \cap T) \in Nat
      /\ Cardinality(S \cup T) \in Nat
  BY <1>1, <1>2, FS_CardinalityType
<1>4. QED
  BY <1>1, <1>3

\* Of all safe checkpoints one is the newest.
LEMMA NewestSafe ==
  ASSUME TypeOK, Clocked, \E c \in Ids : Safe(c)
  PROVE  \E c \in Ids : Safe(c) /\ \A d \in Ids : Safe(d) => modified[d] <= modified[c]
<1>0. modified \in [Ids -> Nat] /\ clock \in Nat /\ \A i \in Ids : modified[i] <= clock
  BY DEF TypeOK, Clocked
<1> DEFINE S == {c \in Ids : Safe(c)}
           T == {clock - modified[c] : c \in S}
<1>1. T \subseteq Nat /\ T # {}
  BY <1>0
<1> HIDE DEF T
<1>2. PICK x \in T : \A y \in T : x <= y
  BY <1>1, LeastOne
<1>3. PICK c \in S : x = clock - modified[c]
  BY <1>2 DEF T
<1>4. ASSUME NEW d \in Ids, Safe(d) PROVE modified[d] <= modified[c]
  <2>1. clock - modified[c] <= clock - modified[d]
    BY <1>2, <1>3, <1>4 DEF T
  <2>2. modified[c] \in Nat /\ modified[d] \in Nat
    BY <1>0, <1>3, <1>4
  <2>3. QED
    BY <1>0, <2>1, <2>2
<1>5. QED
  BY <1>3, <1>4

\* A prune leaves a safe checkpoint if there was one: everything newer than the
\* newest safe one is debris, unfinished, or was chosen before it was finished.
LEMMA PruneSpares ==
  ASSUME IInv, RInv, KInv, Roomy, NEW r \in Publishers, At(r, "list"), \E c \in Ids : Safe(c)
  PROVE  \E c \in Ids : Safe(c) /\ c \notin Victims
<1>0. PICK c \in Ids : Safe(c) /\ \A d \in Ids : Safe(d) => modified[d] <= modified[c]
  BY NewestSafe DEF IInv, RInv
<1>t. /\ modified \in [Ids -> Nat] /\ created \in [Ids -> Nat] /\ faults \in Nat
      /\ manifests \in [Ids -> {"absent", "torn", "whole"}]
  BY DEF IInv, TypeOK
<1> DEFINE W == {p \in Publishers : Creating(p)}
           D == {j \in Ids : /\ modified[j] > modified[c] /\ manifests[j] = "whole"
                             /\ \E p \in Publishers : j \in Chosen(p)}
           n == Cardinality(Publishers)
<1>1. Newer(c) \subseteq (Debris \cup Unfinished) \cup D
  <2> SUFFICES ASSUME NEW j \in Newer(c), j \notin Debris, j \notin Unfinished PROVE j \in D
    OBVIOUS
  <2>1. j \in Ids /\ manifests[j] # "absent" /\ modified[j] > modified[c]
    BY DEF Newer, Listed
  <2>2. manifests[j] = "whole" /\ j \notin undeleted
    BY <1>t, <2>1 DEF Debris
  <2>3. Sound(j)
    BY <2>1, <2>2 DEF Sound, Loads, IInv, ManifestsAreBacked
  <2>4. ~Safe(j)
    BY <1>0, <1>t, <2>1
  <2>5. QED
    BY <2>1, <2>2, <2>3, <2>4 DEF Safe
<1>2. D \subseteq Straddlers(c)
  <2> SUFFICES ASSUME NEW j \in D PROVE j \in Straddlers(c)
    OBVIOUS
  <2>1. PICK p \in Publishers : j \in Chosen(p)
    OBVIOUS
  <2>2. created[j] < modified[c]
    BY <1>0, <2>1 DEF KInv, ChosenBefore, Safe
  <2>3. QED
    BY <2>2 DEF Straddlers
<1>3. IsFiniteSet(D) /\ Cardinality(D) \in Nat /\ Cardinality(D) < n /\ n \in Nat
  <2>1. IsFiniteSet(Straddlers(c))
    BY FiniteIds, FS_Subset DEF Straddlers
  <2>2. Cardinality(Straddlers(c)) < n
    BY <1>0 DEF KInv, FewStraddle, Safe, Sound, Loads
  <2>3. IsFiniteSet(D) /\ Cardinality(D) <= Cardinality(Straddlers(c))
    BY <1>2, <2>1, FS_Subset
  <2>4. Cardinality(D) \in Nat /\ Cardinality(Straddlers(c)) \in Nat /\ n \in Nat
    BY <2>1, <2>3, FS_CardinalityType, CheckpointConstants
  <2>5. QED
    BY <2>2, <2>3, <2>4
<1>4. IsFiniteSet(Unfinished) /\ Cardinality(Unfinished) <= Cardinality(W)
  <2>1. Unfinished = {Id(p) : p \in W}
    BY DEF Unfinished, IInv, BusyHasId, Id, Creating
  <2>2. QED
    BY <2>1, OneIdEach
<1>5. IsFiniteSet(Debris) /\ Cardinality(Debris) <= faults
  BY FiniteIds, FS_Subset DEF Debris, IInv, TypeOK, KInv, DebrisPaid
<1>6. /\ Cardinality(Newer(c)) \in Nat
      /\ Cardinality(Newer(c)) <= faults + Cardinality(W) + Cardinality(D)
  <2> DEFINE A == Debris \cup Unfinished
  <2>1. /\ IsFiniteSet(A) /\ Cardinality(A) \in Nat /\ Cardinality(Unfinished) \in Nat
        /\ Cardinality(Debris) \in Nat
        /\ Cardinality(A) <= Cardinality(Debris) + Cardinality(Unfinished)
    BY <1>4, <1>5, UnionBound
  <2> HIDE DEF A, D
  <2>2. IsFiniteSet(A \cup D) /\ Cardinality(A \cup D) <= Cardinality(A) + Cardinality(D)
        /\ Cardinality(A \cup D) \in Nat
    BY <1>3, <2>1, UnionBound
  <2>3. Newer(c) \subseteq A \cup D
    BY <1>1 DEF A
  <2>4. Cardinality(Newer(c)) <= Cardinality(A \cup D) /\ Cardinality(Newer(c)) \in Nat
    BY <2>2, <2>3, FS_Subset, FS_CardinalityType
  <2>5. Cardinality(W) \in Nat
    BY FS_Subset, FS_CardinalityType, CheckpointConstants
  <2>6. QED
    BY <1>t, <1>3, <1>4, <1>5, <2>1, <2>2, <2>4, <2>5
<1>7. /\ Cardinality(W) \in Nat /\ Cardinality(W) < n
      /\ D # {} => Cardinality(W) + 1 < n
  <2> DEFINE P1 == Publishers \ {r}
  <2>1. W \subseteq P1
    BY DEF Creating, At
  <2>2. IsFiniteSet(P1) /\ Cardinality(P1) = n - 1
    BY FS_RemoveElement, CheckpointConstants
  <2>3. IsFiniteSet(W) /\ Cardinality(W) <= n - 1 /\ Cardinality(W) \in Nat
    BY <2>1, <2>2, FS_Subset, FS_CardinalityType
  <2>4. ASSUME D # {} PROVE Cardinality(W) + 1 < n
    <3>1. PICK p \in Publishers : Chosen(p) # {}
      BY <2>4
    <3>2. publishers[p].pc \in {"prune", "dropManifest", "dropArchive"}
      BY <3>1 DEF KInv, PrunersChoose
    <3>3. p \in P1 /\ W \subseteq P1 \ {p}
      BY <2>1, <3>2 DEF At, Creating
    <3>4. IsFiniteSet(P1 \ {p}) /\ Cardinality(P1 \ {p}) = n - 2
      <4> HIDE DEF P1, n
      <4>1. IsFiniteSet(P1 \ {p}) /\ Cardinality(P1 \ {p}) = Cardinality(P1) - 1
        BY <2>2, <3>3, FS_RemoveElement
      <4>2. QED
        BY <1>3, <2>2, <4>1
    <3>5. Cardinality(W) <= n - 2
      BY <3>3, <3>4, FS_Subset
    <3>6. QED
      BY <1>3, <2>3, <3>5
  <2>5. QED
    BY <1>3, <2>3, <2>4
<1>8. Cardinality(Newer(c)) < Retain
  <2>1. faults + n <= Retain /\ faults + 2 * n <= Retain + 2 /\ Retain \in Nat
    BY CheckpointConstants DEF Roomy
  <2>2. CASE D = {}
    <3>1. Cardinality(D) = 0
      BY <2>2, FS_EmptySet
    <3>2. QED
      BY <1>t, <1>3, <1>6, <1>7, <2>1, <3>1
  <2>3. CASE D # {}
    BY <1>t, <1>3, <1>6, <1>7, <2>1, <2>3
  <2>4. QED
    BY <2>2, <2>3
<1>9. QED
  BY <1>0, <1>6, <1>8, CheckpointConstants DEF Victims


-----------------------------------------------------------------------------
(* What a step changes of the things the argument counts.                  *)

\* A pruner chooses manifests only when it lists them; it lets go of one only
\* when it is no longer sound, or of all when it stops.
LEMMA ChosenMoves ==
  ASSUME IInv, RInv, PrunersChoose, NEW p \in Publishers, Publish(p)
  PROVE  /\ \A q \in Publishers : q # p => Chosen(q)' = Chosen(q)
         /\ \/ Chosen(p)' \subseteq Chosen(p)
            \/ ListManifests(p) /\ Chosen(p)' = Victims /\ Chosen(p) = {}
         /\ Chosen(p)' # {} => publishers'[p].pc \in {"prune", "dropManifest", "dropArchive"}
         /\ Chosen(p)' # {} =>
              \A c \in Chosen(p) : c \in Chosen(p)' \/ ~Sound(c)'
<1>0. publishers \in [Publishers -> PublisherStates]
  BY DEF IInv, TypeOK
<1>1. \A q \in Publishers : q # p => Chosen(q)' = Chosen(q)
  BY PublisherMoves DEF Chosen
<1> DEFINE G == /\ \/ Chosen(p)' \subseteq Chosen(p)
                   \/ ListManifests(p) /\ Chosen(p)' = Victims /\ Chosen(p) = {}
                /\ Chosen(p)' # {} => publishers'[p].pc \in {"prune", "dropManifest", "dropArchive"}
                /\ Chosen(p)' # {} =>
                     \A c \in Chosen(p) : c \in Chosen(p)' \/ ~Sound(c)'
<1> SUFFICES G
  BY <1>1
<1>2. CASE Chosen(p)' = {}
  BY <1>2
<1>3. ASSUME ~(publishers[p].pc \in {"prune", "dropManifest", "dropArchive"}) PROVE Chosen(p) = {}
  BY <1>3 DEF PrunersChoose
<1>4. CASE Begin(p) \/ Report(p) \/ Abandon(p)
  <2>1. CASE Begin(p)
    <3>1. publishers'[p].pc = "writeArchive" /\ publishers'[p].victims = {}
      BY <1>0, <2>1 DEF Begin, IdlePublisher
    <3>2. QED
      BY <1>2, <3>1 DEF Chosen
  <2>2. CASE GiveUp(p)
    BY <1>0, <1>2, <2>2, GiveUpEffect DEF Chosen
  <2>3. QED
    BY <1>4, <2>1, <2>2 DEF Report, Abandon
<1>5. CASE WriteArchive(p) \/ Verify(p) \/ CreateManifest(p) \/ WriteManifest(p)
  <2>1. Chosen(p) = {}
    BY <1>3, <1>5 DEF WriteArchive, Verify, CreateManifest, WriteManifest, At
  <2>2. ~ListManifests(p)
    BY <1>5 DEF WriteArchive, Verify, CreateManifest, WriteManifest, At, ListManifests
  <2>3. CASE GiveUp(p)
    BY <1>0, <1>2, <2>3, GiveUpEffect DEF Chosen
  <2>4. ASSUME NEW step \in {"verify", "createManifest", "writeManifest", "list"}, Continue(p, step)
        PROVE  Chosen(p)' = {}
    <3>1. publishers'[p].pc = step /\ publishers'[p].victims = publishers[p].victims
      BY <1>0, <2>4, ContinueEffect DEF PublisherSteps
    <3>2. QED
      BY <2>1, <2>4, <3>1 DEF Chosen
  <2>5. QED
    BY <1>2, <1>5, <2>3, <2>4 DEF WriteArchive, Verify, CreateManifest, WriteManifest
<1>6. CASE ListManifests(p)
  <2>1. publishers[p].pc = "list" /\ "prune" \in PublisherSteps
    BY <1>6 DEF ListManifests, At, PublisherSteps
  <2>2. Chosen(p) = {}
    BY <1>3, <2>1
  <2>3. CASE Continue(p, "prune")
    <3>1. publishers'[p].pc = "prune" /\ publishers'[p].victims = publishers[p].victims
      BY <1>0, <2>1, <2>3, ContinueEffect
    <3>2. QED
      BY <1>2, <2>2, <3>1 DEF Chosen
  <2>4. CASE publishers' = [publishers EXCEPT ![p].pc = "prune", ![p].victims = Victims]
    <3>1. publishers'[p].pc = "prune" /\ publishers'[p].victims = Victims
      BY <1>0, <2>4 DEF PublisherStates
    <3>2. Chosen(p)' = Victims
      BY <3>1 DEF Chosen
    <3>3. QED
      BY <1>6, <2>2, <3>1, <3>2
  <2>5. QED
    BY <1>6, <2>3, <2>4 DEF ListManifests
<1>7. CASE LoadVictim(p)
  <2>1. publishers[p].pc = "prune"
    BY <1>7 DEF LoadVictim, At
  <2>2. PICK i \in publishers[p].victims : publishers' = [publishers EXCEPT ![p] =
         [pc |-> "dropManifest", id |-> Id(p), victims |-> publishers[p].victims \ {i},
          cur |-> i, valid |-> Loads(i)]]
    BY <1>7 DEF LoadVictim
  <2>3. /\ publishers'[p].pc = "dropManifest"
        /\ publishers'[p].cur = i /\ publishers'[p].victims = publishers[p].victims \ {i}
    BY <1>0, <2>2
  <2>4. Chosen(p)' = Chosen(p)
    BY <2>1, <2>3 DEF Chosen
  <2>5. QED
    BY <2>3, <2>4
<1>8. CASE DropManifest(p)
  <2>1. publishers[p].pc = "dropManifest" /\ "prune" \in PublisherSteps
        /\ "dropArchive" \in PublisherSteps /\ publishers[p].cur \in Ids
    BY <1>8 DEF DropManifest, At, PublisherSteps, IInv, BusyHasId
  <2>2. PICK step \in {"prune", "dropArchive"} : Continue(p, step)
    BY <1>8 DEF DropManifest
  <2>3. /\ publishers'[p].pc = step /\ publishers'[p].cur = publishers[p].cur
        /\ publishers'[p].victims = publishers[p].victims
    BY <1>0, <2>1, <2>2, ContinueEffect
  <2>4. ASSUME NEW c, c = publishers[p].cur PROVE ~Sound(c)'
    <3>1. manifests \in [Ids -> {"absent", "torn", "whole"}]
      BY DEF IInv, TypeOK
    <3>2. manifests'[publishers[p].cur] = "absent" \/ publishers[p].cur \in undeleted'
      BY <1>8, <2>1, <3>1 DEF DropManifest
    <3>3. QED
      BY <2>4, <3>2 DEF Sound, Loads
  <2>5. /\ Chosen(p)' \subseteq Chosen(p)
        /\ \A c \in Chosen(p) : c \in Chosen(p)' \/ c = publishers[p].cur
    BY <2>1, <2>3 DEF Chosen
  <2>6. QED
    BY <2>3, <2>4, <2>5
<1>9. CASE DropArchive(p)
  <2>1. publishers[p].pc = "dropArchive" /\ Continue(p, "prune") /\ "prune" \in PublisherSteps
    BY <1>9 DEF DropArchive, At, PublisherSteps
  <2>2. /\ publishers'[p].pc = "prune" /\ publishers'[p].victims = publishers[p].victims
        /\ publishers'[p].cur = publishers[p].cur
    BY <1>0, <2>1, ContinueEffect
  <2>3. ASSUME NEW c, c = publishers[p].cur PROVE ~Sound(c)'
    BY <1>9, <2>1, <2>3 DEF IInv, ManifestFirst, DropArchive, Sound, Loads
  <2>4. /\ Chosen(p)' \subseteq Chosen(p)
        /\ \A c \in Chosen(p) : c \in Chosen(p)' \/ c = publishers[p].cur
    BY <2>1, <2>2 DEF Chosen
  <2>5. QED
    BY <2>2, <2>3, <2>4
<1>10. QED
  BY <1>4, <1>5, <1>6, <1>7, <1>8, <1>9 DEF Publish

\* What one step writes: only the publisher that creates or commits its manifest
\* touches one, at a time later than all others.
LEMMA ManifestMoves ==
  ASSUME IInv, RInv, NEW p \in Publishers, Publish(p), NEW i \in Ids
  PROVE  /\ \/ modified'[i] = modified[i]
            \/ /\ i = Id(p) /\ modified'[i] = clock + 1
               /\ CreateManifest(p) \/ WriteManifest(p)
         /\ \/ manifests'[i] = manifests[i] \/ manifests'[i] = "absent"
            \/ i = Id(p) /\ CreateManifest(p) /\ manifests'[i] = "torn"
            \/ /\ i = Id(p) /\ WriteManifest(p) /\ manifests'[i] = "whole"
               /\ modified'[i] = clock + 1
         /\ \/ created'[i] = created[i]
            \/ i = Id(p) /\ CreateManifest(p) /\ created'[i] = clock + 1
<1>0. /\ manifests \in [Ids -> {"absent", "torn", "whole"}]
      /\ modified \in [Ids -> Nat] /\ created \in [Ids -> Nat]
  BY DEF IInv, TypeOK
<1>1. CASE CreateManifest(p)
  BY <1>0, <1>1 DEF CreateManifest, Touch
<1>2. CASE WriteManifest(p)
  BY <1>0, <1>2 DEF WriteManifest, Touch
<1>3. CASE DropManifest(p)
  BY <1>0, <1>3 DEF DropManifest
<1>4. CASE ~CreateManifest(p) /\ ~WriteManifest(p) /\ ~DropManifest(p)
  <2>1. manifests' = manifests /\ modified' = modified /\ created' = created
    BY <1>4 DEF Publish, Begin, WriteArchive, Verify, ListManifests, LoadVictim,
       DropArchive, Report, Abandon, bucket
  <2>2. QED
    BY <2>1
<1>5. QED
  BY <1>1, <1>2, <1>3, <1>4

\* Publishers that create or commit a manifest do so with an id of their own that
\* is not committed yet.
LEMMA WriterOwns ==
  ASSUME IInv, NEW p \in Publishers, CreateManifest(p) \/ WriteManifest(p)
  PROVE  /\ Id(p) \in Ids /\ manifests[Id(p)] # "whole" /\ Id(p)' = Id(p)
         /\ \A q \in Publishers : Writing(q) /\ Id(q) = Id(p) => q = p
         /\ CreateManifest(p) => ~WriteManifest(p)
<1>1. Writing(p)
  BY DEF Writing, CreateManifest, WriteManifest, At
<1>2. Id(p)' = Id(p)
  BY DEF CreateManifest, WriteManifest, Continue, Id, IInv, TypeOK, PublisherStates
<1>3. CreateManifest(p) => ~WriteManifest(p)
  BY DEF CreateManifest, WriteManifest, At
<1>4. QED
  BY <1>1, <1>2, <1>3 DEF IInv, OwnIds

\* A checkpoint becomes sound only when its manifest is committed.
LEMMA SoundComes ==
  ASSUME IInv, RInv, NEW p \in Publishers, Publish(p), NEW c \in Ids, Sound(c)'
  PROVE  Sound(c) \/ (WriteManifest(p) /\ c = Id(p) /\ modified'[c] = clock + 1)
<1>0. /\ archives \in [Ids -> {"absent", "partial", "whole"}]
      /\ manifests'[c] = "whole" /\ archives'[c] = "whole" /\ c \notin undeleted'
  BY DEF IInv, TypeOK, Sound, Loads
<1>1. c \notin undeleted
  BY <1>0 DEF Publish, Begin, WriteArchive, Verify, CreateManifest, WriteManifest,
     ListManifests, LoadVictim, DropManifest, DropArchive, Report, Abandon
<1>2. CASE WriteManifest(p) /\ c = Id(p) /\ modified'[c] = clock + 1
  BY <1>2
<1>3. CASE manifests[c] = "whole"
  <2>1. QED
    BY <1>1, <1>3 DEF Sound, Loads, IInv, ManifestsAreBacked
<1>4. QED
  BY <1>0, <1>2, <1>3, ManifestMoves

\* It ceases to be sound only when a pruner that has chosen it drops its manifest.
LEMMA SoundGoes ==
  ASSUME IInv, RInv, NEW p \in Publishers, Publish(p), NEW c \in Ids, Sound(c), ~Sound(c)'
  PROVE  DropManifest(p) /\ c \in Chosen(p)
<1>0. /\ archives \in [Ids -> {"absent", "partial", "whole"}]
      /\ manifests \in [Ids -> {"absent", "torn", "whole"}]
      /\ manifests[c] = "whole" /\ archives[c] = "whole" /\ c \notin undeleted
      /\ c \in Nat /\ begun \in Nat
  BY CheckpointConstants DEF IInv, TypeOK, Sound, Loads, Ids
<1>1. CASE DropManifest(p)
  <2>1. CASE c = publishers[p].cur
    BY <1>1, <2>1 DEF Chosen, DropManifest, At
  <2>2. CASE c # publishers[p].cur
    <3>1. manifests'[c] = manifests[c] /\ archives' = archives /\ c \notin undeleted'
      BY <1>0, <1>1, <2>2 DEF DropManifest
    <3>2. QED
      BY <1>0, <3>1 DEF Sound, Loads
  <2>3. QED
    BY <2>1, <2>2
<1>2. ASSUME ~DropManifest(p) PROVE undeleted' = undeleted
  BY <1>2 DEF Publish, Begin, WriteArchive, Verify, CreateManifest, WriteManifest,
     ListManifests, LoadVictim, DropArchive, Report, Abandon
<1>3. ASSUME ~DropManifest(p) PROVE manifests'[c] = "whole"
  <2>1. CASE CreateManifest(p) \/ WriteManifest(p)
    <3>1. Id(p) # c
      BY <1>0, <2>1, WriterOwns
    <3>2. QED
      BY <1>0, <2>1, <3>1 DEF CreateManifest, WriteManifest, Touch
  <2>2. CASE ~CreateManifest(p) /\ ~WriteManifest(p)
    <3>1. manifests' = manifests
      BY <1>3, <2>2 DEF Publish, Begin, WriteArchive, Verify, ListManifests, LoadVictim,
         DropArchive, Report, Abandon, bucket
    <3>2. QED
      BY <1>0, <3>1
  <2>3. QED
    BY <2>1, <2>2
<1>4. ASSUME ~DropManifest(p) PROVE archives'[c] = "whole"
  <2>1. CASE Begin(p)
    <3>1. c # begun + 1
      BY <1>0 DEF IInv, UnusedIds
    <3>2. QED
      BY <1>0, <2>1, <3>1 DEF Begin
  <2>2. CASE WriteArchive(p)
    BY <1>0, <2>2 DEF WriteArchive
  <2>3. CASE DropArchive(p)
    <3>1. c # publishers[p].cur
      BY <1>0, <2>3 DEF DropArchive, At, IInv, ManifestFirst
    <3>2. QED
      BY <1>0, <2>3, <3>1 DEF DropArchive
  <2>4. CASE ~Begin(p) /\ ~WriteArchive(p) /\ ~DropArchive(p)
    <3>1. archives' = archives
      BY <1>4, <2>4 DEF Publish, Verify, CreateManifest, WriteManifest, ListManifests, LoadVictim,
         Report, Abandon, bucket
    <3>2. QED
      BY <1>0, <3>1
  <2>5. QED
    BY <2>1, <2>2, <2>3, <2>4
<1>5. QED
  BY <1>0, <1>1, <1>2, <1>3, <1>4 DEF Sound, Loads

\* A manifest begins to be written when it is created, and is finished when it is
\* committed or its publisher dies.
LEMMA UnfinishedMoves ==
  ASSUME IInv, NEW p \in Publishers, Publish(p)
  PROVE  /\ \A i \in Unfinished' : i \in Unfinished \/ (CreateManifest(p) /\ i = Id(p))
         /\ \A i \in Unfinished : i \in Unfinished' \/ (WriteManifest(p) /\ i = Id(p))
                                  \/ (Abandon(p) /\ i = Id(p))
         /\ CreateManifest(p) => Id(p) \in Unfinished'
         /\ WriteManifest(p) => Id(p) \in Unfinished
<1>1. \A q \in Publishers : q # p => (Creating(q)' <=> Creating(q)) /\ Id(q)' = Id(q)
  BY PublisherMoves DEF Creating, Id
<1>2. Creating(p)' => CreateManifest(p) /\ Id(p)' = Id(p)
  BY PublisherMoves DEF Creating
<1>3. Creating(p) => WriteManifest(p) \/ Abandon(p)
  BY DEF Creating, Publish, Begin, WriteArchive, Verify, CreateManifest,
     ListManifests, LoadVictim, DropManifest, DropArchive, Report, At
<1>4. CreateManifest(p) => Creating(p)' /\ Id(p) \in Ids /\ Id(p)' = Id(p)
  <2>1. ASSUME CreateManifest(p) PROVE publishers'[p].pc = "writeManifest"
    BY <2>1, ContinueEffect DEF CreateManifest, IInv, TypeOK, PublisherSteps
  <2>2. QED
    BY <2>1, WriterOwns DEF Creating
<1>5. WriteManifest(p) => Creating(p) /\ Id(p) \in Ids
  BY WriterOwns DEF WriteManifest, At, Creating
<1>6. \A i \in Unfinished' : i \in Unfinished \/ (CreateManifest(p) /\ i = Id(p))
  BY <1>1, <1>2 DEF Unfinished
<1>7. \A i \in Unfinished : i \in Unfinished' \/ (WriteManifest(p) /\ i = Id(p))
                            \/ (Abandon(p) /\ i = Id(p))
  BY <1>1, <1>3 DEF Unfinished
<1>8. CreateManifest(p) => Id(p) \in Unfinished'
  BY <1>4 DEF Unfinished
<1>9. WriteManifest(p) => Id(p) \in Unfinished
  BY <1>5 DEF Unfinished
<1>10. QED
  BY <1>6, <1>7, <1>8, <1>9

-----------------------------------------------------------------------------
(* The parts of the invariant, one by one, under a step of a publisher.    *)

\* A prune removes nothing created after what it leaves: it takes all manifests
\* that are older, and later commits come after all it has seen.
LEMMA ChosenBeforeStep ==
  ASSUME IInv, RInv, KInv, NEW p \in Publishers, Publish(p) PROVE PrunersChoose' /\ ChosenBefore'
<1>0. /\ modified \in [Ids -> Nat] /\ created \in [Ids -> Nat] /\ clock \in Nat
      /\ \A i \in Ids : modified[i] <= clock /\ created[i] <= modified[i]
      /\ PrunersChoose /\ ChosenBefore
  BY DEF IInv, TypeOK, RInv, Clocked, KInv
<1>1. PrunersChoose'
  BY <1>0, ChosenMoves, PublisherMoves DEF PrunersChoose
<1>2. ASSUME NEW q \in Publishers, NEW j \in Chosen(q)', NEW c \in Ids, Sound(c)',
             c \notin Chosen(q)'
      PROVE  created'[j] < modified'[c]
  <2>1. j \in Ids /\ Dated(j)
    <3>1. j \in Chosen(q) \/ j \in Victims
      BY <1>0, <1>2, ChosenMoves
    <3>2. QED
      BY <3>1, VictimsOverrun DEF RInv, ChosenOverrun
  <2>2. created'[j] = created[j]
    <3>1. ~(j = Id(p) /\ CreateManifest(p))
      BY <2>1 DEF Dated, Unlisted, CreateManifest, At
    <3>2. QED
      BY <2>1, <3>1, ManifestMoves
  <2>3. /\ created[j] \in Nat /\ created[j] <= clock /\ modified[j] \in Nat
        /\ modified[c] \in Nat /\ created[j] <= modified[j] /\ modified[c] <= clock
    BY <1>0, <2>1
  <2>4. CASE modified'[c] = clock + 1
    BY <1>0, <2>2, <2>3, <2>4
  <2>5. CASE modified'[c] = modified[c] /\ Sound(c)
    <3>1. CASE j \in Chosen(q) /\ c \notin Chosen(q)
      BY <1>0, <2>2, <2>5, <3>1 DEF ChosenBefore
    <3>2. CASE j \in Chosen(q) /\ c \in Chosen(q)
      BY <1>0, <1>2, <3>2, ChosenMoves
    <3>3. CASE j \notin Chosen(q)
      <4>1. Chosen(q)' = Victims
        BY <1>0, <1>2, <3>3, ChosenMoves
      <4>2. j \in Listed /\ Cardinality(Newer(j)) >= Retain /\ c \notin Victims
        BY <1>2, <4>1 DEF Victims
      <4>3. c \in Listed
        BY <2>5 DEF Listed, Sound, Loads
      <4>4. ~(Cardinality(Newer(c)) >= Retain)
        BY <4>2, <4>3 DEF Victims
      <4>5. ASSUME modified[c] <= created[j] PROVE FALSE
        <5>1. Newer(j) \subseteq Newer(c)
          BY <1>0, <2>3, <4>5 DEF Newer, Listed
        <5>2. IsFiniteSet(Newer(c))
          BY FiniteIds, FS_Subset DEF Newer, Listed
        <5>3. Cardinality(Newer(j)) <= Cardinality(Newer(c)) /\ IsFiniteSet(Newer(j))
          BY <5>1, <5>2, FS_Subset
        <5>4. Cardinality(Newer(j)) \in Nat /\ Cardinality(Newer(c)) \in Nat
          BY <5>2, <5>3, FS_CardinalityType
        <5>5. QED
          BY <4>2, <4>4, <5>3, <5>4, CheckpointConstants
      <4>6. QED
        BY <2>2, <2>3, <2>5, <4>5
    <3>4. QED
      BY <3>1, <3>2, <3>3
  <2>6. QED
    BY <1>2, <2>4, <2>5, ManifestMoves, SoundComes
<1>3. QED
  BY <1>1, <1>2 DEF ChosenBefore

\* Fewer checkpoints straddle a commit than there are publishers.
LEMMA StraddleStep ==
  ASSUME IInv, RInv, KInv, NEW p \in Publishers, Publish(p) PROVE FewStraddle'
<1>0. /\ modified \in [Ids -> Nat] /\ created \in [Ids -> Nat] /\ clock \in Nat
      /\ \A i \in Ids : modified[i] <= clock /\ created[i] <= modified[i]
      /\ FewStraddle
  BY DEF IInv, TypeOK, RInv, Clocked, KInv
<1>n. Cardinality(Publishers) \in Nat
  BY FS_CardinalityType, CheckpointConstants
<1>1. ASSUME NEW c \in Ids, manifests'[c] = "whole"
      PROVE  Cardinality(Straddlers(c)') < Cardinality(Publishers)
  <2>1. CASE manifests[c] = "whole"
    <3>1. modified'[c] = modified[c] /\ modified[c] <= clock /\ modified[c] \in Nat
      BY <1>0, <2>1, ManifestMoves, WriterOwns
    <3>2. Straddlers(c)' \subseteq Straddlers(c)
      <4> SUFFICES ASSUME NEW j \in Straddlers(c)' PROVE j \in Straddlers(c)
        OBVIOUS
      <4>1. /\ j \in Ids /\ created'[j] < modified'[c]
            /\ modified'[j] > modified'[c] \/ j \in Unfinished'
        BY DEF Straddlers, Ids
      <4>2. created'[j] # clock + 1
        BY <1>0, <3>1, <4>1
      <4>3. created'[j] = created[j] /\ ~(CreateManifest(p) /\ j = Id(p))
        <5>1. ASSUME CreateManifest(p), j = Id(p) PROVE created'[j] = clock + 1
          BY <1>0, <4>1, <5>1 DEF CreateManifest
        <5>2. QED
          BY <4>1, <4>2, <5>1, ManifestMoves
      <4>4. modified[j] > modified[c] \/ j \in Unfinished
        BY <3>1, <4>1, <4>3, ManifestMoves, UnfinishedMoves
      <4>5. QED
        BY <3>1, <4>1, <4>3, <4>4 DEF Straddlers
    <3>3. IsFiniteSet(Straddlers(c))
      BY FiniteIds, FS_Subset DEF Straddlers
    <3>4. IsFiniteSet(Straddlers(c)') /\ Cardinality(Straddlers(c)') <= Cardinality(Straddlers(c))
      BY <3>2, <3>3, FS_Subset
    <3>5. Cardinality(Straddlers(c)') \in Nat /\ Cardinality(Straddlers(c)) \in Nat
      BY <3>3, <3>4, FS_CardinalityType
    <3>6. Cardinality(Straddlers(c)) < Cardinality(Publishers)
      BY <1>0, <2>1 DEF FewStraddle
    <3>7. QED
      BY <1>n, <3>4, <3>5, <3>6
  <2>2. CASE manifests[c] # "whole"
    <3>1. WriteManifest(p) /\ c = Id(p) /\ modified'[c] = clock + 1
      BY <1>1, <2>2, ManifestMoves
    <3> DEFINE W == Publishers \ {p}
               S == {Id(q) : q \in W}
    <3>2. Straddlers(c)' \subseteq S
      <4> SUFFICES ASSUME NEW j \in Straddlers(c)' PROVE j \in S
        OBVIOUS
      <4>1. /\ j \in Ids
            /\ modified'[j] > modified'[c] \/ j \in Unfinished'
        BY DEF Straddlers, Ids
      <4>2. ~(modified'[j] > modified'[c])
        <5>1. modified'[j] \in {modified[j], clock + 1} /\ modified[j] <= clock /\ modified[j] \in Nat
          BY <1>0, <4>1, ManifestMoves
        <5>2. QED
          BY <1>0, <3>1, <5>1
      <4>3. PICK q \in Publishers : Creating(q)' /\ Id(q)' = j
        BY <4>1, <4>2 DEF Unfinished
      <4>4. q # p
        BY <3>1, <4>3, PublisherMoves, WriterOwns DEF Creating
      <4>5. Id(q)' = Id(q)
        BY <4>4, PublisherMoves DEF Id
      <4>6. QED
        BY <4>3, <4>4, <4>5
    <3>3. IsFiniteSet(S) /\ Cardinality(S) <= Cardinality(W) /\ Cardinality(W) \in Nat
          /\ Cardinality(S) \in Nat
      BY OneIdEach
    <3>4. Cardinality(W) = Cardinality(Publishers) - 1
      BY FS_RemoveElement, CheckpointConstants
    <3> HIDE DEF W, S
    <3>5. IsFiniteSet(Straddlers(c)') /\ Cardinality(Straddlers(c)') <= Cardinality(S)
      BY <3>2, <3>3, FS_Subset
    <3>6. Cardinality(Straddlers(c)') \in Nat
      BY <3>5, FS_CardinalityType
    <3>7. QED
      BY <1>n, <3>3, <3>4, <3>5, <3>6
  <2>3. QED
    BY <2>1, <2>2
<1>2. QED
  BY <1>1 DEF FewStraddle

\* Every torn manifest nobody is writing, and every one that could not be deleted,
\* has been paid for by a fault.
LEMMA DebrisStep ==
  ASSUME IInv, RInv, KInv, NEW p \in Publishers, Publish(p) PROVE DebrisPaid' /\ faults <= faults'
<1>0. /\ faults \in Nat /\ undeleted \subseteq Ids
      /\ manifests \in [Ids -> {"absent", "torn", "whole"}]
      /\ Cardinality(Debris) <= faults
  BY DEF IInv, TypeOK, KInv, DebrisPaid
<1>1. Debris \subseteq Ids /\ IsFiniteSet(Debris) /\ Cardinality(Debris) \in Nat
  BY <1>0, FiniteIds, FS_Subset, FS_CardinalityType DEF Debris
<1>2. faults' = faults \/ faults' = faults + 1
  BY DEF Publish, Begin, WriteArchive, Verify, CreateManifest, WriteManifest,
     ListManifests, LoadVictim, DropManifest, DropArchive, Report, Abandon, Fault
<1>3. \/ \E x : Debris' \subseteq Debris \cup {x} /\ faults' = faults + 1
      \/ Debris' \subseteq Debris
  <2>1. \/ undeleted' = undeleted
        \/ /\ DropManifest(p) /\ faults' = faults + 1
           /\ undeleted' = undeleted \cup {publishers[p].cur}
    BY DEF Publish, Begin, WriteArchive, Verify, CreateManifest, WriteManifest,
       ListManifests, LoadVictim, DropManifest, DropArchive, Report, Abandon, Fault
  <2>2. ASSUME NEW i \in Ids, manifests'[i] = "torn", i \notin Unfinished'
        PROVE  i \in Debris \/ (Abandon(p) /\ i = Id(p) /\ faults' = faults + 1)
    <3>1. manifests[i] = "torn"
      BY <2>2, ManifestMoves, UnfinishedMoves
    <3>2. ~(WriteManifest(p) /\ i = Id(p))
      BY <1>0, <2>2, <3>1 DEF WriteManifest, Touch
    <3>3. Abandon(p) => faults' = faults + 1
      BY DEF Abandon, Fault
    <3>4. QED
      BY <2>2, <3>1, <3>2, <3>3, UnfinishedMoves DEF Debris
  <2>3. undeleted \subseteq Debris
    BY DEF Debris
  <2>4. CASE undeleted' # undeleted
    <3>1. ~Abandon(p)
      BY <2>4 DEF Abandon
    <3>2. Debris' \subseteq Debris \cup {publishers[p].cur}
      BY <2>1, <2>2, <2>3, <2>4, <3>1 DEF Debris, Ids
    <3>3. QED
      BY <2>1, <2>4, <3>2
  <2>5. CASE undeleted' = undeleted
    <3>1. CASE Abandon(p)
      <4>1. Debris' \subseteq Debris \cup {Id(p)}
        BY <2>2, <2>3, <2>5 DEF Debris, Ids
      <4>2. faults' = faults + 1
        BY <3>1 DEF Abandon, Fault
      <4>3. QED
        BY <4>1, <4>2
    <3>2. CASE ~Abandon(p)
      <4>1. Debris' \subseteq Debris
        BY <2>2, <2>3, <2>5, <3>2 DEF Debris, Ids
      <4>2. QED
        BY <4>1
    <3>3. QED
      BY <3>1, <3>2
  <2>6. QED
    BY <2>4, <2>5
<1>4. CASE Debris' \subseteq Debris
  <2>1. IsFiniteSet(Debris') /\ Cardinality(Debris') <= Cardinality(Debris)
    BY <1>1, <1>4, FS_Subset
  <2>2. Cardinality(Debris') \in Nat
    BY <2>1, FS_CardinalityType
  <2>3. Cardinality(Debris') <= faults'
    BY <1>0, <1>1, <1>2, <2>1, <2>2
  <2>4. QED
    BY <1>0, <1>2, <2>3 DEF DebrisPaid
<1>5. ASSUME NEW x, Debris' \subseteq Debris \cup {x}, faults' = faults + 1
      PROVE  DebrisPaid' /\ faults <= faults'
  <2>1. /\ IsFiniteSet(Debris \cup {x}) /\ Cardinality(Debris \cup {x}) \in Nat
        /\ Cardinality(Debris \cup {x}) <= Cardinality(Debris) + 1
    <3>1. IsFiniteSet({x}) /\ Cardinality({x}) = 1
      BY FS_Singleton
    <3>2. QED
      BY <1>1, <3>1, UnionBound
  <2>2. IsFiniteSet(Debris') /\ Cardinality(Debris') <= Cardinality(Debris \cup {x})
    BY <1>5, <2>1, FS_Subset
  <2>3. Cardinality(Debris') \in Nat
    BY <2>2, FS_CardinalityType
  <2>4. Cardinality(Debris') <= faults'
    BY <1>0, <1>1, <1>5, <2>1, <2>2, <2>3
  <2>5. QED
    BY <1>0, <1>5, <2>4 DEF DebrisPaid
<1>6. QED
  BY <1>3, <1>4, <1>5

\* A checkpoint stays safe, unless a prune chooses it.
LEMMA SafeStays ==
  ASSUME IInv, RInv, PrunersChoose, NEW p \in Publishers, Publish(p), NEW c \in Ids, Safe(c),
         ListManifests(p) => c \notin Victims
  PROVE  Safe(c)'
<1>1. Sound(c)'
  BY SoundGoes DEF Safe
<1>2. ASSUME NEW q \in Publishers PROVE c \notin Chosen(q)'
  BY ChosenMoves DEF Safe
<1>3. QED
  BY <1>1, <1>2 DEF Safe

\* Before anything was committed nobody prunes.
LEMMA FirstCommit ==
  ASSUME IInv, RInv, PrunersChoose, ~Started, NEW p \in Publishers, Publish(p), Started'
  PROVE  \E c \in Ids : Safe(c)'
<1>0. /\ reported = {} /\ undeleted = {} /\ manifests \in [Ids -> {"absent", "torn", "whole"}]
      /\ \A q \in Publishers : ~Pruning(q)
      /\ \A q \in Publishers : Creating(q) => manifests[Id(q)] # "absent"
  BY DEF Started, IInv, TypeOK
<1>1. ~DropManifest(p) /\ ~DropArchive(p) /\ ~Report(p) /\ ~ListManifests(p) /\ ~LoadVictim(p)
  BY <1>0 DEF Pruning, DropManifest, DropArchive, Report, ListManifests, LoadVictim, At
<1>2. reported' = {} /\ undeleted' = {}
  BY <1>0, <1>1 DEF Publish, Begin, WriteArchive, Verify, CreateManifest, WriteManifest, Abandon
<1>3. ASSUME NEW q \in Publishers, Creating(q)', manifests'[Id(q)'] = "absent" PROVE FALSE
  <2>1. CASE q = p
    <3>1. CreateManifest(p) /\ Id(p)' = Id(p)
      BY <1>3, <2>1, PublisherMoves DEF Creating
    <3>2. manifests'[Id(p)] = "torn"
      BY <1>0, <3>1, WriterOwns DEF CreateManifest, Touch
    <3>3. QED
      BY <1>3, <2>1, <3>1, <3>2
  <2>2. CASE q # p
    <3>1. Creating(q) /\ Id(q)' = Id(q)
      BY <1>3, <2>2, PublisherMoves DEF Creating, Id
    <3>2. manifests[Id(q)] # "absent" /\ Id(q) \in Ids
      BY <1>0, <3>1, WriterDated DEF Creating
    <3>3. manifests'[Id(q)] # "absent"
      BY <1>0, <1>1, <3>2 DEF Publish, Begin, WriteArchive, Verify, CreateManifest, WriteManifest,
         Abandon, Touch, bucket
    <3>4. QED
      BY <1>3, <3>1, <3>3
  <2>3. QED
    BY <2>1, <2>2
<1>4. PICK q \in Publishers : Pruning(q)'
  BY <1>2, <1>3 DEF Started
<1>5. q = p
  BY <1>0, <1>4, PublisherMoves DEF Pruning
<1>6. WriteManifest(p)
  BY <1>0, <1>4, <1>5, PublisherMoves
<1>7. /\ Id(p) \in Ids /\ manifests[Id(p)] # "absent" /\ archives[Id(p)] = "whole"
  BY <1>0, <1>6, WriterOwns DEF WriteManifest, At, Creating, IInv, VerifiedStays
<1>8. manifests'[Id(p)] = "whole" /\ archives' = archives
  BY <1>0, <1>6, <1>7 DEF WriteManifest, Touch
<1>9. \A r \in Publishers : Chosen(r) = {}
  BY <1>0 DEF PrunersChoose, Pruning
<1>10. \A r \in Publishers : Chosen(r)' = {}
  BY <1>1, <1>9, ChosenMoves
<1>11. ASSUME NEW c \in Ids, c = Id(p) PROVE Safe(c)'
  BY <1>2, <1>7, <1>8, <1>10, <1>11 DEF Safe, Sound, Loads
<1>12. QED
  BY <1>7, <1>11

\* A safe checkpoint remains as long as retention has room for what goes wrong.
LEMMA SafeRemainsStep ==
  ASSUME IInv, RInv, KInv, NEW p \in Publishers, Publish(p) PROVE SafeRemains'
<1> SUFFICES ASSUME Roomy', Started' PROVE \E c \in Ids : Safe(c)'
  BY DEF SafeRemains, Ids
<1>0. PrunersChoose /\ SafeRemains
  BY DEF KInv
<1>1. Roomy
  <2>1. faults <= faults' /\ faults \in Nat /\ faults' \in Nat
    BY DebrisStep, StepInvariant DEF IInv, TypeOK, Next
  <2>2. Cardinality(Publishers) \in Nat /\ Retain \in Nat
    BY FS_CardinalityType, CheckpointConstants
  <2>3. faults' + Cardinality(Publishers) <= Retain
        /\ faults' + 2 * Cardinality(Publishers) <= Retain + 2
    BY DEF Roomy
  <2>4. QED
    BY <2>1, <2>2, <2>3 DEF Roomy
<1>2. CASE Started
  <2>1. \E c \in Ids : Safe(c)
    BY <1>0, <1>1, <1>2 DEF SafeRemains
  <2>2. PICK c \in Ids : Safe(c) /\ (ListManifests(p) => c \notin Victims)
    <3>1. CASE ListManifests(p)
      BY <1>1, <2>1, <3>1, PruneSpares DEF ListManifests
    <3>2. QED
      BY <2>1, <3>1
  <2>3. QED
    BY <1>0, <2>2, SafeStays
<1>3. CASE ~Started
  BY <1>0, <1>3, FirstCommit
<1>4. QED
  BY <1>2, <1>3

\* Faults are counted, never forgotten.
LEMMA FaultsGrow == ASSUME IInv, UNCHANGED untouched, [Next]_vars PROVE faults <= faults'
<1>1. faults \in Nat
  BY DEF IInv, TypeOK
<1>2. faults' = faults \/ faults' = faults + 1
  BY DEF Next, vars, Publish, Begin, WriteArchive, Verify, CreateManifest, WriteManifest,
     ListManifests, LoadVictim, DropManifest, DropArchive, Report, Abandon, Restore,
     LoadCheckpoint, StatManifest, WalkObjects, StatArchive, TryNext, Open, Fault
<1>3. QED
  BY <1>1, <1>2

\* Every step preserves what keeps a checkpoint restorable.
LEMMA KeepStep == ASSUME IInv, RInv, KInv, [Next]_vars PROVE KInv'
<1>1. CASE UNCHANGED untouched
  <2>1. /\ faults \in Nat /\ faults' \in Nat /\ faults <= faults'
        /\ Cardinality(Publishers) \in Nat /\ Retain \in Nat
    BY <1>1, StepInvariant, FaultsGrow, FS_CardinalityType, CheckpointConstants DEF IInv, TypeOK
  <2>2. PrunersChoose' /\ ChosenBefore' /\ FewStraddle'
    <3>1. \A p \in Publishers : Chosen(p)' = Chosen(p) /\ (Pruning(p)' <=> Pruning(p))
                               /\ Id(p)' = Id(p) /\ (Creating(p)' <=> Creating(p))
      BY <1>1 DEF Chosen, Pruning, Creating, Id, untouched
    <3>2. \A c \in Ids : Sound(c)' <=> Sound(c)
      BY <1>1 DEF Sound, Loads, untouched, bucket
    <3>3. \A c \in Ids : Straddlers(c)' = Straddlers(c)
      BY <1>1 DEF Straddlers, Unfinished, Creating, Id, untouched, bucket
    <3>4. UNCHANGED <<publishers, modified, created, manifests>>
      BY <1>1 DEF untouched, bucket
    <3>5. PrunersChoose' /\ FewStraddle'
      BY <3>1, <3>3, <3>4 DEF KInv, PrunersChoose, FewStraddle
    <3>6. ChosenBefore'
      BY <3>1, <3>2, <3>4 DEF KInv, ChosenBefore
    <3>7. QED
      BY <3>5, <3>6
  <2>3. Debris' = Debris /\ undeleted \subseteq Ids
    BY <1>1 DEF Debris, Unfinished, Creating, Id, untouched, bucket, IInv, TypeOK
  <2>4. DebrisPaid'
    <3>1. IsFiniteSet(Debris)
      BY <2>3, FiniteIds, FS_Subset DEF Debris
    <3>2. Cardinality(Debris) \in Nat /\ Cardinality(Debris) <= faults
      BY <3>1, FS_CardinalityType DEF KInv, DebrisPaid
    <3>3. QED
      BY <2>1, <2>3, <3>2 DEF DebrisPaid
  <2>5. Roomy' => Roomy
    BY <2>1 DEF Roomy
  <2>6. (\A c \in Ids : Safe(c) => Safe(c)') /\ (Started' => Started)
    BY <1>1 DEF Safe, Sound, Loads, Chosen, Started, Pruning, Creating, Id, untouched, bucket
  <2>7. SafeRemains'
    BY <2>5, <2>6 DEF KInv, SafeRemains
  <2>8. QED
    BY <2>2, <2>4, <2>7 DEF KInv
<1>2. ASSUME NEW p \in Publishers, Publish(p) PROVE KInv'
  BY <1>2, ChosenBeforeStep, StraddleStep, DebrisStep, SafeRemainsStep DEF KInv
<1>3. QED
  BY <1>1, <1>2, WhoMoves

\* The invariant of retention: a prune removes nothing created after what it
\* leaves, few checkpoints straddle a commit, and a safe one remains
\* (pruneCheckpoints).
THEOREM KeepInvariance == Spec => []KInv
<1>1. Init => KInv
  <2> SUFFICES ASSUME Init PROVE KInv
    OBVIOUS
  <2>1. \A p \in Publishers : publishers[p].pc = "idle" /\ publishers[p].victims = {}
    BY DEF Init, IdlePublisher
  <2>2. \A p \in Publishers : Chosen(p) = {} /\ ~Creating(p) /\ ~Pruning(p)
    BY <2>1 DEF Chosen, Creating, Pruning
  <2>3. PrunersChoose /\ ChosenBefore
    BY <2>2 DEF PrunersChoose, ChosenBefore
  <2>4. FewStraddle
    BY DEF Init, FewStraddle
  <2>5. DebrisPaid
    <3>1. Debris = {}
      BY DEF Init, Debris
    <3>2. QED
      BY <3>1, FS_EmptySet DEF Init, DebrisPaid
  <2>6. SafeRemains
    BY <2>2 DEF Init, SafeRemains, Started
  <2>7. QED
    BY <2>3, <2>4, <2>5, <2>6 DEF KInv
<1>2. IInv /\ RInv /\ KInv /\ [Next]_vars => KInv'
  BY KeepStep
<1>3. QED
  BY <1>1, <1>2, Invariance, RetentionInvariance, PTL DEF Spec

\* Once a checkpoint has been reported there is always one to restore, whatever
\* publishers and pruners run at once, as long as retention keeps more manifests
\* than failures and unfinished writers can use up (PublishCheckpoint,
\* pruneCheckpoints).
THEOREM Restorable == Spec => []RestorableOnceReported
<1>1. KInv => RestorableOnceReported
  BY DEF KInv, SafeRemains, Started, Roomy, Safe, Sound, RestorableOnceReported
<1>2. QED
  BY <1>1, KeepInvariance, PTL
=============================================================================
