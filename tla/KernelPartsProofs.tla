-------------------------- MODULE KernelPartsProofs --------------------------
(***************************************************************************)
(* The promises of the parts that keep rows and files, for every value of  *)
(* their parameters.  A behaviour of KernelParts is one of a single part,  *)
(* so each argument is about that part's own steps.  The artifact store,   *)
(* which has a specification of its own, comes last.                       *)
(***************************************************************************)
EXTENDS KernelParts, Artifacts, RankingProofs, SequenceTheorems, FiniteSetTheorems, WellFoundedInduction, TLAPS

kernelVars == <<partVars, kernelPartsVars>>

(* A step is one of the part that was chosen at the start. *)
LEMMA StepsOfParts ==
    ASSUME KernelNext
    PROVE  /\ part' = part
           /\ part = "registry" => Registered!RegistryNext
           /\ part = "opening" => Open!OpeningNext
           /\ part = "backup" => Copy!BackupNext
           /\ part = "retrieval" => Store!RetrievalNext
  BY DEF KernelNext, RegistryStep, OpeningStep, BackupStep, RetrievalStep, KernelOthersIdle

Options(S) == {{}} \cup {{x} : x \in S}

-----------------------------------------------------------------------------
(* Backup. *)

LEMMA TheCopied ==
    ASSUME NEW S
    PROVE  /\ {} \in Options(S)
           /\ \A x : Copy!The({x}) = x
           /\ \A x \in S : {x} \in Options(S)
           /\ \A o \in Options(S) : o # {} => Copy!The(o) \in S /\ o = {Copy!The(o)}
  BY DEF Copy!The, Options

Kept == SUBSET CopyArtifacts
Backups == [database : Options(Kept), files : SUBSET (CopyArtifacts \X {"intact", "damaged"}),
            manifest : Options(Kept)]
Targets == [database : Options(Kept), artifacts : Options(Kept)]
Restoring == [at : {"start", "slot", "stage", "link", "restored", "refused", "failed", "stopped"},
              manifest : Kept, staged : Kept, todo : Kept]
Writing == [at : {"start", "copy", "done", "failed", "stopped"}, todo : Kept]
BackupTypes ==
    /\ kernel \in [rows : Kept, files : Kept]
    /\ backup \in Backups
    /\ writing \in Writing
    /\ target \in Targets
    /\ restoring \in [CopyRestores -> Restoring]

(* The manifest is the snapshot, and what is restored is the manifest. *)
RestoresFollowManifest ==
    /\ writing.at = "start" => backup.database = {}
    /\ writing.at = "copy" => backup.database # {}
    /\ backup.manifest # {} => writing.at = "done" /\ backup.manifest = backup.database
    /\ \A r \in CopyRestores :
         restoring[r].at \in {"slot", "stage", "link", "restored"} =>
            backup.manifest = {restoring[r].manifest}
    /\ \/ target.database = {} \/ target.database = {{}}
       \/ target.database = backup.manifest

(* What is installed is all of the manifest, and nothing stood in its place:
   only one restore at a time is between the two steps of its commit, unless
   it has no artifact to bring. *)
InstalledIsWhole ==
    \A r \in CopyRestores :
        /\ restoring[r].at \in {"start", "slot"} => restoring[r].staged = {}
        /\ restoring[r].at = "stage" =>
              restoring[r].manifest = restoring[r].staged \cup restoring[r].todo
        /\ restoring[r].at = "link" /\ restoring[r].manifest # {} =>
              /\ target.artifacts = {restoring[r].manifest}
              /\ target.database = {} \/ target.database = {{}}
              /\ \A s \in CopyRestores \ {r} : restoring[s].at # "link"

BackupInv ==
    BackupTypes /\ RestoresFollowManifest /\ InstalledIsWhole /\ Copy!RestoredIsWhole

LEMMA BackupInits == ASSUME Copy!BackupInit PROVE BackupInv
<1> USE DEF Copy!BackupInit, Copy!None
<1>1. BackupTypes
  <2>1. kernel \in [rows : Kept, files : Kept]
    BY DEF Kept
  <2>2. {} \in Options(Kept) /\ {} \in Kept
    BY TheCopied DEF Kept
  <2>3. backup \in Backups
    BY <2>2 DEF Backups
  <2>4. writing \in Writing
    BY <2>2 DEF Writing
  <2>5. target \in Targets
    BY <2>2 DEF Targets
  <2>6. restoring \in [CopyRestores -> Restoring]
    BY <2>2 DEF Restoring
  <2> QED
    BY <2>1, <2>2, <2>3, <2>4, <2>5, <2>6 DEF BackupTypes
<1>2. RestoresFollowManifest
  BY DEF RestoresFollowManifest
<1>3. InstalledIsWhole
  BY DEF InstalledIsWhole
<1>4. Copy!RestoredIsWhole
  BY DEF Copy!RestoredIsWhole
<1> QED
  BY <1>1, <1>2, <1>3, <1>4 DEF BackupInv

(* A restore that ends keeps its manifest, and is the only one to move. *)
LEMMA RestoreEnded ==
    ASSUME BackupTypes, NEW r \in CopyRestores,
           NEW outcome \in {"restored", "refused", "failed", "stopped"}, Copy!RestoreEnds(r, outcome)
    PROVE  /\ restoring' \in [CopyRestores -> Restoring]
           /\ restoring'[r].at = outcome /\ restoring'[r].manifest = restoring[r].manifest
           /\ \A s \in CopyRestores \ {r} : restoring'[s] = restoring[s]
<1>1. restoring \in [CopyRestores -> Restoring] /\ restoring[r] \in Restoring /\ {} \in Kept
  BY DEF BackupTypes, Kept
<1>2. PICK to : to = [restoring[r] EXCEPT !.at = outcome, !.staged = {}, !.todo = {}]
  OBVIOUS
<1>3. to \in Restoring /\ to.at = outcome /\ to.manifest = restoring[r].manifest
  BY <1>1, <1>2 DEF Restoring
<1>4. restoring' = [restoring EXCEPT ![r] = to]
  BY <1>1, <1>2 DEF Copy!RestoreEnds
<1> QED
  BY <1>1, <1>3, <1>4

LEMMA BackupSteps == ASSUME BackupInv, Copy!BackupNext PROVE BackupInv'
<1> USE DEF BackupInv
<1> DEFINE Stays == RestoresFollowManifest /\ InstalledIsWhole /\ Copy!RestoredIsWhole
<1>1. CASE Copy!Kernel
  <2>1. BackupTypes'
    BY <1>1 DEF Copy!Kernel, Copy!KernelChanges, BackupTypes, Kept
  <2>2. Stays'
    BY <1>1 DEF Copy!Kernel, RestoresFollowManifest, InstalledIsWhole, Copy!RestoredIsWhole
  <2> QED
    BY <2>1, <2>2
<1>2. CASE Copy!Snapshot
  <2>1. /\ writing.at = "start"
        /\ backup' = [backup EXCEPT !.database = {kernel.rows}]
        /\ writing' = [at |-> "copy", todo |-> kernel.rows]
        /\ UNCHANGED <<kernel, target, restoring>>
    BY <1>2 DEF Copy!Snapshot, Copy!WritingGoes, Copy!Some
  <2>2. kernel.rows \in Kept /\ {kernel.rows} \in Options(Kept)
    BY TheCopied DEF BackupTypes
  <2>3. backup' \in Backups /\ writing' \in Writing
    BY <2>1, <2>2 DEF BackupTypes, Backups, Writing
  <2>4. RestoresFollowManifest'
    BY <2>1 DEF RestoresFollowManifest, BackupTypes, Backups
  <2>5. InstalledIsWhole' /\ Copy!RestoredIsWhole'
    BY SMTT(30), <2>1 DEF InstalledIsWhole, Copy!RestoredIsWhole, RestoresFollowManifest, BackupTypes, Backups
  <2> QED
    BY <2>1, <2>3, <2>4, <2>5 DEF BackupTypes
<1>3. CASE Copy!CopyArtifact \/ Copy!StopBackup
  <2>1. /\ writing.at = "copy" /\ writing'.at \in {"copy", "failed", "stopped"}
        /\ backup'.database = backup.database /\ backup'.manifest = backup.manifest
        /\ UNCHANGED <<kernel, target, restoring>>
    BY <1>3 DEF Copy!CopyArtifact, Copy!StopBackup, Copy!WritingGoes, BackupTypes, Backups
  <2>2. backup' \in Backups
    <3>1. \A a \in writing.todo : Copy!Intact(a) \in CopyArtifacts \X {"intact", "damaged"}
      BY DEF Copy!Intact, BackupTypes, Writing, Kept
    <3>2. ASSUME NEW a \in writing.todo, backup' = [backup EXCEPT !.files = @ \cup {Copy!Intact(a)}]
          PROVE  backup' \in Backups
      BY <3>1, <3>2 DEF BackupTypes, Backups
    <3> QED
      BY <1>3, <3>2, Zenon DEF Copy!CopyArtifact, Copy!StopBackup, BackupTypes
  <2>3. writing' \in Writing
    BY <1>3 DEF Copy!CopyArtifact, Copy!StopBackup, Copy!WritingGoes, BackupTypes, Writing, Kept
  <2>4. RestoresFollowManifest'
    BY <2>1 DEF RestoresFollowManifest
  <2>5. InstalledIsWhole' /\ Copy!RestoredIsWhole'
    BY <2>1 DEF InstalledIsWhole, Copy!RestoredIsWhole
  <2> QED
    BY <2>1, <2>2, <2>3, <2>4, <2>5 DEF BackupTypes
<1>4. CASE Copy!WriteManifest
  <2>1. backup.database \in Options(Kept) /\ backup.database # {}
    BY <1>4 DEF Copy!WriteManifest, BackupTypes, RestoresFollowManifest, Backups
  <2>2. Copy!Some(Copy!Listed) = backup.database /\ {} \in Kept
    BY <2>1, TheCopied DEF Copy!Some, Copy!Listed, Kept
  <2>3. /\ backup' = [backup EXCEPT !.manifest = backup.database]
        /\ writing' = [at |-> "done", todo |-> {}]
        /\ UNCHANGED <<kernel, target, restoring>> /\ writing.at = "copy"
    BY <1>4, <2>2 DEF Copy!WriteManifest, Copy!WritingGoes
  <2>4. backup' \in Backups /\ writing' \in Writing
    BY <2>1, <2>2, <2>3 DEF BackupTypes, Backups, Writing
  <2>5. RestoresFollowManifest'
    BY <2>1, <2>3 DEF BackupTypes, RestoresFollowManifest, Backups
  <2>6. InstalledIsWhole' /\ Copy!RestoredIsWhole'
    BY <2>3 DEF InstalledIsWhole, Copy!RestoredIsWhole, BackupTypes, Backups
  <2> QED
    BY <2>3, <2>4, <2>5, <2>6 DEF BackupTypes
<1>5. CASE Copy!Damage
  <2>1. /\ backup'.database = backup.database /\ backup'.manifest = backup.manifest
        /\ UNCHANGED <<kernel, writing, target, restoring>>
    BY <1>5 DEF Copy!Damage, BackupTypes, Backups
  <2>2. backup' \in Backups
    BY <1>5 DEF Copy!Damage, Copy!Damaged, BackupTypes, Backups
  <2>3. Stays'
    BY <2>1 DEF RestoresFollowManifest, InstalledIsWhole, Copy!RestoredIsWhole
  <2> QED
    BY <2>1, <2>2, <2>3 DEF BackupTypes
<1>6. CASE Copy!OpenTarget
  <2>1. /\ target.database = {} /\ target' = [target EXCEPT !.database = {{}}]
        /\ UNCHANGED <<kernel, backup, writing, restoring>>
    BY <1>6 DEF Copy!OpenTarget, Copy!Some, Copy!None
  <2>2. target' \in Targets
    BY <2>1, TheCopied, Zenon DEF BackupTypes, Targets, Kept
  <2>3. RestoresFollowManifest' /\ InstalledIsWhole'
    BY <2>1 DEF RestoresFollowManifest, InstalledIsWhole, BackupTypes, Targets
  <2>4. Copy!The(target'.database) = {}
    BY <2>1, TheCopied, Zenon DEF BackupTypes, Targets
  <2>5. \A r \in CopyRestores : restoring[r].at # "restored"
    BY <2>1 DEF Copy!RestoredIsWhole, RestoresFollowManifest
  <2> QED
    BY <2>1, <2>2, <2>3, <2>4, <2>5 DEF BackupTypes, Copy!RestoredIsWhole
<1>7. ASSUME NEW r \in CopyRestores, Copy!RestoreEnds(r, "refused") \/ Copy!RestoreEnds(r, "failed") \/ Copy!RestoreEnds(r, "stopped"),
             UNCHANGED <<kernel, backup, writing, target>>
      PROVE  BackupInv'
  <2>1. restoring' \in [CopyRestores -> Restoring]
    <3>1. restoring[r] \in Restoring /\ {} \in Kept
      BY DEF BackupTypes, Kept
    <3>2. restoring'[r] \in Restoring /\ \A s \in CopyRestores \ {r} : restoring'[s] = restoring[s]
      BY <1>7, <3>1 DEF Copy!RestoreEnds, BackupTypes, Restoring
    <3> QED
      BY <1>7, <3>2 DEF Copy!RestoreEnds, BackupTypes
  <2>2. RestoresFollowManifest'
    BY <1>7 DEF Copy!RestoreEnds, RestoresFollowManifest, BackupTypes, Restoring
  <2>3. InstalledIsWhole' /\ Copy!RestoredIsWhole'
    BY SMTT(30), <1>7 DEF Copy!RestoreEnds, InstalledIsWhole, Copy!RestoredIsWhole, BackupTypes, Restoring
  <2> QED
    BY <1>7, <2>1, <2>2, <2>3 DEF BackupTypes
<1>8. ASSUME NEW r \in CopyRestores, Copy!Validate(r) \/ Copy!CheckSlot(r) \/ Copy!StageFile(r),
             ~Copy!RestoreEnds(r, "refused")
      PROVE  BackupInv'
  <2>1. UNCHANGED <<kernel, backup, writing, target>>
    BY <1>8 DEF Copy!Validate, Copy!CheckSlot, Copy!StageFile
  <2>2. PICK to \in Restoring :
           /\ restoring' = [restoring EXCEPT ![r] = to]
           /\ restoring[r].at \in {"start", "slot", "stage"} /\ to.at \in {"slot", "stage"}
           /\ backup.manifest = {to.manifest}
           /\ to.at = "slot" => to.staged = {}
           /\ to.at = "stage" => to.manifest = to.staged \cup to.todo
    <3>1. CASE Copy!Validate(r)
      <4>1. Copy!The(backup.manifest) \in Kept /\ backup.manifest = {Copy!The(backup.manifest)}
        BY <1>8, <3>1, TheCopied DEF Copy!Validate, Copy!Valid, Copy!None, BackupTypes, Backups
      <4>2. [restoring[r] EXCEPT !.at = "slot", !.manifest = Copy!The(backup.manifest)] \in Restoring
        BY <4>1, Zenon DEF BackupTypes, Restoring
      <4> QED
        BY <1>8, <3>1, <4>1, <4>2, Zenon DEF Copy!Validate, Copy!RestoreGoes, BackupTypes, Restoring, InstalledIsWhole
    <3>2. CASE Copy!CheckSlot(r)
      <4> DEFINE to == [restoring[r] EXCEPT !.at = "stage", !.todo = restoring[r].manifest]
      <4>0. restoring' = [restoring EXCEPT ![r] = to] /\ restoring[r].at = "slot"
        BY <1>8, <3>2 DEF Copy!CheckSlot, Copy!RestoreGoes
      <4>1. /\ to \in Restoring /\ to.at = "stage" /\ to.manifest = restoring[r].manifest
            /\ to.manifest = to.staged \cup to.todo
        BY ZenonT(60), <4>0 DEF BackupTypes, Restoring, InstalledIsWhole
      <4>3. backup.manifest = {restoring[r].manifest}
        BY <4>0 DEF RestoresFollowManifest
      <4> HIDE DEF to
      <4> QED
        BY <4>0, <4>1, <4>3, Zenon
    <3>3. CASE Copy!StageFile(r)
      <4>1. PICK a \in restoring[r].todo :
               restoring' = [restoring EXCEPT ![r] =
                    [restoring[r] EXCEPT !.staged = @ \cup {a}, !.todo = @ \ {a}]]
        BY <1>8, <3>3, Zenon DEF Copy!StageFile, Copy!RestoreGoes
      <4> DEFINE to == [restoring[r] EXCEPT !.staged = @ \cup {a}, !.todo = @ \ {a}]
      <4>2. /\ restoring[r].at = "stage" /\ backup.manifest = {restoring[r].manifest}
            /\ restoring[r].manifest = restoring[r].staged \cup restoring[r].todo
        BY <1>8, <3>3 DEF Copy!StageFile, RestoresFollowManifest, InstalledIsWhole
      <4>3. restoring[r] \in Restoring /\ a \in CopyArtifacts
        BY <4>1 DEF BackupTypes, Restoring, Kept
      <4>4. /\ to.at = "stage" /\ to.manifest = restoring[r].manifest
            /\ to.staged = restoring[r].staged \cup {a} /\ to.todo = restoring[r].todo \ {a}
        BY <4>3, <4>2 DEF Restoring
      <4>5. to \in Restoring
        BY <4>3 DEF Restoring, Kept
      <4>6. /\ to \in Restoring /\ to.at = "stage" /\ to.manifest = restoring[r].manifest
            /\ to.manifest = to.staged \cup to.todo
        BY <4>1, <4>2, <4>4, <4>5
      <4>7. restoring' = [restoring EXCEPT ![r] = to]
        BY <4>1
      <4> HIDE DEF to
      <4> QED
        BY <4>2, <4>6, <4>7, Zenon
    <3> QED
      BY <1>8, <3>1, <3>2, <3>3
  <2>3. restoring' \in [CopyRestores -> Restoring]
    BY <2>2 DEF BackupTypes
  <2>4. RestoresFollowManifest'
    BY <2>1, <2>2 DEF RestoresFollowManifest, BackupTypes
  <2>5. InstalledIsWhole' /\ Copy!RestoredIsWhole'
    BY <2>1, <2>2 DEF InstalledIsWhole, Copy!RestoredIsWhole, BackupTypes
  <2> QED
    BY <2>1, <2>3, <2>4, <2>5 DEF BackupTypes
<1>9. ASSUME NEW r \in CopyRestores, Copy!InstallArtifacts(r), ~Copy!RestoreEnds(r, "failed")
      PROVE  BackupInv'
  <2> DEFINE m == restoring[r].manifest
  <2>1. /\ target.artifacts = {} \/ target.artifacts = {{}}
        /\ target' = [target EXCEPT !.artifacts = {m}]
        /\ restoring' = [restoring EXCEPT ![r].at = "link"]
        /\ restoring[r].at = "stage" /\ m \in Kept
        /\ UNCHANGED <<kernel, backup, writing>>
    <3>1. restoring[r].at = "stage" /\ restoring[r].todo = {}
      BY <1>9 DEF Copy!InstallArtifacts
    <3>2. m = restoring[r].staged \cup restoring[r].todo
      BY <3>1, Zenon DEF InstalledIsWhole
    <3>4. restoring[r].staged = m /\ m \in Kept
      BY <3>1, <3>2 DEF BackupTypes, Restoring
    <3>3. [restoring EXCEPT ![r] = [restoring[r] EXCEPT !.at = "link"]] = [restoring EXCEPT ![r].at = "link"]
      OBVIOUS
    <3> QED
      BY <1>9, <3>1, <3>3, <3>4 DEF Copy!InstallArtifacts, Copy!RestoreGoes, Copy!Some, Copy!None
  <2>2. target' \in Targets
    BY <2>1, TheCopied DEF BackupTypes, Targets
  <2>3. restoring' \in [CopyRestores -> Restoring]
    BY <2>1 DEF BackupTypes, Restoring
  <2>4. RestoresFollowManifest'
    BY <2>1 DEF RestoresFollowManifest, BackupTypes, Restoring
  <2>5. target.database = {} \/ target.database = {{}}
    <3>1. Copy!The({{}}) = {}
      BY TheCopied, Zenon
    <3>2. SUFFICES ASSUME target.database # {} PROVE target.database = {{}}
      OBVIOUS
    <3>3. target.database = {Copy!The(target.database)}
      BY <3>2, TheCopied DEF BackupTypes, Targets
    <3>4. Copy!The(target.database) = {}
      BY <2>1, <3>1, <3>2, Zenon DEF Copy!RestoredIsWhole, Copy!None
    <3> QED
      BY <3>3, <3>4
  <2>6. \A s \in CopyRestores \ {r} : restoring[s].at = "link" => m = {}
    BY ZenonT(60), <2>1 DEF InstalledIsWhole, RestoresFollowManifest
  <2>7. InstalledIsWhole'
    <3>1. /\ target'.artifacts = {m} /\ target'.database = target.database
          /\ restoring'[r].at = "link" /\ restoring'[r].manifest = m
          /\ \A s \in CopyRestores \ {r} : restoring'[s] = restoring[s]
      BY <2>1 DEF BackupTypes, Restoring, Targets
    <3>2. \A s \in CopyRestores : restoring[s].at = "link" => restoring[s].manifest = m
      BY <2>1 DEF RestoresFollowManifest
    <3> QED
      BY <2>5, <2>6, <3>1, <3>2 DEF InstalledIsWhole
  <2>8. Copy!The({{}}) = {}
    BY TheCopied
  <2>9. Copy!RestoredIsWhole'
    <3>1. target'.database = target.database
      BY <2>1 DEF BackupTypes, Targets
    <3>2. target'.database # {} => Copy!The(target'.database) = {}
      BY <2>5, <2>8, <3>1, Zenon
    <3>3. \A s \in CopyRestores : restoring'[s].at = "restored" => restoring[s].at = "restored"
      BY <2>1 DEF BackupTypes, Restoring
    <3> QED
      BY <2>1, <3>1, <3>2, <3>3 DEF Copy!RestoredIsWhole, Copy!None
  <2> QED
    BY <2>1, <2>2, <2>3, <2>4, <2>7, <2>9 DEF BackupTypes
<1>10. ASSUME NEW r \in CopyRestores, Copy!LinkDatabase(r) PROVE BackupInv'
  <2> DEFINE m == restoring[r].manifest
  <2>1. restoring[r].at = "link" /\ m \in Kept /\ backup.manifest = {m} /\ backup.database = {m}
    BY <1>10 DEF Copy!LinkDatabase, BackupTypes, Restoring, RestoresFollowManifest
  <2>2. UNCHANGED <<kernel, backup, writing>>
    BY <1>10 DEF Copy!LinkDatabase
  <2>3. CASE target.database = {}
    <3>1. /\ target' = [target EXCEPT !.database = {m}]
          /\ Copy!RestoreEnds(r, "restored")
      BY <1>10, <2>3 DEF Copy!LinkDatabase, Copy!None, Copy!Some
    <3>2. /\ target' \in Targets /\ target'.database = {m} /\ target'.artifacts = target.artifacts
      BY <2>1, <3>1, TheCopied DEF BackupTypes, Targets
    <3>3. /\ restoring' \in [CopyRestores -> Restoring]
          /\ restoring'[r].at = "restored" /\ restoring'[r].manifest = m
          /\ \A s \in CopyRestores \ {r} : restoring'[s] = restoring[s]
      BY <3>1, RestoreEnded
    <3>4. RestoresFollowManifest'
      BY ZenonT(60), <2>1, <2>2, <3>2, <3>3 DEF RestoresFollowManifest
    <3>5. InstalledIsWhole'
      BY <2>1, <3>2, <3>3 DEF InstalledIsWhole, RestoresFollowManifest
    <3>6. Copy!RestoredIsWhole'
      <4>1. Copy!The({m}) = m
        BY TheCopied, Zenon
      <4>2. m = {} \/ target.artifacts = {m}
        BY <2>1 DEF InstalledIsWhole
      <4> QED
        BY <2>1, <2>2, <3>2, <3>3, <4>1, <4>2, <2>3, Zenon DEF Copy!RestoredIsWhole, Copy!None, RestoresFollowManifest
    <3> QED
      BY <2>2, <3>2, <3>3, <3>4, <3>5, <3>6 DEF BackupTypes
  <2>4. CASE target.database # {}
    <3>1. /\ target' = [target EXCEPT !.artifacts = {}]
          /\ Copy!RestoreEnds(r, "failed")
      BY <1>10, <2>4 DEF Copy!LinkDatabase, Copy!None
    <3>2. /\ target' \in Targets /\ target'.database = target.database /\ target'.artifacts = {}
      BY <3>1, TheCopied, Zenon DEF BackupTypes, Targets
    <3>3. /\ restoring' \in [CopyRestores -> Restoring]
          /\ restoring'[r].at = "failed" /\ restoring'[r].manifest = m
          /\ \A s \in CopyRestores \ {r} : restoring'[s] = restoring[s]
      BY <3>1, RestoreEnded
    <3>4. RestoresFollowManifest'
      BY ZenonT(60), <2>1, <2>2, <3>2, <3>3 DEF RestoresFollowManifest
    <3>5. \A s \in CopyRestores \ {r} : restoring[s].at = "link" => m = {} /\ restoring[s].manifest = {}
      BY <2>1 DEF InstalledIsWhole, RestoresFollowManifest
    <3>6. InstalledIsWhole'
      BY <2>1, <3>2, <3>3, <3>5 DEF InstalledIsWhole
    <3>7. Copy!The(target.database) = {}
      <4>1. target.database = {{}}
        BY <2>1, <2>4, Zenon DEF InstalledIsWhole, RestoresFollowManifest
      <4> QED
        BY <4>1, TheCopied, Zenon
    <3>8. Copy!RestoredIsWhole'
      BY <2>2, <3>2, <3>3, <3>7 DEF Copy!RestoredIsWhole
    <3> QED
      BY <2>2, <3>2, <3>3, <3>4, <3>6, <3>8 DEF BackupTypes
  <2> QED
    BY <2>3, <2>4
<1>11. ASSUME NEW r \in CopyRestores, Copy!Validate(r) \/ Copy!CheckSlot(r) \/ Copy!StageFile(r)
       PROVE  BackupInv'
  <2>1. UNCHANGED <<kernel, backup, writing, target>>
    BY <1>11 DEF Copy!Validate, Copy!CheckSlot, Copy!StageFile
  <2> QED
    BY <1>7, <1>8, <1>11, <2>1, Zenon
<1>12. ASSUME NEW r \in CopyRestores, Copy!InstallArtifacts(r) PROVE BackupInv'
  <2>1. Copy!RestoreEnds(r, "failed") => UNCHANGED <<kernel, backup, writing, target>>
    <3>1. Copy!RestoreEnds(r, "failed") => restoring'[r].at # "link"
      BY DEF Copy!RestoreEnds, BackupTypes, Restoring
    <3>2. Copy!RestoreGoes(r, [restoring[r] EXCEPT !.at = "link"]) => restoring'[r].at = "link"
      BY DEF Copy!RestoreGoes, BackupTypes, Restoring
    <3> QED
      BY <1>12, <3>1, <3>2, Zenon DEF Copy!InstallArtifacts
  <2> QED
    BY <1>7, <1>9, <1>12, <2>1, Zenon
<1>13. ASSUME NEW r \in CopyRestores, Copy!StopRestore(r) PROVE BackupInv'
  <2>1. Copy!RestoreEnds(r, "stopped") /\ UNCHANGED <<kernel, backup, writing, target>>
    BY <1>13 DEF Copy!StopRestore
  <2> QED
    BY <1>7, <2>1, Zenon
<1> QED
  BY <1>1, <1>2, <1>3, <1>4, <1>5, <1>6, <1>10, <1>11, <1>12, <1>13, Zenon DEF Copy!BackupNext

(* A restored kernel has the files its rows name, whatever happened to the
   backup and however many restores ran. *)
THEOREM RestoredIsWholeHolds == KernelSpec => []RestoredIsWhole
<1> DEFINE I == part = "backup" => BackupInv
<1>1. KernelInit => I
  BY BackupInits DEF KernelInit
<1>2. I /\ [KernelNext]_kernelVars => I'
  <2>1. ASSUME I, KernelNext PROVE I'
    BY <2>1, StepsOfParts, BackupSteps
  <2>2. ASSUME I, UNCHANGED kernelVars PROVE I'
    BY <2>2 DEF kernelVars, partVars, kernelPartsVars, backupVars, BackupInv, BackupTypes, RestoresFollowManifest,
          InstalledIsWhole, Copy!RestoredIsWhole
  <2> QED
    BY <2>1, <2>2
<1>3. I => RestoredIsWhole
  BY DEF BackupInv, RestoredIsWhole
<1> QED
  BY <1>1, <1>2, <1>3, PTL DEF KernelSpec, kernelVars

-----------------------------------------------------------------------------
(* Registry. *)

RegistryEvaluated ==
    [card : DOMAIN RegistryCards, mode : {"real"},
     disposition : {"blocked", "failed", "ineligible", "eligible", "none"}]
RegistrySelected ==
    [role : {RegistryCards[c].role : c \in DOMAIN RegistryCards}, card : DOMAIN RegistryCards,
     evaluation : Nat, read : Nat]
RegistryEvents ==
    ({"card"} \X DOMAIN RegistryCards) \cup ({"evaluation", "selection"} \X Nat)
RegistryCommands ==
    [at : {"ready", "evidence", "card", "receipts", "selected"},
     card : Options(DOMAIN RegistryCards), todo : SUBSET Registered!ArtifactNames,
     disposition : {"blocked", "failed", "ineligible", "eligible", "none"},
     evaluation : Nat, read : Nat]
RegistryTypes ==
    /\ holds \in [Registered!ArtifactNames -> Nat]
    /\ cards \in Seq(DOMAIN RegistryCards)
    /\ evaluations \in Seq(RegistryEvaluated)
    /\ selections \in Seq(RegistrySelected)
    /\ stream \in Seq(RegistryEvents)
    /\ command \in [RegistryProcesses -> RegistryCommands]

(* What a row rests on is pinned, and what is pinned stays recorded. *)
PinsHold ==
    /\ \A a \in Registered!ArtifactNames : holds[a] > 0 => a \in stored
    /\ \A k \in DOMAIN cards :
         \A a \in {cards[k]} \cup RegistryCards[cards[k]].evidence : holds[a] > 0
    /\ evaluations # << >> => \A a \in Registered!Receipts : holds[a] > 0

(* Evaluation i earns the selection of card c by a command that read so many
   evaluations. *)
Earned(cs, es, c, i, read) ==
    /\ \E k \in DOMAIN cs : cs[k] = c
    /\ i \in DOMAIN es /\ es[i].card = c /\ es[i].mode = "real" /\ es[i].disposition = "eligible"
    /\ read <= Len(es)
    /\ \A j \in DOMAIN es : es[j].card = c /\ es[j].mode = "real" => j <= i \/ j > read

(* A command under way has the card it was asked about, and one that selects
   has what earned it. *)
CommandsEarn ==
    \A p \in RegistryProcesses :
        /\ command[p].at # "ready" => command[p].card # {}
        /\ command[p].at = "selected" =>
              Earned(cards, evaluations, Registered!CardOf(p), command[p].evaluation, command[p].read)

RowsEarned ==
    \A k \in DOMAIN selections :
        Earned(cards, evaluations, selections[k].card, selections[k].evaluation, selections[k].read)

TellsCards(events, cs) == Registered!Tells(events, "card", [k \in DOMAIN cs |-> <<"card", cs[k]>>])
TellsRows(events, sort, rs) == Registered!Tells(events, sort, [k \in DOMAIN rs |-> <<sort, k>>])
StreamTells ==
    /\ \A i, j \in DOMAIN cards : cards[i] = cards[j] => i = j
    /\ TellsCards(stream, cards)
    /\ TellsRows(stream, "evaluation", evaluations)
    /\ TellsRows(stream, "selection", selections)

RegistryInv == RegistryTypes /\ PinsHold /\ CommandsEarn /\ RowsEarned /\ StreamTells

LEMMA EarnedStays ==
    ASSUME NEW S, NEW T, NEW cs \in Seq(S), NEW es \in Seq(T), NEW c, NEW i, NEW read \in Nat,
           Earned(cs, es, c, i, read)
    PROVE  /\ \A x \in S : Earned(Append(cs, x), es, c, i, read)
           /\ \A x \in T : Earned(cs, Append(es, x), c, i, read)
<1>1. ASSUME NEW x \in S PROVE Earned(Append(cs, x), es, c, i, read)
  BY AppendProperties DEF Earned
<1>2. ASSUME NEW x \in T PROVE Earned(cs, Append(es, x), c, i, read)
  BY AppendProperties DEF Earned
<1> QED
  BY <1>1, <1>2

LEMMA TellsOthers ==
    ASSUME NEW S, NEW events \in Seq(S), NEW e \in S, NEW sort, e[1] # sort,
           NEW told, \A k \in DOMAIN told : told[k][1] = sort,
           Registered!Tells(events, sort, told)
    PROVE  Registered!Tells(Append(events, e), sort, told)
  BY SMTT(30), AppendProperties DEF Registered!Tells

LEMMA TellsAppended ==
    ASSUME NEW S, NEW events \in Seq(S), NEW e \in S, NEW sort, e[1] = sort,
           NEW told, NEW more, NEW n \in Nat,
           DOMAIN told = 1 .. n, DOMAIN more = 1 .. (n + 1),
           \A k \in 1 .. n : more[k] = told[k] /\ told[k] # e, more[n + 1] = e,
           Registered!Tells(events, sort, told)
    PROVE  Registered!Tells(Append(events, e), sort, more)
<1> DEFINE new == Append(events, e)
<1>1. /\ DOMAIN new = 1 .. (Len(events) + 1) /\ DOMAIN events = 1 .. Len(events)
      /\ Len(events) \in Nat
      /\ \A i \in DOMAIN events : new[i] = events[i]
      /\ new[Len(events) + 1] = e
  BY AppendProperties
<1>2. \A i \in DOMAIN events : events[i] = e => FALSE
  BY DEF Registered!Tells
<1>3. \A i \in DOMAIN new : new[i][1] = sort => \E k \in DOMAIN more : new[i] = more[k]
  BY <1>1 DEF Registered!Tells
<1>4. \A k \in DOMAIN more : \E i \in DOMAIN new : new[i] = more[k]
  BY <1>1 DEF Registered!Tells
<1>5. ASSUME NEW i \in DOMAIN new, NEW j \in DOMAIN new,
             NEW k \in DOMAIN more, NEW l \in DOMAIN more,
             new[i] = more[k] /\ new[j] = more[l]
      PROVE  i < j <=> k < l
  <2>1. i = Len(events) + 1 <=> k = n + 1
    BY <1>1, <1>2, <1>5
  <2>2. j = Len(events) + 1 <=> l = n + 1
    BY <1>1, <1>2, <1>5
  <2>3. CASE i # Len(events) + 1 /\ j # Len(events) + 1
    <3>1. i \in DOMAIN events /\ j \in DOMAIN events /\ k \in DOMAIN told /\ l \in DOMAIN told
      BY <1>1, <2>1, <2>2, <2>3
    <3> QED
      BY <1>1, <1>5, <3>1 DEF Registered!Tells
  <2> QED
    BY <1>1, <2>1, <2>2, <2>3
<1> QED
  BY <1>3, <1>4, <1>5 DEF Registered!Tells

LEMMA Greatest ==
    ASSUME NEW n \in Nat, NEW S \in SUBSET (1 .. n), S # {}
    PROVE  \E i \in S : \A j \in S : j <= i
<1> DEFINE T == {n - i : i \in S}
<1>1. T \subseteq Nat /\ T # {}
  <2>1. \A i \in S : i \in Int /\ i <= n /\ n - i \in Nat
    OBVIOUS
  <2> QED
    BY <2>1
<1>2. PICK t \in T : \A u \in T : ~ (<<u, t>> \in OpToRel(<, Nat))
  BY <1>1, NatLessThanWellFounded, WFMin
<1>3. \A u \in T : ~ (u < t)
  BY <1>1, <1>2 DEF OpToRel
<1>4. PICK i \in S : t = n - i
  OBVIOUS
<1>5. ASSUME NEW j \in S PROVE j <= i
  <2>1. n - j \in T
    OBVIOUS
  <2>2. ~ (n - j < n - i)
    BY <1>3, <1>4, <2>1
  <2> QED
    BY <2>2
<1> QED
  BY <1>5

LEMMA EarnedMay ==
    ASSUME RegistryTypes, PinsHold, NEW c, NEW i, NEW read, Earned(cards, evaluations, c, i, read)
    PROVE  Registered!MaySelect(c, i)
<1>1. PICK k \in DOMAIN cards : cards[k] = c
  BY DEF Earned
<1>2. i \in DOMAIN evaluations /\ evaluations # << >>
  BY DEF Earned, RegistryTypes
<1>3. c \in Registered!Registered
  BY <1>1 DEF Registered!Registered, Registered!ToSet
<1>4. c \in DOMAIN RegistryCards
  BY <1>1 DEF RegistryTypes
<1>5. Registered!Receipts \subseteq stored /\ c \in stored
  BY <1>1, <1>2, <1>4 DEF PinsHold, Registered!ArtifactNames, Registered!AllCards
<1> QED
  BY <1>3, <1>5 DEF Earned, Registered!MaySelect, Registered!Verified

LEMMA RegistryInvImplies == ASSUME RegistryInv PROVE Registered!SelectionsAreEarned
<1> USE DEF RegistryInv
<1>1. ASSUME NEW k \in DOMAIN selections
      PROVE  LET s == selections[k] IN
             /\ Registered!MaySelect(s.card, s.evaluation)
             /\ \A j \in Registered!RealOf(s.card) : j <= s.evaluation \/ j > s.read
  <2>1. Earned(cards, evaluations, selections[k].card, selections[k].evaluation, selections[k].read)
    BY DEF RowsEarned
  <2> QED
    BY <2>1, EarnedMay DEF Earned, Registered!RealOf
<1>2. ASSUME NEW role \in {"embedder", "reranker", "answerer"}
      PROVE  Registered!SelectedModelCard(role) # "integrity_error"
  <2> DEFINE of == {i \in DOMAIN selections : selections[i].role = role}
  <2>1. CASE of = {}
    BY <2>1 DEF Registered!SelectedModelCard
  <2>2. CASE of # {}
    <3>1. PICK i \in of : \A j \in of : j <= i
      <4>1. of \in SUBSET (1 .. Len(selections)) /\ Len(selections) \in Nat
        BY DEF RegistryTypes
      <4> QED
        BY <2>2, <4>1, Greatest
    <3> DEFINE last == CHOOSE l \in of : \A j \in of : j <= l
    <3>2. last \in of
      BY <3>1
    <3>3. Registered!MaySelect(selections[last].card, selections[last].evaluation)
      BY <1>1, <3>2
    <3> QED
      BY <2>2, <3>3 DEF Registered!SelectedModelCard
  <2> QED
    BY <2>1, <2>2
<1>3. \A c \in Registered!Registered : {c} \cup RegistryCards[c].evidence \subseteq stored
  <2>1. ASSUME NEW k \in DOMAIN cards, NEW a \in {cards[k]} \cup RegistryCards[cards[k]].evidence
        PROVE  a \in stored
    <3>1. cards[k] \in DOMAIN RegistryCards
      BY DEF RegistryTypes
    <3>2. a \in Registered!ArtifactNames
      BY <2>1, <3>1 DEF Registered!ArtifactNames, Registered!AllCards
    <3> QED
      BY <3>2 DEF PinsHold
  <2> QED
    BY <2>1 DEF Registered!Registered, Registered!ToSet
<1>4. Registered!IsInjective(cards)
  BY DEF StreamTells, Registered!IsInjective
<1> QED
  BY <1>1, <1>2, <1>3, <1>4 DEF Registered!SelectionsAreEarned, StreamTells, TellsCards, TellsRows

LEMMA Sole == \A x : (CHOOSE c \in {x} : TRUE) = x
  OBVIOUS

LEMMA ReadyIsCommand ==
    Registered!Ready \in RegistryCommands /\ Registered!Ready.at = "ready"
  BY DEF Registered!Ready, RegistryCommands, Options

LEMMA RegistryInits == ASSUME Registered!RegistryInit PROVE RegistryInv
<1> USE DEF Registered!RegistryInit
<1>1. RegistryTypes
  BY ReadyIsCommand DEF RegistryTypes
<1>2. PinsHold
  BY DEF PinsHold
<1>3. CommandsEarn
  BY ReadyIsCommand DEF CommandsEarn
<1>4. RowsEarned
  BY DEF RowsEarned
<1>5. StreamTells
  BY DEF StreamTells, TellsCards, TellsRows, Registered!Tells
<1> QED
  BY <1>1, <1>2, <1>3, <1>4, <1>5 DEF RegistryInv

(* A command goes on and no row is written. *)
LEMMA CommandGoes ==
    ASSUME RegistryInv, NEW p \in RegistryProcesses, NEW to \in RegistryCommands,
           to.at # "ready" => to.card # {},
           to.at = "selected" =>
              Earned(cards, evaluations, CHOOSE c \in to.card : TRUE, to.evaluation, to.read),
           command' = [command EXCEPT ![p] = to], stored \subseteq stored',
           UNCHANGED <<holds, cards, evaluations, selections, stream>>
    PROVE  RegistryInv'
<1> USE DEF RegistryInv
<1>1. RegistryTypes'
  BY DEF RegistryTypes
<1>2. PinsHold'
  BY DEF PinsHold
<1>3. CommandsEarn'
  <2>1. command'[p] = to /\ \A q \in RegistryProcesses \ {p} : command'[q] = command[q]
    BY DEF RegistryTypes
  <2> QED
    BY <2>1 DEF CommandsEarn, Registered!CardOf
<1>4. RowsEarned' /\ StreamTells'
  BY DEF RowsEarned, StreamTells
<1> QED
  BY <1>1, <1>2, <1>3, <1>4

LEMMA CommandEnds ==
    ASSUME RegistryInv, NEW p \in RegistryProcesses, Registered!Finish(p),
           stored \subseteq stored',
           UNCHANGED <<holds, cards, evaluations, selections, stream>>
    PROVE  RegistryInv'
  BY CommandGoes, ReadyIsCommand DEF Registered!Finish, Registered!Goes

LEMMA RecordCardSteps ==
    ASSUME RegistryInv, NEW p \in RegistryProcesses, Registered!RecordModelCard(p)
    PROVE  RegistryInv'
<1> USE DEF RegistryInv
<1> DEFINE c == Registered!CardOf(p)
           needed == {c} \cup RegistryCards[c].evidence
<1>1. CASE UNCHANGED <<holds, cards, stream>>
  BY <1>1, CommandEnds DEF Registered!RecordModelCard
<1>2. CASE ~ UNCHANGED <<holds, cards, stream>>
  <2>1. /\ command[p].at = "card" /\ c \notin Registered!Registered /\ needed \subseteq stored
        /\ Registered!PinAll(needed) /\ cards' = Append(cards, c)
        /\ stream' = Append(stream, <<"card", c>>)
        /\ Registered!Finish(p) /\ UNCHANGED <<stored, evaluations, selections>>
    BY <1>2 DEF Registered!RecordModelCard, Registered!Pinnable
  <2>2. c \in DOMAIN RegistryCards
    <3>1. command[p].card \in Options(DOMAIN RegistryCards) /\ command[p].card # {}
      BY <2>1 DEF RegistryTypes, RegistryCommands, CommandsEarn
    <3> QED
      BY <3>1, Sole DEF Registered!CardOf, Options
  <2>3. \A k \in DOMAIN cards : cards[k] # c
    BY <2>1 DEF Registered!Registered, Registered!ToSet
  <2>4. /\ cards \in Seq(DOMAIN RegistryCards) /\ Len(cards) \in Nat /\ DOMAIN cards = 1 .. Len(cards)
        /\ cards' \in Seq(DOMAIN RegistryCards) /\ DOMAIN cards' = 1 .. (Len(cards) + 1)
        /\ \A k \in DOMAIN cards : cards'[k] = cards[k]
        /\ cards'[Len(cards) + 1] = c
    BY <2>1, <2>2, AppendProperties DEF RegistryTypes
  <2>5. stream \in Seq(RegistryEvents) /\ <<"card", c>> \in RegistryEvents
    BY <2>2 DEF RegistryTypes, RegistryEvents
  <2>6. RegistryTypes'
    <3>1. holds' \in [Registered!ArtifactNames -> Nat]
      BY <2>1 DEF RegistryTypes, Registered!PinAll
    <3>2. stream' \in Seq(RegistryEvents)
      BY <2>1, <2>5, AppendProperties
    <3>3. command' \in [RegistryProcesses -> RegistryCommands]
      BY <2>1, ReadyIsCommand DEF RegistryTypes, Registered!Finish, Registered!Goes
    <3> QED
      BY <2>1, <2>4, <3>1, <3>2, <3>3 DEF RegistryTypes
  <2>7. PinsHold'
    <3>1. /\ \A a \in Registered!ArtifactNames : holds'[a] >= holds[a] /\ holds[a] \in Nat /\ holds'[a] \in Nat
          /\ \A a \in needed \cap Registered!ArtifactNames : holds'[a] > 0
          /\ \A a \in Registered!ArtifactNames \ needed : holds'[a] = holds[a]
      BY <2>1 DEF RegistryTypes, Registered!PinAll
    <3>2. \A k \in DOMAIN cards' :
             {cards'[k]} \cup RegistryCards[cards'[k]].evidence \subseteq Registered!ArtifactNames
      BY <2>4 DEF Registered!ArtifactNames, Registered!AllCards
    <3>3. \A k \in DOMAIN cards' : k \in DOMAIN cards \/ cards'[k] = c
      BY <2>4
    <3>4. \A k \in DOMAIN cards' :
             \A a \in {cards'[k]} \cup RegistryCards[cards'[k]].evidence : holds'[a] > 0
      BY <2>4, <3>1, <3>2, <3>3 DEF PinsHold
    <3>5. evaluations' # << >> => \A a \in Registered!Receipts : holds'[a] > 0
      BY <2>1, <3>1 DEF PinsHold, Registered!ArtifactNames
    <3>6. \A a \in Registered!ArtifactNames : holds'[a] > 0 => a \in stored'
      BY <2>1, <3>1 DEF PinsHold
    <3> QED
      BY <3>4, <3>5, <3>6 DEF PinsHold
  <2>8. CommandsEarn'
    <3>1. command'[p] = Registered!Ready /\ \A q \in RegistryProcesses \ {p} : command'[q] = command[q]
      BY <2>1 DEF RegistryTypes, Registered!Finish, Registered!Goes
    <3>2. ASSUME NEW q \in RegistryProcesses \ {p}, command[q].at = "selected"
          PROVE  Earned(cards', evaluations', Registered!CardOf(q), command[q].evaluation, command[q].read)
      <4>1. command[q].read \in Nat /\ evaluations \in Seq(RegistryEvaluated)
        BY <3>2 DEF RegistryTypes, RegistryCommands
      <4> QED
        BY <2>1, <2>2, <2>4, <3>2, <4>1, EarnedStays DEF CommandsEarn
    <3> QED
      BY <3>1, <3>2, ReadyIsCommand DEF CommandsEarn, Registered!CardOf
  <2>9. RowsEarned'
    <3>1. ASSUME NEW k \in DOMAIN selections
          PROVE  Earned(cards', evaluations', selections[k].card, selections[k].evaluation, selections[k].read)
      <4>1. selections[k] \in RegistrySelected /\ evaluations \in Seq(RegistryEvaluated)
        BY DEF RegistryTypes
      <4>2. selections[k].read \in Nat
        BY <4>1 DEF RegistrySelected
      <4> QED
        BY <2>1, <2>2, <2>4, <4>1, <4>2, EarnedStays DEF RowsEarned
    <3> QED
      BY <2>1, <3>1 DEF RowsEarned
  <2>10. StreamTells'
    <3> DEFINE told == [k \in DOMAIN cards |-> <<"card", cards[k]>>]
               more == [k \in DOMAIN cards' |-> <<"card", cards'[k]>>]
               e == <<"card", c>>
    <3>1. \A i, j \in DOMAIN cards' : cards'[i] = cards'[j] => i = j
      BY <2>3, <2>4 DEF StreamTells
    <3>2. /\ DOMAIN told = 1 .. Len(cards) /\ DOMAIN more = 1 .. (Len(cards) + 1)
          /\ \A k \in 1 .. Len(cards) : more[k] = told[k] /\ told[k] # e
          /\ more[Len(cards) + 1] = e /\ e[1] = "card"
      <4>1. \A k \in 1 .. Len(cards) : <<"card", cards'[k]>> = <<"card", cards[k]>> /\ cards[k] # c
        BY <2>3, <2>4
      <4>2. \A x : x # c => <<"card", x>> # <<"card", c>>
        OBVIOUS
      <4>3. Len(cards) + 1 \in DOMAIN cards' /\ 1 .. Len(cards) \subseteq DOMAIN cards'
        BY <2>4
      <4>4. DOMAIN told = 1 .. Len(cards) /\ DOMAIN more = 1 .. (Len(cards) + 1)
        BY <2>4
      <4> QED
        BY <2>4, <4>1, <4>2, <4>3, <4>4
    <3>3. TellsCards(stream', cards')
      BY <2>1, <2>4, <2>5, <3>2, TellsAppended DEF StreamTells, TellsCards
    <3>4. \A sort \in {"evaluation", "selection"} : \A rs :
             TellsRows(stream, sort, rs) => TellsRows(stream', sort, rs)
      BY <2>1, <2>5, <3>2, TellsOthers DEF TellsRows
    <3> QED
      BY <2>1, <3>1, <3>3, <3>4 DEF StreamTells
  <2> QED
    BY <2>6, <2>7, <2>8, <2>9, <2>10
<1> QED
  BY <1>1, <1>2

(* What a table's rows are told by grows with the table. *)
LEMMA RowTold ==
    ASSUME NEW S, NEW rs \in Seq(S), NEW row \in S, NEW sort \in {"evaluation", "selection"},
           NEW events \in Seq(RegistryEvents), TellsRows(events, sort, rs)
    PROVE  TellsRows(Append(events, <<sort, Len(rs) + 1>>), sort, Append(rs, row))
<1> DEFINE more == Append(rs, row)
           e == <<sort, Len(rs) + 1>>
           told == [k \in DOMAIN rs |-> <<sort, k>>]
           now == [k \in DOMAIN more |-> <<sort, k>>]
<1>1. /\ Len(rs) \in Nat /\ DOMAIN rs = 1 .. Len(rs) /\ DOMAIN more = 1 .. (Len(rs) + 1)
  BY AppendProperties
<1>2. e \in RegistryEvents /\ e[1] = sort
  BY <1>1 DEF RegistryEvents
<1>3. \A k \in 1 .. Len(rs) : <<sort, k>> # e
  BY <1>1
<1>4. /\ DOMAIN told = 1 .. Len(rs) /\ DOMAIN now = 1 .. (Len(rs) + 1)
      /\ \A k \in 1 .. Len(rs) : now[k] = told[k] /\ told[k] # e
      /\ now[Len(rs) + 1] = e
  BY <1>1, <1>3
<1> QED
  BY <1>1, <1>2, <1>4, TellsAppended DEF TellsRows

LEMMA OthersTold ==
    ASSUME NEW events \in Seq(RegistryEvents), NEW e \in RegistryEvents
    PROVE  /\ \A sort, rs : e[1] # sort /\ TellsRows(events, sort, rs) => TellsRows(Append(events, e), sort, rs)
           /\ \A cs : e[1] # "card" /\ TellsCards(events, cs) => TellsCards(Append(events, e), cs)
  BY TellsOthers DEF TellsRows, TellsCards

LEMMA RecordEvaluationSteps ==
    ASSUME RegistryInv, NEW p \in RegistryProcesses, Registered!RecordModelEvaluation(p)
    PROVE  RegistryInv'
<1> USE DEF RegistryInv
<1> DEFINE row == [card |-> Registered!CardOf(p), mode |-> "real", disposition |-> command[p].disposition]
           e == <<"evaluation", Len(evaluations) + 1>>
<1>1. CASE UNCHANGED <<holds, evaluations, stream>>
  BY <1>1, CommandEnds DEF Registered!RecordModelEvaluation
<1>2. CASE ~ UNCHANGED <<holds, evaluations, stream>>
  <2>1. /\ command[p].at = "receipts" /\ Registered!Receipts \subseteq stored
        /\ Registered!PinAll(Registered!Receipts) /\ evaluations' = Append(evaluations, row)
        /\ stream' = Append(stream, e)
        /\ Registered!Finish(p) /\ UNCHANGED <<stored, cards, selections>>
    BY <1>2 DEF Registered!RecordModelEvaluation, Registered!Pinnable
  <2>2. row \in RegistryEvaluated
    <3>1. command[p].card \in Options(DOMAIN RegistryCards) /\ command[p].card # {}
      BY <2>1 DEF RegistryTypes, RegistryCommands, CommandsEarn
    <3>2. Registered!CardOf(p) \in DOMAIN RegistryCards
      BY <3>1, Sole DEF Registered!CardOf, Options
    <3>3. command[p].disposition \in {"blocked", "failed", "ineligible", "eligible", "none"}
      BY DEF RegistryTypes, RegistryCommands
    <3> QED
      BY <3>2, <3>3 DEF RegistryEvaluated
  <2>3. /\ evaluations \in Seq(RegistryEvaluated) /\ Len(evaluations) \in Nat
        /\ evaluations' \in Seq(RegistryEvaluated)
    BY <2>1, <2>2, AppendProperties DEF RegistryTypes
  <2>4. stream \in Seq(RegistryEvents) /\ e \in RegistryEvents /\ e[1] = "evaluation"
    BY <2>3 DEF RegistryTypes, RegistryEvents
  <2>5. RegistryTypes'
    <3>1. holds' \in [Registered!ArtifactNames -> Nat]
      BY <2>1 DEF RegistryTypes, Registered!PinAll
    <3>2. stream' \in Seq(RegistryEvents)
      BY <2>1, <2>4, AppendProperties
    <3>3. command' \in [RegistryProcesses -> RegistryCommands]
      BY <2>1, ReadyIsCommand DEF RegistryTypes, Registered!Finish, Registered!Goes
    <3> QED
      BY <2>1, <2>3, <3>1, <3>2, <3>3 DEF RegistryTypes
  <2>6. PinsHold'
    <3>1. /\ \A a \in Registered!ArtifactNames : holds'[a] >= holds[a] /\ holds[a] \in Nat /\ holds'[a] \in Nat
          /\ \A a \in Registered!Receipts : holds'[a] > 0
          /\ \A a \in Registered!ArtifactNames \ Registered!Receipts : holds'[a] = holds[a]
      BY <2>1 DEF RegistryTypes, Registered!PinAll, Registered!ArtifactNames
    <3>2. \A k \in DOMAIN cards : cards[k] \in DOMAIN RegistryCards
      BY DEF RegistryTypes
    <3>3. \A k \in DOMAIN cards :
             {cards[k]} \cup RegistryCards[cards[k]].evidence \subseteq Registered!ArtifactNames
      BY <3>2 DEF Registered!ArtifactNames, Registered!AllCards
    <3>4. \A k \in DOMAIN cards :
             \A a \in {cards[k]} \cup RegistryCards[cards[k]].evidence : holds'[a] > 0
      BY <3>1, <3>3 DEF PinsHold
    <3>5. \A a \in Registered!ArtifactNames : holds'[a] > 0 => a \in stored'
      BY <2>1, <3>1 DEF PinsHold
    <3> QED
      BY <2>1, <3>1, <3>4, <3>5 DEF PinsHold
  <2>7. CommandsEarn'
    <3>1. command'[p] = Registered!Ready /\ \A q \in RegistryProcesses \ {p} : command'[q] = command[q]
      BY <2>1 DEF RegistryTypes, Registered!Finish, Registered!Goes
    <3>2. ASSUME NEW q \in RegistryProcesses \ {p}, command[q].at = "selected"
          PROVE  Earned(cards', evaluations', Registered!CardOf(q), command[q].evaluation, command[q].read)
      <4>1. command[q].read \in Nat /\ cards \in Seq(DOMAIN RegistryCards)
        BY <3>2 DEF RegistryTypes, RegistryCommands
      <4> QED
        BY <2>1, <2>2, <2>3, <3>2, <4>1, EarnedStays DEF CommandsEarn
    <3> QED
      BY <3>1, <3>2, ReadyIsCommand DEF CommandsEarn, Registered!CardOf
  <2>8. RowsEarned'
    <3>1. ASSUME NEW k \in DOMAIN selections
          PROVE  Earned(cards', evaluations', selections[k].card, selections[k].evaluation, selections[k].read)
      <4>1. selections[k] \in RegistrySelected /\ cards \in Seq(DOMAIN RegistryCards)
        BY DEF RegistryTypes
      <4>2. selections[k].read \in Nat
        BY <4>1 DEF RegistrySelected
      <4> QED
        BY <2>1, <2>2, <2>3, <4>1, <4>2, EarnedStays DEF RowsEarned
    <3> QED
      BY <2>1, <3>1 DEF RowsEarned
  <2>9. StreamTells'
    <3>1. TellsRows(stream', "evaluation", evaluations')
      BY <2>1, <2>2, <2>3, <2>4, RowTold DEF StreamTells
    <3>2. TellsRows(stream', "selection", selections) /\ TellsCards(stream', cards)
      BY <2>1, <2>4, OthersTold DEF StreamTells
    <3> QED
      BY <2>1, <3>1, <3>2 DEF StreamTells
  <2> QED
    BY <2>5, <2>6, <2>7, <2>8, <2>9
<1> QED
  BY <1>1, <1>2

LEMMA RecordSelectionSteps ==
    ASSUME RegistryInv, NEW p \in RegistryProcesses, Registered!RecordModelSelection(p)
    PROVE  RegistryInv'
<1> USE DEF RegistryInv
<1> DEFINE c == Registered!CardOf(p)
           row == [role |-> RegistryCards[c].role, card |-> c, evaluation |-> command[p].evaluation,
                   read |-> command[p].read]
           e == <<"selection", Len(selections) + 1>>
<1>1. CASE UNCHANGED <<selections, stream>>
  BY <1>1, CommandEnds DEF Registered!RecordModelSelection
<1>2. CASE ~ UNCHANGED <<selections, stream>>
  <2>1. /\ command[p].at = "selected" /\ selections' = Append(selections, row)
        /\ stream' = Append(stream, e)
        /\ Registered!Finish(p) /\ UNCHANGED <<stored, holds, cards, evaluations>>
    BY <1>2 DEF Registered!RecordModelSelection
  <2>2. row \in RegistrySelected
    <3>1. command[p].card \in Options(DOMAIN RegistryCards) /\ command[p].card # {}
      BY <2>1 DEF RegistryTypes, RegistryCommands, CommandsEarn
    <3>2. c \in DOMAIN RegistryCards
      BY <3>1, Sole DEF Registered!CardOf, Options
    <3>3. command[p].evaluation \in Nat /\ command[p].read \in Nat
      BY DEF RegistryTypes, RegistryCommands
    <3> QED
      BY <3>2, <3>3 DEF RegistrySelected
  <2>3. /\ selections \in Seq(RegistrySelected) /\ Len(selections) \in Nat
        /\ selections' \in Seq(RegistrySelected)
        /\ \A k \in DOMAIN selections' : (k \in DOMAIN selections /\ selections'[k] = selections[k])
                                      \/ selections'[k] = row
    BY <2>1, <2>2, AppendProperties DEF RegistryTypes
  <2>4. stream \in Seq(RegistryEvents) /\ e \in RegistryEvents /\ e[1] = "selection"
    BY <2>3 DEF RegistryTypes, RegistryEvents
  <2>5. RegistryTypes'
    <3>1. stream' \in Seq(RegistryEvents)
      BY <2>1, <2>4, AppendProperties
    <3>2. command' \in [RegistryProcesses -> RegistryCommands]
      BY <2>1, ReadyIsCommand DEF RegistryTypes, Registered!Finish, Registered!Goes
    <3> QED
      BY <2>1, <2>3, <3>1, <3>2 DEF RegistryTypes
  <2>6. PinsHold'
    BY <2>1 DEF PinsHold
  <2>7. CommandsEarn'
    <3>1. command'[p] = Registered!Ready /\ \A q \in RegistryProcesses \ {p} : command'[q] = command[q]
      BY <2>1 DEF RegistryTypes, Registered!Finish, Registered!Goes
    <3> QED
      BY <2>1, <3>1, ReadyIsCommand DEF CommandsEarn, Registered!CardOf
  <2>8. RowsEarned'
    <3>1. Earned(cards, evaluations, row.card, row.evaluation, row.read)
      BY <2>1 DEF CommandsEarn
    <3> QED
      BY <2>1, <2>3, <3>1 DEF RowsEarned
  <2>9. StreamTells'
    <3>1. TellsRows(stream', "selection", selections')
      BY <2>1, <2>2, <2>3, <2>4, RowTold DEF StreamTells
    <3>2. TellsRows(stream', "evaluation", evaluations) /\ TellsCards(stream', cards)
      BY <2>1, <2>4, OthersTold DEF StreamTells
    <3> QED
      BY <2>1, <3>1, <3>2 DEF StreamTells
  <2> QED
    BY <2>5, <2>6, <2>7, <2>8, <2>9
<1> QED
  BY <1>1, <1>2

LEMMA RegistrySteps == ASSUME RegistryInv, Registered!RegistryNext PROVE RegistryInv'
<1> USE DEF RegistryInv
<1>1. Registered!Registered \subseteq DOMAIN RegistryCards
  <2>1. \A k \in DOMAIN cards : cards[k] \in DOMAIN RegistryCards
    BY DEF RegistryTypes
  <2> QED
    BY <2>1 DEF Registered!Registered, Registered!ToSet
<1>2. CASE Registered!CollectGarbage
  <2>1. PICK a \in stored : holds[a] = 0 /\ stored' = stored \ {a}
    BY <1>2 DEF Registered!CollectGarbage
  <2>2. UNCHANGED <<holds, cards, evaluations, selections, stream, command>>
    BY <1>2 DEF Registered!CollectGarbage, Registered!rows
  <2>3. PinsHold'
    BY <2>1, <2>2 DEF PinsHold
  <2>4. RegistryTypes' /\ CommandsEarn' /\ RowsEarned' /\ StreamTells'
    BY <2>2 DEF RegistryTypes, CommandsEarn, Registered!CardOf, RowsEarned, StreamTells
  <2> QED
    BY <2>3, <2>4
<1>3. ASSUME NEW p \in RegistryProcesses,
             \/ Registered!Stop(p) \/ Registered!Register(p) \/ Registered!PutEvidence(p)
             \/ Registered!Check(p) \/ Registered!PutReceipts(p) \/ Registered!Select(p)
      PROVE  RegistryInv'
  <2>1. UNCHANGED <<holds, cards, evaluations, selections, stream>>
    BY <1>3, Zenon DEF Registered!Stop, Registered!Register, Registered!PutEvidence, Registered!Check,
          Registered!PutReceipts, Registered!Select, Registered!rows
  <2>2. stored \subseteq stored'
    BY <1>3, Zenon DEF Registered!Stop, Registered!Register, Registered!PutEvidence, Registered!Check,
          Registered!PutReceipts, Registered!Select
  <2>3. command[p] \in RegistryCommands /\ (command[p].at # "ready" => command[p].card # {})
    BY DEF RegistryTypes, CommandsEarn
  <2>4. CASE Registered!Stop(p)
    BY <2>1, <2>2, <2>4, CommandEnds DEF Registered!Stop
  <2>5. CASE Registered!Register(p)
    <3>1. PICK c \in DOMAIN RegistryCards :
             Registered!Goes(p, [Registered!Ready EXCEPT !.at = "evidence", !.card = {c},
                                                         !.todo = RegistryCards[c].evidence])
      BY <2>5 DEF Registered!Register, Registered!AllCards
    <3> DEFINE to == [Registered!Ready EXCEPT !.at = "evidence", !.card = {c},
                                               !.todo = RegistryCards[c].evidence]
    <3>2. RegistryCards[c].evidence \subseteq Registered!ArtifactNames
      BY DEF Registered!ArtifactNames, Registered!AllCards
    <3>3. to \in RegistryCommands /\ to.at = "evidence" /\ to.card # {}
      BY <3>2 DEF RegistryCommands, Registered!Ready, Options
    <3> QED
      BY <2>1, <2>2, <3>1, <3>3, CommandGoes DEF Registered!Goes
  <2>6. CASE Registered!PutEvidence(p)
    <3>1. command[p].at = "evidence"
      BY <2>6 DEF Registered!PutEvidence
    <3>2. CASE Registered!Finish(p)
      BY <2>1, <2>2, <3>2, CommandEnds
    <3>3. CASE Registered!Goes(p, [command[p] EXCEPT !.at = "card"])
      <4> DEFINE to == [command[p] EXCEPT !.at = "card"]
      <4>1. to \in RegistryCommands /\ to.at = "card" /\ to.card # {}
        BY <2>3, <3>1 DEF RegistryCommands
      <4> QED
        BY <2>1, <2>2, <3>3, <4>1, CommandGoes DEF Registered!Goes
    <3>4. ASSUME NEW a \in command[p].todo, Registered!Goes(p, [command[p] EXCEPT !.todo = @ \ {a}])
          PROVE  RegistryInv'
      <4> DEFINE to == [command[p] EXCEPT !.todo = @ \ {a}]
      <4>1. to \in RegistryCommands /\ to.at = "evidence" /\ to.card # {}
        BY <2>3, <3>1 DEF RegistryCommands
      <4> QED
        BY <2>1, <2>2, <3>4, <4>1, CommandGoes DEF Registered!Goes
    <3> QED
      BY <2>6, <3>2, <3>3, <3>4 DEF Registered!PutEvidence
  <2>7. CASE Registered!Check(p)
    <3>1. PICK c \in Registered!Registered, first, second \in {"healthy", "too close", "error"} :
             Registered!Goes(p, [Registered!Ready EXCEPT !.at = "receipts", !.card = {c},
                                    !.todo = Registered!Receipts,
                                    !.disposition = Registered!Health(c, first, second)])
      BY <2>7, Zenon DEF Registered!Check
    <3> DEFINE to == [Registered!Ready EXCEPT !.at = "receipts", !.card = {c},
                                    !.todo = Registered!Receipts,
                                    !.disposition = Registered!Health(c, first, second)]
    <3>2. c \in DOMAIN RegistryCards
      BY <1>1
    <3>3. Registered!Health(c, first, second) \in {"blocked", "failed", "ineligible", "eligible", "none"}
      BY DEF Registered!Health
    <3>4. to \in RegistryCommands /\ to.at = "receipts" /\ to.card # {}
      BY <3>2, <3>3 DEF RegistryCommands, Registered!Ready, Options, Registered!ArtifactNames
    <3> QED
      BY <2>1, <2>2, <3>1, <3>4, CommandGoes, Zenon DEF Registered!Goes
  <2>8. CASE Registered!PutReceipts(p)
    <3> DEFINE to == [command[p] EXCEPT !.todo = {}]
    <3>1. to \in RegistryCommands /\ to.at = "receipts" /\ to.card # {}
      BY <2>3, <2>8 DEF RegistryCommands, Registered!PutReceipts
    <3> QED
      BY <2>1, <2>2, <2>8, <3>1, CommandGoes DEF Registered!Goes, Registered!PutReceipts
  <2>9. CASE Registered!Select(p)
    <3>1. PICK c \in Registered!Registered : \E i \in Registered!Chosen(c) :
             Registered!Goes(p, [Registered!Ready EXCEPT !.at = "selected", !.card = {c},
                                    !.evaluation = i, !.read = Len(evaluations)])
      BY <2>9 DEF Registered!Select
    <3>2. PICK i \in Registered!Chosen(c) :
             Registered!Goes(p, [Registered!Ready EXCEPT !.at = "selected", !.card = {c},
                                    !.evaluation = i, !.read = Len(evaluations)])
      BY <3>1
    <3> DEFINE to == [Registered!Ready EXCEPT !.at = "selected", !.card = {c},
                                    !.evaluation = i, !.read = Len(evaluations)]
    <3>3. c \in DOMAIN RegistryCards /\ \E k \in DOMAIN cards : cards[k] = c
      BY DEF RegistryTypes, Registered!Registered, Registered!ToSet
    <3>4. i \in Nat /\ Len(evaluations) \in Nat
      BY DEF RegistryTypes, Registered!Chosen, Registered!RealOf
    <3>5. Earned(cards, evaluations, c, i, Len(evaluations))
      BY <3>3, <3>4 DEF Earned, Registered!Chosen, Registered!RealOf
    <3>6. /\ to \in RegistryCommands /\ to.card = {c} /\ to.at = "selected" /\ to.evaluation = i
          /\ to.read = Len(evaluations)
      BY <3>3, <3>4 DEF RegistryCommands, Registered!Ready, Options
    <3>7. (CHOOSE x \in to.card : TRUE) = c
      BY <3>6, Sole
    <3> QED
      BY <2>1, <2>2, <3>2, <3>5, <3>6, <3>7, CommandGoes DEF Registered!Goes
  <2> QED
    BY <1>3, <2>4, <2>5, <2>6, <2>7, <2>8, <2>9
<1>4. ASSUME NEW p \in RegistryProcesses,
             \/ Registered!RecordModelCard(p) \/ Registered!RecordModelEvaluation(p)
             \/ Registered!RecordModelSelection(p)
      PROVE  RegistryInv'
  BY <1>4, RecordCardSteps, RecordEvaluationSteps, RecordSelectionSteps
<1> QED
  BY <1>2, <1>3, <1>4, Zenon DEF Registered!RegistryNext

(* A selected model has a recorded evaluation that earned it, over artifacts
   that are still there, whatever commands interleave and stop; and the
   journal tells the rows of the registry. *)
THEOREM SelectionsAreEarnedHolds == KernelSpec => []SelectionsAreEarned
<1> DEFINE I == part = "registry" => RegistryInv
<1>1. KernelInit => I
  BY RegistryInits DEF KernelInit
<1>2. I /\ [KernelNext]_kernelVars => I'
  <2>1. ASSUME I, KernelNext PROVE I'
    BY <2>1, StepsOfParts, RegistrySteps
  <2>2. ASSUME I, UNCHANGED kernelVars PROVE I'
    BY <2>2 DEF kernelVars, partVars, kernelPartsVars, registryVars, RegistryInv, RegistryTypes,
          PinsHold, CommandsEarn, Registered!CardOf, RowsEarned, StreamTells
  <2> QED
    BY <2>1, <2>2
<1>3. I => SelectionsAreEarned
  BY RegistryInvImplies DEF SelectionsAreEarned
<1> QED
  BY <1>1, <1>2, <1>3, PTL DEF KernelSpec, kernelVars

-----------------------------------------------------------------------------
(* Opening. *)

Migrations == UNION {Openers[p] : p \in DOMAIN Openers}
GrantedScopes == UNION {OpenConfigs[v].scopes : v \in DOMAIN OpenConfigs}
OpenProcess ==
    [at : {"start", "link", "pending", "migrate", "refresh", "load", "reconcile", "open", "stopped",
           "refused"},
     pending : SUBSET Migrations, loaded : Nat, scopes : SUBSET GrantedScopes]
PrincipalEvents == [type : {"added", "revoked"}, scope : GrantedScopes]
OpenTypes ==
    /\ database \in [exists : BOOLEAN, applied : Seq(Migrations)]
    /\ config \in DOMAIN OpenConfigs
    /\ opening \in [DOMAIN Openers -> OpenProcess]
    /\ openingGrants \subseteq GrantedScopes /\ IsFiniteSet(openingGrants)
    /\ reconciled \in Seq(DOMAIN OpenConfigs)
    /\ principal \in Seq(PrincipalEvents)
    /\ cursors \in [OpenConsumers -> Nat]

(* A process that migrates lacks only what it is about to apply. *)
MigrationsHold ==
    /\ \A i, j \in DOMAIN database.applied : i # j => database.applied[i] # database.applied[j]
    /\ \A p \in DOMAIN Openers, m \in Migrations :
          m \in Openers[p] /\ opening[p].at \in {"migrate", "refresh", "load", "reconcile", "open"} =>
             \/ \E i \in DOMAIN database.applied : database.applied[i] = m
             \/ opening[p].at = "migrate" /\ m \in opening[p].pending

(* The write lock is held from the read of config.toml to the reconciling, so
   what was read is as new as anything reconciled. *)
ReadsAreFresh ==
    /\ \A p \in DOMAIN Openers :
          /\ opening[p].at \in {"load", "reconcile"} => writer = {p}
          /\ opening[p].at = "reconcile" =>
                /\ opening[p].loaded \in DOMAIN OpenConfigs /\ opening[p].loaded <= config
                /\ \A i \in DOMAIN reconciled : reconciled[i] <= opening[p].loaded
    /\ \A i \in DOMAIN reconciled : reconciled[i] <= config
    /\ \A i, j \in DOMAIN reconciled : i < j => reconciled[i] <= reconciled[j]

Told(events, granted) ==
    /\ \A i \in DOMAIN events :
          events[i].type =
             IF Open!Replayed(events, events[i].scope, i - 1) THEN "revoked" ELSE "added"
    /\ \A s : s \in granted <=> Open!Replayed(events, s, Len(events))

GrantsTold ==
    /\ reconciled # << >> => openingGrants = OpenConfigs[reconciled[Len(reconciled)]].scopes
    /\ Told(principal, openingGrants)
    /\ \A c \in OpenConsumers : cursors[c] <= Len(principal)

OpeningInv == OpenTypes /\ MigrationsHold /\ ReadsAreFresh /\ GrantsTold

LEMMA SameCardinality == \A S : Open!Cardinality(S) = Cardinality(S)
  BY DEF Open!Cardinality, Cardinality

(* The events of a change of grants: one for each scope that changes. *)
ChangeOf(more, type, changed, S) ==
    /\ more \in Seq([type : {"added", "revoked"}, scope : S])
    /\ \A i \in 1 .. Len(more) :
          more[i] = Open!Event(type, more[i].scope) /\ more[i].scope \in changed
    /\ \A i, j \in 1 .. Len(more) : more[i].scope = more[j].scope => i = j
    /\ \A s \in changed : \E i \in 1 .. Len(more) : more[i].scope = s
LEMMA EventsOfChange ==
    ASSUME NEW S, NEW changed \in SUBSET S, IsFiniteSet(changed), NEW type \in {"added", "revoked"}
    PROVE  ChangeOf(Open!Events(type, changed), type, changed, S)
<1> DEFINE order == Open!SetToSeq(changed)
           more == Open!Events(type, changed)
           n == Cardinality(changed)
<1>1. n \in Nat /\ ExistsBijection(1 .. n, changed)
  BY FS_CardinalityType
<1>2. \E f \in [1 .. n -> changed] : Open!IsInjective(f)
  BY <1>1 DEF ExistsBijection, Bijection, Injection, IsInjective, Open!IsInjective
<1>3. order \in [1 .. n -> changed] /\ Open!IsInjective(order)
  BY <1>2, SameCardinality DEF Open!SetToSeq
<1>4. \A s \in changed : \E i \in 1 .. n : order[i] = s
  <2>1. order \in Injection(1 .. n, changed)
    BY <1>3 DEF Injection, IsInjective, Open!IsInjective
  <2>2. IsFiniteSet(1 .. n) /\ Cardinality(1 .. n) = n
    BY <1>1, FS_Interval
  <2>3. order \in Surjection(1 .. n, changed)
    BY <2>1, <2>2, FS_Injection
  <2> QED
    BY <2>3 DEF Surjection
<1>5. more = [i \in 1 .. n |-> Open!Event(type, order[i])]
  BY <1>3 DEF Open!Events
<1>6. \A i \in 1 .. n : more[i].scope = order[i] /\ more[i] = Open!Event(type, order[i])
  BY <1>5 DEF Open!Event
<1>10. DOMAIN more = 1 .. n
  BY <1>5
<1>7. more \in Seq([type : {"added", "revoked"}, scope : S])
  <2> DEFINE E == [type : {"added", "revoked"}, scope : S]
  <2>1. \A i \in 1 .. n : order[i] \in S
    BY <1>3
  <2>2. \A i \in 1 .. n : Open!Event(type, order[i]) \in E
    BY <2>1 DEF Open!Event
  <2> HIDE DEF E, order
  <2>3. more \in [1 .. n -> E]
    BY <1>5, <2>2
  <2> HIDE DEF more, n
  <2>4. more \in Seq(E)
    BY <1>1, <2>3, SeqDef
  <2> QED
    BY <2>4 DEF E
<1>8. \A i \in 1 .. n : order[i] \in changed
  BY <1>3
<1>9. \A i, j \in 1 .. n : order[i] = order[j] => i = j
  BY <1>3 DEF Open!IsInjective
<1>11. Len(more) = n
  BY <1>1, <1>10, <1>7
<1> HIDE DEF order, more, n
<1> QED
  BY <1>1, <1>4, <1>6, <1>7, <1>8, <1>9, <1>11 DEF more, ChangeOf

(* The stream tells the grants after a change when it told them before. *)
LEMMA ToldMore ==
    ASSUME NEW S, NEW events \in Seq([type : {"added", "revoked"}, scope : S]),
           NEW changed \in SUBSET S, IsFiniteSet(changed), NEW type \in {"added", "revoked"},
           NEW granted, Told(events, granted),
           IF type = "added" THEN changed \cap granted = {} ELSE changed \subseteq granted
    PROVE  LET all == events \o Open!Events(type, changed) IN
           /\ all \in Seq([type : {"added", "revoked"}, scope : S])
           /\ Len(all) >= Len(events)
           /\ Told(all, IF type = "added" THEN granted \cup changed ELSE granted \ changed)
<1> DEFINE more == Open!Events(type, changed)
           all == events \o more
           n == Len(events)
           m == Len(more)
           now == IF type = "added" THEN granted \cup changed ELSE granted \ changed
<1> HIDE DEF more, all, m, n
<1>1. /\ m \in Nat /\ DOMAIN more = 1 .. m /\ Len(more) = m
      /\ more \in Seq([type : {"added", "revoked"}, scope : S])
      /\ \A i \in 1 .. m : more[i] = Open!Event(type, more[i].scope) /\ more[i].scope \in changed
      /\ \A i, j \in 1 .. m : more[i].scope = more[j].scope => i = j
      /\ \A s \in changed : \E i \in 1 .. m : more[i].scope = s
  <2>1. ChangeOf(more, type, changed, S)
    BY EventsOfChange DEF more
  <2> QED
    BY <2>1 DEF ChangeOf, m
<1>2. /\ n \in Nat /\ DOMAIN events = 1 .. n
      /\ all \in Seq([type : {"added", "revoked"}, scope : S])
      /\ Len(all) = n + m /\ DOMAIN all = 1 .. (n + m)
      /\ \A i \in 1 .. n : all[i] = events[i]
      /\ \A i \in 1 .. m : all[n + i] = more[i]
  <2> DEFINE E == [type : {"added", "revoked"}, scope : S]
  <2> HIDE DEF E
  <2>1. events \in Seq(E) /\ more \in Seq(E)
    BY <1>1 DEF E
  <2>2. /\ n \in Nat /\ DOMAIN events = 1 .. n /\ all \in Seq(E)
        /\ Len(all) = n + m
        /\ \A i \in 1 .. n + m : all[i] = IF i <= n THEN events[i] ELSE more[i - n]
    BY <1>1, <2>1, ConcatProperties DEF all, n, m
  <2>3. \A i \in 1 .. m : n + i \in 1 .. n + m /\ ~ (n + i <= n) /\ (n + i) - n = i
    BY <1>1, <2>2
  <2>4. \A i \in 1 .. m : all[n + i] = more[i]
    BY <2>2, <2>3
  <2>5. \A i \in 1 .. n : i \in 1 .. n + m /\ i <= n
    BY <1>1, <2>2
  <2>6. DOMAIN all = 1 .. n + m
    BY <2>2
  <2> QED
    BY <2>2, <2>4, <2>5, <2>6 DEF E
<1>3. ASSUME NEW k \in 0 .. n, NEW s
      PROVE  Open!Replayed(all, s, k) <=> Open!Replayed(events, s, k)
  BY <1>2 DEF Open!Replayed
<1>4. ASSUME NEW k \in n .. (n + m), NEW s, \A j \in (n + 1) .. k : all[j].scope # s
      PROVE  Open!Replayed(all, s, k) <=> s \in granted
  <2>1. s \in granted <=> Open!Replayed(all, s, n)
    BY <1>2, <1>3 DEF Told, n
  <2>2. Open!Replayed(all, s, n) => Open!Replayed(all, s, k)
    BY <1>1, <1>2, <1>4 DEF Open!Replayed
  <2>3. Open!Replayed(all, s, k) => Open!Replayed(all, s, n)
    BY <1>1, <1>2, <1>4 DEF Open!Replayed, Open!Event
  <2> QED
    BY <2>1, <2>2, <2>3
<1>5. ASSUME NEW i \in DOMAIN all
      PROVE  all[i].type = IF Open!Replayed(all, all[i].scope, i - 1) THEN "revoked" ELSE "added"
  <2>1. CASE i \in 1 .. n
    BY <1>2, <1>3, <2>1 DEF Told
  <2>2. CASE i \notin 1 .. n
    <3>1. i - n \in 1 .. m /\ n + (i - n) = i
      BY <1>1, <1>2, <2>2
    <3>5. all[i] = more[i - n]
      BY <1>2, <3>1
    <3>2. all[i].type = type /\ all[i].scope \in changed
      BY <1>1, <3>1, <3>5 DEF Open!Event
    <3>3. \A j \in (n + 1) .. (i - 1) : all[j].scope # all[i].scope
      <4>1. ASSUME NEW j \in (n + 1) .. (i - 1) PROVE all[j].scope # all[i].scope
        <5>1. j - n \in 1 .. m /\ n + (j - n) = j /\ j - n # i - n
          BY <1>1, <1>2, <3>1
        <5>2. all[j] = more[j - n]
          BY <1>2, <5>1
        <5> QED
          BY <1>1, <3>1, <3>5, <5>1, <5>2
      <4> QED
        BY <4>1
    <3>4. Open!Replayed(all, all[i].scope, i - 1) <=> all[i].scope \in granted
      BY SMTT(30), <1>1, <1>2, <1>4, <2>2, <3>3
    <3> QED
      BY <3>2, <3>4
  <2> QED
    BY <2>1, <2>2
<1>6. ASSUME NEW s PROVE s \in now <=> Open!Replayed(all, s, Len(all))
  <2>1. CASE s \notin changed
    <3>1. \A j \in (n + 1) .. (n + m) : all[j].scope # s
      <4>1. ASSUME NEW j \in (n + 1) .. (n + m) PROVE all[j].scope # s
        <5>1. j - n \in 1 .. m /\ all[j] = more[j - n]
          BY <1>1, <1>2
        <5> QED
          BY <1>1, <2>1, <5>1
      <4> QED
        BY <4>1
    <3> QED
      BY <1>1, <1>2, <1>4, <2>1, <3>1
  <2>2. CASE s \in changed
    <3>1. PICK h \in 1 .. m : more[h].scope = s
      BY <1>1, <2>2
    <3>2. all[n + h] = Open!Event(type, s) /\ n + h \in 1 .. (n + m)
      BY <1>1, <1>2, <3>1
    <3>3. ASSUME NEW j \in (n + 1) .. (n + m), j # n + h PROVE all[j].scope # s
      <4>1. j - n \in 1 .. m /\ all[j] = more[j - n] /\ j - n # h
        BY <1>1, <1>2, <3>1, <3>3
      <4> QED
        BY <1>1, <3>1, <4>1
    <3>4. CASE type = "added"
      <4>1. \A j \in (n + h + 1) .. (n + m) : all[j].scope # s
        BY <1>1, <1>2, <3>1, <3>3
      <4> QED
        BY <1>2, <2>2, <3>2, <3>4, <4>1 DEF Open!Replayed
    <3>5. CASE type = "revoked"
      <4>1. ASSUME NEW i \in 1 .. (n + m), all[i] = Open!Event("added", s),
                   \A j \in (i + 1) .. (n + m) : all[j].scope # s
            PROVE  FALSE
        <5>1. all[n + h].scope = s /\ all[n + h].type = "revoked" /\ all[i].scope = s /\ all[i].type = "added"
          BY <3>2, <3>5, <4>1 DEF Open!Event
        <5>2. i # n + h /\ ~ (i < n + h)
          BY <1>1, <1>2, <3>1, <4>1, <5>1
        <5>3. i \in (n + 1) .. (n + m)
          BY <1>1, <1>2, <3>1, <5>2
        <5> QED
          BY <3>3, <5>1, <5>2, <5>3
      <4> QED
        BY <1>2, <2>2, <3>5, <4>1 DEF Open!Replayed
    <3> QED
      BY <3>4, <3>5
  <2> QED
    BY <2>1, <2>2
<1>7. Len(all) >= Len(events)
  BY <1>1, <1>2 DEF n
<1> QED
  BY <1>2, <1>5, <1>6, <1>7 DEF Told, all, more

LEMMA OpeningInits == ASSUME Open!OpeningInit PROVE OpeningInv
<1> USE DEF Open!OpeningInit
<1>1. OpenTypes
  <2>1. Open!NewProcess \in OpenProcess
    BY DEF Open!NewProcess, OpenProcess
  <2>2. 1 \in DOMAIN OpenConfigs
    BY ConfigsAreLists
  <2>3. IsFiniteSet(openingGrants)
    BY FS_EmptySet
  <2> QED
    BY <2>1, <2>2, <2>3 DEF OpenTypes
<1>2. \A p \in DOMAIN Openers : opening[p].at = "start"
  BY DEF Open!NewProcess
<1>3. MigrationsHold /\ ReadsAreFresh
  BY <1>2 DEF MigrationsHold, ReadsAreFresh
<1>4. GrantsTold
  BY DEF GrantsTold, Told, Open!Replayed
<1> QED
  BY <1>1, <1>3, <1>4 DEF OpeningInv

(* A process goes on and leaves the configuration and the grants. *)
LEMMA ProcessGoes ==
    ASSUME OpeningInv, NEW p \in DOMAIN Openers, NEW to \in OpenProcess,
           opening' = [opening EXCEPT ![p] = to],
           UNCHANGED <<config, openingGrants, reconciled, principal, cursors>>,
           database' \in [exists : BOOLEAN, applied : Seq(Migrations)],
           \A i, j \in DOMAIN database'.applied : i # j => database'.applied[i] # database'.applied[j],
           \A i \in DOMAIN database.applied :
              \E j \in DOMAIN database'.applied : database'.applied[j] = database.applied[i],
           \A m \in Openers[p] :
              to.at \in {"migrate", "refresh", "load", "reconcile", "open"} =>
                 \/ \E i \in DOMAIN database'.applied : database'.applied[i] = m
                 \/ to.at = "migrate" /\ m \in to.pending,
           writer' = writer \/ writer' = writer \ {p} \/ (writer = {} /\ writer' = {p}),
           to.at \in {"load", "reconcile"} => writer' = {p},
           to.at = "reconcile" => to.loaded = config
    PROVE  OpeningInv'
<1> USE DEF OpeningInv
<1>1. opening'[p] = to /\ \A q \in DOMAIN Openers \ {p} : opening'[q] = opening[q]
  BY DEF OpenTypes
<1>2. OpenTypes'
  BY DEF OpenTypes
<1>3. MigrationsHold'
  <2>1. ASSUME NEW q \in DOMAIN Openers, NEW m \in Migrations, m \in Openers[q],
               opening'[q].at \in {"migrate", "refresh", "load", "reconcile", "open"}
        PROVE  \/ \E i \in DOMAIN database'.applied : database'.applied[i] = m
               \/ opening'[q].at = "migrate" /\ m \in opening'[q].pending
    <3>1. CASE q = p
      BY <1>1, <2>1, <3>1
    <3>2. CASE q # p
      BY <1>1, <2>1, <3>2 DEF MigrationsHold
    <3> QED
      BY <3>1, <3>2
  <2> QED
    BY <2>1 DEF MigrationsHold
<1>4. ReadsAreFresh'
  <2>1. ASSUME NEW q \in DOMAIN Openers, opening'[q].at \in {"load", "reconcile"}
        PROVE  writer' = {q}
    <3>1. CASE q = p
      BY <1>1, <2>1, <3>1
    <3>2. CASE q # p
      BY <1>1, <2>1, <3>2 DEF ReadsAreFresh
    <3> QED
      BY <3>1, <3>2
  <2>2. ASSUME NEW q \in DOMAIN Openers, opening'[q].at = "reconcile"
        PROVE  /\ opening'[q].loaded \in DOMAIN OpenConfigs /\ opening'[q].loaded <= config
               /\ \A i \in DOMAIN reconciled : reconciled[i] <= opening'[q].loaded
    <3>1. CASE q = p
      <4>1. config \in Nat
        BY ConfigsAreLists DEF OpenTypes
      <4> QED
        BY <1>1, <2>2, <3>1, <4>1 DEF ReadsAreFresh, OpenTypes
    <3>2. CASE q # p
      BY <1>1, <2>2, <3>2 DEF ReadsAreFresh
    <3> QED
      BY <3>1, <3>2
  <2> QED
    BY <2>1, <2>2 DEF ReadsAreFresh
<1>5. GrantsTold'
  BY DEF GrantsTold
<1> QED
  BY <1>2, <1>3, <1>4, <1>5

LEMMA Least ==
    ASSUME NEW T \in SUBSET Nat, T # {}
    PROVE  \E t \in T : \A u \in T : t <= u
<1>1. PICK t \in T : \A u \in T : ~ (<<u, t>> \in OpToRel(<, Nat))
  BY NatLessThanWellFounded, WFMin
<1>2. \A u \in T : ~ (u < t)
  BY <1>1 DEF OpToRel
<1> QED
  BY <1>2

LEMMA OpenerSteps ==
    ASSUME OpeningInv, NEW p \in DOMAIN Openers,
           \/ Open!CreateFile(p) \/ Open!LinkFile(p) \/ Open!ReadPending(p)
           \/ Open!ApplyMigration(p) \/ Open!BeginRefresh(p) \/ Open!LoadConfig(p)
           \/ Open!RefreshScopes(p) \/ Open!Stop(p)
    PROVE  OpeningInv'
<1> USE DEF OpeningInv
<1>1. UNCHANGED <<config, openingGrants, reconciled, principal, cursors>>
  BY DEF Open!CreateFile, Open!LinkFile, Open!ReadPending, Open!ApplyMigration, Open!BeginRefresh,
         Open!LoadConfig, Open!RefreshScopes, Open!Stop, Open!Access
<1>2. /\ opening[p] \in OpenProcess
      /\ database \in [exists : BOOLEAN, applied : Seq(Migrations)]
      /\ \A i, j \in DOMAIN database.applied : i # j => database.applied[i] # database.applied[j]
      /\ Openers[p] \subseteq Migrations
  BY DEF OpenTypes, MigrationsHold, Migrations
<1> DEFINE Goes(step) == [opening[p] EXCEPT !.at = step]
           Found(step) ==
              \A m \in Openers[p] :
                 step \in {"migrate", "refresh", "load", "reconcile", "open"} =>
                    \/ \E i \in DOMAIN database.applied : database.applied[i] = m
                    \/ step = "migrate" /\ m \in opening[p].pending
(* A step of a process that leaves the database. *)
<1>3. ASSUME NEW step \in {"link", "pending", "refresh", "load", "open", "stopped", "refused"},
             Open!Goes(p, step), UNCHANGED database, Found(step),
             writer' = writer \/ writer' = writer \ {p} \/ (writer = {} /\ writer' = {p}),
             step = "load" => writer' = {p}
      PROVE  OpeningInv'
  <2>1. Goes(step) \in OpenProcess /\ Goes(step).at = step
    BY <1>2 DEF OpenProcess
  <2>2. opening' = [opening EXCEPT ![p] = Goes(step)]
    BY <1>2, <1>3 DEF Open!Goes, OpenTypes
  <2> HIDE DEF Goes, OpeningInv
  <2>3. /\ database' \in [exists : BOOLEAN, applied : Seq(Migrations)]
        /\ \A i, j \in DOMAIN database'.applied : i # j => database'.applied[i] # database'.applied[j]
        /\ \A i \in DOMAIN database.applied :
              \E j \in DOMAIN database'.applied : database'.applied[j] = database.applied[i]
    BY <1>2, <1>3
  <2>4. \A m \in Openers[p] :
           Goes(step).at \in {"migrate", "refresh", "load", "reconcile", "open"} =>
              \/ \E i \in DOMAIN database'.applied : database'.applied[i] = m
              \/ Goes(step).at = "migrate" /\ m \in Goes(step).pending
    BY <1>3, <2>1
  <2>5. /\ Goes(step).at \in {"load", "reconcile"} => writer' = {p}
        /\ Goes(step).at = "reconcile" => Goes(step).loaded = config
    BY <1>3, <2>1
  <2> QED
    BY <1>1, <1>3, <2>1, <2>2, <2>3, <2>4, <2>5, ProcessGoes
<1>4. CASE Open!CreateFile(p)
  BY <1>3, <1>4 DEF Open!CreateFile
<1>5. CASE Open!LinkFile(p)
  <2>1. database' \in [exists : BOOLEAN, applied : Seq(Migrations)] /\ database'.applied = database.applied
    BY <1>2, <1>5 DEF Open!LinkFile
  <2>2. Goes("pending") \in OpenProcess /\ Goes("pending").at = "pending"
    BY <1>2 DEF OpenProcess
  <2>3. opening' = [opening EXCEPT ![p] = Goes("pending")] /\ writer' = writer
    BY <1>2, <1>5 DEF Open!LinkFile, Open!Goes, OpenTypes
  <2>4. /\ \A i, j \in DOMAIN database'.applied : i # j => database'.applied[i] # database'.applied[j]
        /\ \A i \in DOMAIN database.applied :
              \E j \in DOMAIN database'.applied : database'.applied[j] = database.applied[i]
    BY <1>2, <2>1
  <2> HIDE DEF Goes
  <2> QED
    BY <1>1, <2>1, <2>2, <2>3, <2>4, ProcessGoes
<1>6. CASE Open!ReadPending(p)
  <2>1. CASE Open!Goes(p, "refused")
    BY <1>3, <1>6, <2>1 DEF Open!ReadPending
  <2>2. CASE ~ Open!Goes(p, "refused")
    <3> DEFINE applied == {database.applied[i] : i \in DOMAIN database.applied}
               to == [opening[p] EXCEPT !.at = "migrate", !.pending = Openers[p] \ applied]
    <3>1. Open!ToSet(database.applied) = applied
      BY DEF Open!ToSet
    <3>2. opening' = [opening EXCEPT ![p] = to]
      BY <1>2, <1>6, <2>2, <3>1 DEF Open!ReadPending, OpenTypes
    <3>3. to \in OpenProcess /\ to.at = "migrate" /\ to.pending = Openers[p] \ applied
      BY <1>2 DEF OpenProcess
    <3>4. UNCHANGED <<database, writer>>
      BY <1>6 DEF Open!ReadPending
    <3>5. \A m \in Openers[p] :
             (\E i \in DOMAIN database.applied : database.applied[i] = m) \/ m \in to.pending
      BY <3>3
    <3>6. /\ database' \in [exists : BOOLEAN, applied : Seq(Migrations)]
          /\ \A i, j \in DOMAIN database'.applied : i # j => database'.applied[i] # database'.applied[j]
          /\ \A i \in DOMAIN database.applied :
                \E j \in DOMAIN database'.applied : database'.applied[j] = database.applied[i]
          /\ \A m \in Openers[p] :
                (\E i \in DOMAIN database'.applied : database'.applied[i] = m) \/ m \in to.pending
      BY <1>2, <3>4, <3>5
    <3> HIDE DEF to, applied, OpeningInv
    <3> QED
      BY <1>1, <3>2, <3>3, <3>4, <3>6, ProcessGoes
  <2> QED
    BY <2>1, <2>2
<1>7. CASE Open!ApplyMigration(p)
  <2>1. CASE opening[p].pending = {}
    <3>1. Found("refresh")
      BY <1>2, <1>7, <2>1 DEF Open!ApplyMigration, MigrationsHold
    <3> QED
      BY <1>3, <1>7, <2>1, <3>1 DEF Open!ApplyMigration
  <2>2. CASE opening[p].pending # {}
    <3> DEFINE next == Open!Min(opening[p].pending)
               to == [opening[p] EXCEPT !.pending = @ \ {next}]
    <3>1. /\ opening[p].at = "migrate" /\ UNCHANGED writer
          /\ database' = [database EXCEPT !.applied = Open!Applied(next)]
          /\ opening' = [opening EXCEPT ![p].pending = @ \ {next}]
      BY <1>7, <2>2 DEF Open!ApplyMigration
    <3>2. opening' = [opening EXCEPT ![p] = to] /\ to \in OpenProcess
          /\ to.at = "migrate" /\ to.pending = opening[p].pending \ {next}
      BY <1>2, <3>1 DEF OpenTypes, OpenProcess
    <3>3. database'.applied = Open!Applied(next) /\ database'.exists = database.exists
      BY <1>2, <3>1
    <3> HIDE DEF to, next
    <3>4. CASE \E i \in DOMAIN database.applied : database.applied[i] = next
      <4>1. database'.applied = database.applied
        BY <3>3, <3>4 DEF Open!Applied, Open!ToSet
      <4>2. database' \in [exists : BOOLEAN, applied : Seq(Migrations)]
        BY <1>2, <3>1, <4>1
      <4>3. \A m \in Openers[p] :
               (\E i \in DOMAIN database.applied : database.applied[i] = m) \/ m \in to.pending
        BY <1>2, <3>1, <3>2, <3>4 DEF MigrationsHold
      <4>4. /\ \A i, j \in DOMAIN database'.applied : i # j => database'.applied[i] # database'.applied[j]
            /\ \A i \in DOMAIN database.applied :
                  \E j \in DOMAIN database'.applied : database'.applied[j] = database.applied[i]
            /\ \A m \in Openers[p] :
                  (\E i \in DOMAIN database'.applied : database'.applied[i] = m) \/ m \in to.pending
        BY <1>2, <4>1, <4>3
      <4> QED
        BY <1>1, <3>1, <3>2, <4>2, <4>4, ProcessGoes
    <3>5. CASE ~ \E i \in DOMAIN database.applied : database.applied[i] = next
      <4>1. database'.applied = Append(database.applied, next)
        BY <3>3, <3>5 DEF Open!Applied, Open!ToSet
      <4>2. next \in Migrations
        <5>1. opening[p].pending \in SUBSET Migrations
          BY <1>2 DEF OpenProcess
        <5>2. Migrations \subseteq Nat
          BY MigrationsAreNumbered DEF Migrations
        <5>3. \E t \in opening[p].pending : \A u \in opening[p].pending : t <= u
          BY <2>2, <5>1, <5>2, Least
        <5>4. next \in opening[p].pending
          BY <5>3 DEF next, Open!Min
        <5> QED
          BY <5>1, <5>4
      <4>3. /\ database'.applied \in Seq(Migrations)
            /\ DOMAIN database'.applied = 1 .. (Len(database.applied) + 1)
            /\ DOMAIN database.applied = 1 .. Len(database.applied) /\ Len(database.applied) \in Nat
            /\ \A i \in 1 .. Len(database.applied) : database'.applied[i] = database.applied[i]
            /\ database'.applied[Len(database.applied) + 1] = next
        BY <1>2, <4>1, <4>2, AppendProperties
      <4>4. database' \in [exists : BOOLEAN, applied : Seq(Migrations)]
        BY <1>2, <3>1, <4>1, <4>3
      <4>5. \A i, j \in DOMAIN database'.applied : i # j => database'.applied[i] # database'.applied[j]
        BY <1>2, <3>5, <4>3
      <4>6. \A i \in DOMAIN database.applied :
               \E j \in DOMAIN database'.applied : database'.applied[j] = database.applied[i]
        BY <4>3
      <4>7. \A m \in Openers[p] :
               (\E i \in DOMAIN database'.applied : database'.applied[i] = m) \/ m \in to.pending
        <5>1. ASSUME NEW m \in Openers[p], m # next
              PROVE  (\E i \in DOMAIN database'.applied : database'.applied[i] = m) \/ m \in to.pending
          <6>1. (\E i \in DOMAIN database.applied : database.applied[i] = m) \/ m \in opening[p].pending
            BY <1>2, <3>1 DEF MigrationsHold
          <6> QED
            BY <3>2, <4>6, <5>1, <6>1
        <5>2. \E i \in DOMAIN database'.applied : database'.applied[i] = next
          BY <4>3
        <5> QED
          BY <5>1, <5>2
      <4> QED
        BY <1>1, <3>1, <3>2, <4>4, <4>5, <4>6, <4>7, ProcessGoes
    <3> QED
      BY <3>4, <3>5
  <2> QED
    BY <2>1, <2>2
<1>8. CASE Open!BeginRefresh(p)
  <2>1. Found("load")
    BY <1>2, <1>8 DEF Open!BeginRefresh, MigrationsHold
  <2>2. Open!Goes(p, "load") /\ UNCHANGED database /\ writer = {} /\ writer' = {p}
    BY <1>8 DEF Open!BeginRefresh, Open!Nobody
  <2> QED
    BY <1>3, <2>1, <2>2
<1>9. CASE Open!LoadConfig(p)
  <2>1. CASE Open!Goes(p, "refused")
    BY <1>3, <1>9, <2>1 DEF Open!LoadConfig
  <2>2. CASE ~ Open!Goes(p, "refused")
    <3> DEFINE to == [opening[p] EXCEPT !.at = "reconcile", !.loaded = config]
    <3>1. opening' = [opening EXCEPT ![p] = to] /\ UNCHANGED <<database, writer>> /\ opening[p].at = "load"
      BY <1>2, <1>9, <2>2 DEF Open!LoadConfig, OpenTypes
    <3>2. config \in Nat
      BY ConfigsAreLists DEF OpenTypes
    <3>3. to \in OpenProcess /\ to.at = "reconcile" /\ to.loaded = config
      BY <1>2, <3>2 DEF OpenProcess
    <3>4. \A m \in Openers[p] : \E i \in DOMAIN database.applied : database.applied[i] = m
      BY <1>2, <3>1 DEF MigrationsHold
    <3>5. writer = {p}
      BY <3>1 DEF ReadsAreFresh
    <3>6. /\ database' \in [exists : BOOLEAN, applied : Seq(Migrations)]
          /\ \A i, j \in DOMAIN database'.applied : i # j => database'.applied[i] # database'.applied[j]
          /\ \A i \in DOMAIN database.applied :
                \E j \in DOMAIN database'.applied : database'.applied[j] = database.applied[i]
          /\ \A m \in Openers[p] : \E i \in DOMAIN database'.applied : database'.applied[i] = m
      BY <1>2, <3>1, <3>4
    <3>7. opening' = [opening EXCEPT ![p] = to] /\ writer' = writer /\ writer' = {p}
      BY <3>1, <3>5
    <3>8. /\ \A m \in Openers[p] :
                to.at \in {"migrate", "refresh", "load", "reconcile", "open"} =>
                   \/ \E i \in DOMAIN database'.applied : database'.applied[i] = m
                   \/ to.at = "migrate" /\ m \in to.pending
          /\ to.at \in {"load", "reconcile"} => writer' = {p}
          /\ to.at = "reconcile" => to.loaded = config
      BY <3>3, <3>6, <3>7
    <3> HIDE DEF to, OpeningInv
    <3> QED
      BY <1>1, <3>3, <3>6, <3>7, <3>8, ProcessGoes
  <2> QED
    BY <2>1, <2>2
<1>10. CASE Open!RefreshScopes(p)
  <2>1. Found("refresh")
    BY <1>2, <1>10 DEF Open!RefreshScopes, MigrationsHold
  <2>2. Open!Goes(p, "refresh")
    BY <1>10 DEF Open!RefreshScopes, Open!Goes
  <2> QED
    BY <1>3, <1>10, <2>1, <2>2 DEF Open!RefreshScopes
<1>11. CASE Open!Stop(p)
  BY <1>3, <1>11 DEF Open!Stop
<1> QED
  BY <1>4, <1>5, <1>6, <1>7, <1>8, <1>9, <1>10, <1>11

LEMMA ReconcileSteps ==
    ASSUME OpeningInv, NEW p \in DOMAIN Openers, Open!Reconcile(p)
    PROVE  OpeningInv'
<1> USE DEF OpeningInv
<1> DEFINE loaded == opening[p].loaded
           wanted == OpenConfigs[loaded].scopes
           added == Open!Events("added", wanted \ openingGrants)
           revoked == Open!Events("revoked", openingGrants \ wanted)
           to == [Open!NewProcess EXCEPT !.at = "open", !.scopes = wanted]
<1>1. /\ opening[p].at = "reconcile" /\ writer' = writer \ {p}
      /\ principal' = (principal \o added) \o revoked
      /\ openingGrants' = wanted /\ reconciled' = Append(reconciled, loaded)
      /\ opening' = [opening EXCEPT ![p] = to]
      /\ UNCHANGED <<database, config, cursors>>
  BY DEF Open!Reconcile
<1>2. /\ loaded \in DOMAIN OpenConfigs /\ loaded <= config /\ writer = {p}
      /\ \A i \in DOMAIN reconciled : reconciled[i] <= loaded
  BY <1>1 DEF ReadsAreFresh
<1>3. wanted \subseteq GrantedScopes /\ IsFiniteSet(wanted)
  BY <1>2, ConfigsAreLists DEF GrantedScopes
<1>4. to \in OpenProcess /\ to.at = "open"
  BY <1>3 DEF OpenProcess, Open!NewProcess
<1>5. opening'[p] = to /\ \A q \in DOMAIN Openers \ {p} : opening'[q] = opening[q]
  BY <1>1 DEF OpenTypes
<1>6. /\ reconciled' \in Seq(DOMAIN OpenConfigs) /\ Len(reconciled) \in Nat
      /\ DOMAIN reconciled = 1 .. Len(reconciled)
      /\ DOMAIN reconciled' = 1 .. (Len(reconciled) + 1) /\ Len(reconciled') = Len(reconciled) + 1
      /\ \A i \in 1 .. Len(reconciled) : reconciled'[i] = reconciled[i]
      /\ reconciled'[Len(reconciled) + 1] = loaded
  BY <1>1, <1>2, AppendProperties DEF OpenTypes
<1>7. /\ principal' \in Seq(PrincipalEvents) /\ Len(principal') >= Len(principal)
      /\ Told(principal', wanted)
  <2> DEFINE first == principal \o added
             meanwhile == openingGrants \cup (wanted \ openingGrants)
  <2>1. /\ wanted \ openingGrants \in SUBSET GrantedScopes /\ IsFiniteSet(wanted \ openingGrants)
        /\ openingGrants \ wanted \in SUBSET GrantedScopes /\ IsFiniteSet(openingGrants \ wanted)
    <3>1. openingGrants \subseteq GrantedScopes /\ IsFiniteSet(openingGrants)
      BY DEF OpenTypes
    <3>2. wanted \ openingGrants \in SUBSET wanted /\ openingGrants \ wanted \in SUBSET openingGrants
      OBVIOUS
    <3> QED
      BY <1>3, <3>1, <3>2, FS_Subset
  <2>2. principal \in Seq([type : {"added", "revoked"}, scope : GrantedScopes]) /\ Told(principal, openingGrants)
    BY DEF OpenTypes, PrincipalEvents, GrantsTold
  <2>3. /\ first \in Seq([type : {"added", "revoked"}, scope : GrantedScopes])
        /\ Len(first) >= Len(principal) /\ Told(first, meanwhile)
    <3>1. (wanted \ openingGrants) \cap openingGrants = {}
      OBVIOUS
    <3> HIDE DEF wanted
    <3> QED
      BY <2>1, <2>2, <3>1, ToldMore
  <2>4. LET all == first \o revoked IN
        /\ all \in Seq([type : {"added", "revoked"}, scope : GrantedScopes])
        /\ Len(all) >= Len(first) /\ Told(all, meanwhile \ (openingGrants \ wanted))
    <3>1. openingGrants \ wanted \subseteq meanwhile
      OBVIOUS
    <3> HIDE DEF wanted, first, meanwhile
    <3> QED
      BY <2>1, <2>3, <3>1, ToldMore
  <2>5. meanwhile \ (openingGrants \ wanted) = wanted
    OBVIOUS
  <2>6. Len(principal) \in Nat /\ Len(first) \in Nat /\ Len(first \o revoked) \in Nat
    BY <2>2, <2>3, <2>4
  <2>7. principal' = first \o revoked
    BY <1>1
  <2> HIDE DEF wanted, first, meanwhile, revoked
  <2>8. first \o revoked \in Seq([type : {"added", "revoked"}, scope : GrantedScopes])
    BY <2>4
  <2>9. principal' \in Seq(PrincipalEvents)
    BY <2>7, <2>8 DEF PrincipalEvents
  <2>10. Told(first \o revoked, wanted)
    BY <2>4, <2>5
  <2>11. Told(principal', wanted)
    BY <2>7, <2>10
  <2>12. Len(principal') >= Len(principal)
    BY <2>3, <2>4, <2>6, <2>7
  <2> QED
    BY <2>9, <2>11, <2>12
<1>8. OpenTypes'
  BY SMTT(30), <1>1, <1>3, <1>4, <1>6, <1>7 DEF OpenTypes
<1>9. MigrationsHold'
  <2>1. ASSUME NEW q \in DOMAIN Openers, NEW m \in Migrations, m \in Openers[q],
               opening'[q].at \in {"migrate", "refresh", "load", "reconcile", "open"}
        PROVE  \/ \E i \in DOMAIN database.applied : database.applied[i] = m
               \/ opening'[q].at = "migrate" /\ m \in opening'[q].pending
    <3>1. CASE q = p
      BY <1>1, <2>1, <3>1 DEF MigrationsHold
    <3>2. CASE q # p
      BY <1>5, <2>1, <3>2 DEF MigrationsHold
    <3> QED
      BY SMTT(30), <3>1, <3>2
  <2> QED
    BY <1>1, <2>1 DEF MigrationsHold
<1>10. ReadsAreFresh'
  <2>1. ASSUME NEW q \in DOMAIN Openers PROVE opening'[q].at \notin {"load", "reconcile"}
    BY <1>2, <1>4, <1>5, Zenon DEF ReadsAreFresh
  <2>2. config \in Nat /\ loaded \in Nat /\ \A i \in 1 .. Len(reconciled) : reconciled[i] \in Nat
    BY SMTT(30), <1>2, <1>6, ConfigsAreLists DEF OpenTypes
  <2>3. \A i \in DOMAIN reconciled' : reconciled'[i] <= config'
    BY <1>1, <1>2, <1>6, <2>2 DEF ReadsAreFresh
  <2>4. \A i, j \in DOMAIN reconciled' : i < j => reconciled'[i] <= reconciled'[j]
    BY <1>2, <1>6, <2>2 DEF ReadsAreFresh
  <2> QED
    BY <2>1, <2>3, <2>4 DEF ReadsAreFresh
<1>11. GrantsTold'
  <2>1. openingGrants' = OpenConfigs[reconciled'[Len(reconciled')]].scopes
    BY SMTT(30), <1>1, <1>6
  <2>2. \A c \in OpenConsumers : cursors'[c] <= Len(principal')
    <3>1. Len(principal) \in Nat /\ Len(principal') \in Nat /\ \A c \in OpenConsumers : cursors[c] \in Nat
      BY <1>7 DEF OpenTypes
    <3> QED
      BY <1>1, <1>7, <3>1 DEF GrantsTold
  <2> QED
    BY <1>1, <1>7, <2>1, <2>2, Zenon DEF GrantsTold
<1> QED
  BY <1>8, <1>9, <1>10, <1>11

LEMMA OpeningSteps == ASSUME OpeningInv, Open!OpeningNext PROVE OpeningInv'
<1> USE DEF OpeningInv
<1>1. ASSUME NEW p \in DOMAIN Openers, NEW c \in OpenConsumers, NEW i \in DOMAIN principal,
             Open!Ack(p, c, i)
      PROVE  OpeningInv'
  <2>1. /\ UNCHANGED <<database, config, writer, opening, openingGrants, reconciled, principal>>
        /\ cursors' = [cursors EXCEPT ![c] = i] /\ i <= Len(principal) /\ i \in Nat
    BY <1>1 DEF Open!Ack, OpenTypes
  <2>2. OpenTypes' /\ MigrationsHold' /\ ReadsAreFresh'
    BY <2>1 DEF OpenTypes, MigrationsHold, ReadsAreFresh
  <2>3. GrantsTold'
    BY <2>1 DEF GrantsTold, OpenTypes
  <2> QED
    BY <2>2, <2>3
<1>2. CASE Open!EditConfig
  <2>1. /\ config' = config + 1 /\ config' \in DOMAIN OpenConfigs
        /\ UNCHANGED <<database, writer, opening, openingGrants, reconciled, principal, cursors>>
    BY <1>2 DEF Open!EditConfig, Open!Access
  <2>2. OpenTypes' /\ MigrationsHold' /\ GrantsTold'
    BY <2>1 DEF OpenTypes, MigrationsHold, GrantsTold
  <2>3. /\ config \in Nat /\ \A i \in DOMAIN reconciled : reconciled[i] \in Nat
        /\ \A p \in DOMAIN Openers : opening[p].loaded \in Nat
    <3>1. DOMAIN OpenConfigs \subseteq Nat
      BY ConfigsAreLists
    <3>2. \A p \in DOMAIN Openers : opening[p] \in OpenProcess
      BY DEF OpenTypes
    <3> QED
      BY <3>1, <3>2 DEF OpenTypes, OpenProcess
  <2>4. ReadsAreFresh'
    BY <2>1, <2>3 DEF ReadsAreFresh
  <2> QED
    BY <2>2, <2>4
<1> QED
  BY <1>1, <1>2, OpenerSteps, ReconcileSteps, Zenon DEF Open!OpeningNext

LEMMA OpeningInvImplies == ASSUME OpeningInv PROVE Open!MigratedOnce /\ Open!GrantsFollowConfig
<1> USE DEF OpeningInv
<1>1. Open!MigratedOnce
  <2>1. ASSUME NEW p \in DOMAIN Openers, opening[p].at \in {"refresh", "load", "reconcile", "open"},
               NEW m \in Openers[p]
        PROVE  m \in Open!ToSet(database.applied)
    BY <2>1 DEF MigrationsHold, Migrations, Open!ToSet
  <2> QED
    BY <2>1 DEF MigrationsHold, Open!MigratedOnce
<1>2. Open!GrantsFollowConfig
  <2>1. reconciled # << >> => openingGrants = OpenConfigs[Open!Last(reconciled)].scopes
    BY DEF GrantsTold, Open!Last
  <2>2. Open!Tells(principal, openingGrants)
    BY DEF GrantsTold, Told, Open!Tells
  <2> QED
    BY <2>1, <2>2 DEF ReadsAreFresh, GrantsTold, Open!GrantsFollowConfig
<1> QED
  BY <1>1, <1>2

(* However openings of two versions of the program interleave and stop, each
   migration is applied once and found by who is open; the grants follow
   config.toml forward, and the stream of the principal tells them. *)
THEOREM OpeningsHoldHolds == KernelSpec => []OpeningsHold
<1> DEFINE I == part = "opening" => OpeningInv
<1>1. KernelInit => I
  BY OpeningInits DEF KernelInit
<1>2. I /\ [KernelNext]_kernelVars => I'
  <2>1. ASSUME I, KernelNext PROVE I'
    BY <2>1, StepsOfParts, OpeningSteps
  <2>2. ASSUME I, UNCHANGED kernelVars PROVE I'
    BY <2>2 DEF kernelVars, partVars, kernelPartsVars, openingVars, OpeningInv, OpenTypes,
          MigrationsHold, ReadsAreFresh, GrantsTold
  <2> QED
    BY <2>1, <2>2
<1>3. I => OpeningsHold
  BY OpeningInvImplies DEF OpeningsHold
<1> QED
  BY <1>1, <1>2, <1>3, PTL DEF KernelSpec, kernelVars

-----------------------------------------------------------------------------
(* The identifier route.  The first n of a set of numbers: any other of the
   set comes after each of them, and there are n of them then. *)

IsFirst(H, P, n) ==
    /\ H \subseteq P /\ IsFiniteSet(H) /\ Cardinality(H) <= n
    /\ \A x \in P \ H : Cardinality(H) = n /\ \A h \in H : h < x

LEMMA SameInStore == \A S : Store!Cardinality(S) = Cardinality(S) /\ Store!Range(S) = Range(S) /\ Store!Min(S) = Min(S) /\ Store!Max(S) = Max(S)
  BY DEF Store!Cardinality, Cardinality, Store!Range, Range, Store!Min, Min, Store!Max, Max

LEMMA FirstsAreThose ==
    ASSUME NEW P \in SUBSET Nat, IsFiniteSet(P), NEW n \in Nat, NEW H, IsFirst(H, P, n)
    PROVE  H = {c \in P : Cardinality({d \in P : d < c}) < n}
<1> DEFINE below(c) == {d \in P : d < c}
<1>1. IsFiniteSet(H) /\ Cardinality(H) \in Nat /\ Cardinality(H) <= n /\ H \subseteq P
  BY FS_CardinalityType DEF IsFirst
<1>2. ASSUME NEW c \in H PROVE Cardinality(below(c)) < n
  <2>1. below(c) \subseteq H \ {c}
    <3>1. ASSUME NEW d \in P, d < c PROVE d \in H \ {c}
      <4>1. d \in Nat /\ c \in Nat
        BY <1>1
      <4>2. d # c /\ ~ c < d
        BY <3>1, <4>1
      <4> QED
        BY <4>2 DEF IsFirst
    <3> QED
      BY <3>1
  <2>2. IsFiniteSet(H \ {c}) /\ Cardinality(H \ {c}) = Cardinality(H) - 1
    BY <1>1, FS_RemoveElement
  <2>3. Cardinality(below(c)) \in Nat /\ Cardinality(below(c)) <= Cardinality(H \ {c})
    BY <2>1, <2>2, FS_Subset, FS_CardinalityType
  <2> HIDE DEF below
  <2> QED
    BY <1>1, <2>2, <2>3
<1>3. ASSUME NEW c \in P, c \notin H PROVE ~ Cardinality(below(c)) < n
  <2>1. H \subseteq below(c) /\ Cardinality(H) = n
    BY <1>1, <1>3 DEF IsFirst
  <2>2. IsFiniteSet(below(c))
    BY FS_Subset
  <2>3. Cardinality(below(c)) \in Nat /\ n <= Cardinality(below(c))
    BY <2>1, <2>2, FS_Subset, FS_CardinalityType
  <2> HIDE DEF below
  <2> QED
    BY <2>3
<1> QED
  BY <1>1, <1>2, <1>3

(* The chunks of a set in the order of their ids, and the first n of them. *)
LEMMA InOrderHolds ==
    ASSUME NEW S \in SUBSET Nat, IsFiniteSet(S)
    PROVE  /\ Lists(Store!InOrder(S), S) /\ Len(Store!InOrder(S)) = Cardinality(S)
           /\ \A i, j \in 1 .. Cardinality(S) : i < j => Store!InOrder(S)[i] < Store!InOrder(S)[j]
<1> DEFINE before == {p \in S \X S : p[1] < p[2]}
<1>1. IsOrder(before, S)
  <2>1. \A a \in S : a \in Nat
    OBVIOUS
  <2>2. \A a, b \in S : <<a, b>> \in before <=> a < b
    OBVIOUS
  <2> HIDE DEF before
  <2>3. \A a \in S : ~ a < a
    BY <2>1
  <2>4. \A a, b, c \in S : a < b /\ b < c => a < c
    BY <2>1
  <2>5. \A a, b \in S : a # b => a < b \/ b < a
    BY <2>1
  <2> QED
    BY <2>2, <2>3, <2>4, <2>5 DEF IsOrder
<1>2. \A a \in S : {b \in S : <<b, a>> \in before} = {d \in S : d < a}
  OBVIOUS
<1> HIDE DEF before
<1>3. \A a \in S : Cardinality({b \in S : <<b, a>> \in before}) = Store!Cardinality({d \in S : d < a})
  BY <1>2, SameInStore
<1>4. \A i : (CHOOSE a \in S : Cardinality({b \in S : <<b, a>> \in before}) = i - 1)
             = CHOOSE c \in S : Store!Cardinality({d \in S : d < c}) = i - 1
  BY <1>3
<1>5. Sorted(S, before) = Store!InOrder(S)
  <2> DEFINE f(i) == CHOOSE a \in S : Cardinality({b \in S : <<b, a>> \in before}) = i - 1
             g(i) == CHOOSE c \in S : Store!Cardinality({d \in S : d < c}) = i - 1
  <2>1. Sorted(S, before) = [i \in 1 .. Cardinality(S) |-> f(i)]
    BY SortedIs, Zenon
  <2>2. Store!InOrder(S) = [i \in 1 .. Cardinality(S) |-> g(i)]
    BY SameInStore, Zenon DEF Store!InOrder
  <2>3. \A i : f(i) = g(i)
    BY <1>4, Zenon
  <2> HIDE DEF f, g
  <2> QED
    BY <2>1, <2>2, <2>3
<1>6. \A i, j \in 1 .. Cardinality(S) : i < j => Store!InOrder(S)[i] < Store!InOrder(S)[j]
  <2>1. \A p \in before : p[1] < p[2]
    BY DEF before
  <2>2. \A i, j \in 1 .. Cardinality(S) : i < j => <<Store!InOrder(S)[i], Store!InOrder(S)[j]>> \in before
    BY <1>1, <1>5, SortedHolds
  <2> QED
    BY <2>1, <2>2
<1> QED
  BY <1>1, <1>5, <1>6, SortedHolds

LEMMA FirstOfIs ==
    ASSUME NEW S, NEW list \in Seq(S), NEW n \in Nat
    PROVE  /\ Store!FirstOf(list, n) \in Seq(S)
           /\ Len(Store!FirstOf(list, n)) = IF n <= Len(list) THEN n ELSE Len(list)
           /\ \A i \in 1 .. Len(Store!FirstOf(list, n)) : Store!FirstOf(list, n)[i] = list[i]
<1>1. {Len(list), n} = {n, Len(list)}
  OBVIOUS
<1>2. Store!FirstOf(list, n) = Take(list, n)
  BY <1>1, SameInStore DEF Store!FirstOf, Take
<1> QED
  BY <1>2, TakeIs

Ascends(list) == \A i, j \in 1 .. Len(list) : i < j => list[i] < list[j]

LEMMA PrefixHolds ==
    ASSUME NEW S \in SUBSET Nat, IsFiniteSet(S), NEW n \in Nat, NEW list, list = Store!FirstOf(Store!InOrder(S), n)
    PROVE  /\ list \in Seq(S) /\ Ascends(list) /\ IsFirst(Range(list), S, n)
           /\ Cardinality(Range(list)) = Len(list) /\ Len(list) <= n
           /\ Cardinality(S) <= n => Range(list) = S
           /\ \A i, j \in 1 .. Len(list) : list[i] = list[j] => i = j
<1> DEFINE all == Store!InOrder(S)
<1>1. /\ Lists(all, S) /\ Len(all) = Cardinality(S) /\ all \in Seq(S)
      /\ \A i, j \in 1 .. Len(all) : i < j => all[i] < all[j]
  BY InOrderHolds DEF Lists
<1> HIDE DEF all
<1>2. /\ list \in Seq(S) /\ Len(list) = IF n <= Len(all) THEN n ELSE Len(all)
      /\ \A i \in 1 .. Len(list) : list[i] = all[i]
  BY <1>1, FirstOfIs DEF all
<1>3. Len(list) \in Nat /\ Len(list) <= n /\ \A i \in 1 .. Len(list) : i \in 1 .. Len(all)
  BY <1>1, <1>2
<1>4. Ascends(list)
  BY <1>1, <1>2, <1>3 DEF Ascends
<1>5. \A i, j \in 1 .. Len(list) : list[i] = list[j] => i = j
  BY <1>1, <1>2, <1>3 DEF Lists
<1>6. Lists(list, Range(list)) /\ \A c : c \in Range(list) <=> \E i \in 1 .. Len(list) : list[i] = c
  BY <1>2, <1>5, DistinctIsListed DEF Distinct
<1>7. IsFiniteSet(Range(list)) /\ Cardinality(Range(list)) = Len(list)
  <2>1. IsFiniteSet(1 .. Len(list)) /\ Cardinality(1 .. Len(list)) = Len(list)
    <3>1. \A m \in Nat : IsFiniteSet(1 .. m) /\ Cardinality(1 .. m) = m
      BY FS_Interval
    <3> QED
      BY <1>3, <3>1
  <2>2. list \in [1 .. Len(list) -> Range(list)]
    BY <1>2, <1>6
  <2>3. list \in Injection(1 .. Len(list), Range(list)) /\ list \in Surjection(1 .. Len(list), Range(list))
    BY <1>5, <1>6, <2>2 DEF Injection, Surjection, IsInjective
  <2>4. ExistsBijection(1 .. Len(list), Range(list))
    BY <2>3, Zenon DEF ExistsBijection, Bijection
  <2> QED
    BY <2>1, <2>4, FS_Bijection
<1>8. ASSUME NEW x \in S, x \notin Range(list)
      PROVE  Len(list) = n /\ \A h \in Range(list) : h < x
  <2>1. PICK j \in 1 .. Len(all) : all[j] = x
    BY <1>1 DEF Lists
  <2>2. j \notin 1 .. Len(list)
    BY <1>2, <1>6, <1>8, <2>1
  <2>3. Len(list) = n /\ \A i \in 1 .. Len(list) : i < j
    BY <1>1, <1>2, <1>3, <2>1, <2>2
  <2> QED
    BY <1>1, <1>2, <1>3, <1>6, <2>1, <2>3
<1>9. Range(list) \subseteq S
  BY <1>2, <1>6
<1>10. Cardinality(S) <= n => Range(list) = S
  <2>1. SUFFICES ASSUME Cardinality(S) <= n, NEW x \in S, x \notin Range(list) PROVE FALSE
    BY <1>9
  <2>2. Len(list) = n
    BY <1>8, <2>1
  <2>3. Range(list) \cup {x} \subseteq S /\ Cardinality(Range(list) \cup {x}) = n + 1
    BY <1>7, <1>9, <2>1, <2>2, FS_AddElement
  <2>4. Cardinality(Range(list) \cup {x}) <= Cardinality(S) /\ Cardinality(S) \in Nat
    BY <2>3, FS_Subset, FS_CardinalityType
  <2> QED
    BY <2>1, <2>3, <2>4
<1> QED
  BY <1>2, <1>3, <1>4, <1>5, <1>7, <1>8, <1>9, <1>10 DEF IsFirst

(* One more chunk: the first n of those before and of it. *)
LEMMA OneMoreRow ==
    ASSUME NEW P \in SUBSET Nat, NEW n \in Nat \ {0}, NEW H, IsFirst(H, P, n), NEW c \in Nat,
           NEW kept, kept = IF Cardinality(H \cup {c}) > n THEN (H \cup {c}) \ {Max(H \cup {c})} ELSE H \cup {c}
    PROVE  IsFirst(kept, P \cup {c}, n)
<1>1. IsFiniteSet(H) /\ Cardinality(H) \in Nat /\ Cardinality(H) <= n /\ H \subseteq P
  BY FS_CardinalityType DEF IsFirst
<1>2. CASE c \in H
  <2>1. H \cup {c} = H /\ P \cup {c} = P
    BY <1>1, <1>2
  <2>2. kept = H
    BY <1>1, <2>1
  <2> QED
    BY <2>1, <2>2
<1>3. CASE c \notin H
  <2> DEFINE M == H \cup {c}
  <2>1. IsFiniteSet(M) /\ Cardinality(M) = Cardinality(H) + 1 /\ M \subseteq P \cup {c}
    BY <1>1, <1>3, FS_AddElement
  <2>2. CASE Cardinality(M) <= n
    <3>1. kept = M
      BY <1>1, <2>1, <2>2
    <3>2. P \ H = {}
      BY <1>1, <2>1, <2>2 DEF IsFirst
    <3>3. (P \cup {c}) \ M = {}
      BY <3>2
    <3> QED
      BY <2>1, <2>2, <3>1, <3>3 DEF IsFirst
  <2>3. CASE ~ Cardinality(M) <= n
    <3>1. Cardinality(H) = n /\ kept = M \ {Max(M)}
      BY <1>1, <2>1, <2>3
    <3>2. Max(M) \in M /\ \A x \in M : Max(M) >= x
      <4>1. M \in SUBSET Int /\ M # {}
        BY <1>1
      <4> HIDE DEF M
      <4> QED
        BY <2>1, <4>1, GreatestOfFinite
    <3>3. PICK m \in M : m = Max(M) /\ \A x \in M : x <= m /\ x \in Nat
      <4>1. M \subseteq Nat
        BY <1>1
      <4> HIDE DEF M
      <4> QED
        BY <3>2, <4>1
    <3>4. kept = M \ {m} /\ IsFiniteSet(kept) /\ Cardinality(kept) = n
      <4> HIDE DEF M
      <4>1. IsFiniteSet(M \ {m}) /\ Cardinality(M \ {m}) = Cardinality(M) - 1
        BY <2>1, <3>3, FS_RemoveElement
      <4>2. kept = M \ {m}
        BY <3>1, <3>3, Zenon
      <4>3. Cardinality(M) - 1 = n
        BY <2>1, <3>1
      <4> QED
        BY <4>1, <4>2, <4>3, Zenon
    <3>5. ASSUME NEW x \in (P \cup {c}) \ kept, NEW h \in kept PROVE h < x
      <4>1. h \in M /\ h # m /\ h \in Nat /\ m \in Nat /\ h < m
        BY <3>3, <3>4
      <4>2. CASE x = m
        BY <4>1, <4>2
      <4>3. CASE x # m
        <5>1. x \in P \ H
          BY <3>4, <4>3
        <5>2. \A g \in H : g < x
          BY <5>1 DEF IsFirst
        <5>3. x \in Nat
          BY <5>1
        <5>4. CASE h \in H
          BY <5>2, <5>4
        <5>5. CASE h \notin H
          <6>1. m \in H
            BY <3>3, <4>1, <5>5
          <6>2. m < x
            BY <5>2, <6>1
          <6> QED
            BY <4>1, <5>3, <6>2
        <5> QED
          BY <5>4, <5>5
      <4> QED
        BY <4>2, <4>3
    <3>6. kept \subseteq P \cup {c}
      BY <2>1, <3>4
    <3> QED
      BY <3>4, <3>5, <3>6 DEF IsFirst
  <2> QED
    BY <2>2, <2>3
<1> QED
  BY <1>2, <1>3

(* What a loop over rows knows: the first of those before and of the rows it
   read, and that it may stop where these are full below the last row. *)
RowsRead(state, P, list, i, n) ==
    /\ state = [hits |-> state.hits, ended |-> state.ended]
    /\ IsFirst(state.hits, P \cup {list[j] : j \in 1 .. i}, n)
    /\ state.ended \in BOOLEAN
    /\ state.ended => i # 0 /\ Cardinality(state.hits) = n /\ \A h \in state.hits : h <= list[i]

LEMMA RowIsRead ==
    ASSUME NEW P \in SUBSET Nat, IsFiniteSet(P), NEW list \in Seq(Nat), Ascends(list),
           StoreHits \in Nat \ {0},
           NEW i \in 1 .. Len(list), NEW state, RowsRead(state, P, list, i - 1, StoreHits)
    PROVE  RowsRead(Store!TakeRow(state, list[i]), P, list, i, StoreHits)
<1> DEFINE c == list[i]
           before == P \cup {list[j] : j \in 1 .. (i - 1)}
           H == state.hits
           M == H \cup {c}
           kept == IF Cardinality(M) > StoreHits THEN M \ {Max(M)} ELSE M
<1>1. c \in Nat /\ before \in SUBSET Nat /\ before \cup {c} = P \cup {list[j] : j \in 1 .. i}
  <2>1. \A j \in 1 .. Len(list) : list[j] \in Nat
    OBVIOUS
  <2>2. 1 .. i = (1 .. (i - 1)) \cup {i} /\ 1 .. i \subseteq 1 .. Len(list)
    OBVIOUS
  <2> QED
    BY <2>1, <2>2, Zenon
<1>2. IsFirst(H, before, StoreHits) /\ state.ended \in BOOLEAN
  BY DEF RowsRead
<1>3. CASE state.ended
  <2>1. Store!TakeRow(state, c) = state
    BY <1>3, Zenon DEF Store!TakeRow
  <2>2. i - 1 # 0 /\ Cardinality(H) = StoreHits /\ \A h \in H : h <= list[i - 1]
    BY <1>3 DEF RowsRead
  <2>3. list[i - 1] < c /\ list[i - 1] \in Nat
    BY <2>2 DEF Ascends
  <2>4. \A h \in H : h \in Nat /\ h < c
    <3>1. \A h \in H : h \in Nat
      BY <1>1, <1>2 DEF IsFirst
    <3>2. ASSUME NEW h \in H PROVE h < c
      <4>1. h \in Nat /\ h <= list[i - 1] /\ list[i - 1] < c /\ list[i - 1] \in Nat /\ c \in Nat
        BY <1>1, <2>2, <2>3, <3>1
      <4> HIDE DEF c
      <4> QED
        BY <4>1
    <3> QED
      BY <3>1, <3>2
  <2>5. IsFirst(H, before \cup {c}, StoreHits)
    BY <1>2, <2>2, <2>4 DEF IsFirst
  <2> HIDE DEF H, before, c
  <2>6. \A h \in H : h <= c
    BY <1>1, <2>4
  <2>7. RowsRead(state, P, list, i, StoreHits)
    <3>1. IsFirst(state.hits, P \cup {list[j] : j \in 1 .. i}, StoreHits)
      BY <1>1, <2>5, Zenon DEF H
    <3>2. i # 0 /\ Cardinality(state.hits) = StoreHits /\ \A h \in state.hits : h <= list[i]
      BY <2>2, <2>6 DEF H, c
    <3>3. state = [hits |-> state.hits, ended |-> state.ended]
      BY DEF RowsRead
    <3> QED
      BY <1>2, <3>1, <3>2, <3>3, Zenon DEF RowsRead
  <2> QED
    BY <2>1, <2>7 DEF c
<1>4. CASE ~ state.ended
  <2>1. Store!TakeRow(state, c) = [hits |-> kept, ended |-> Cardinality(kept) = StoreHits /\ c >= Max(kept)]
    BY <1>4, SameInStore DEF Store!TakeRow
  <2> HIDE DEF H, before, c
  <2>2. IsFirst(kept, before \cup {c}, StoreHits)
    BY <1>1, <1>2, OneMoreRow
  <2>3. IsFiniteSet(kept) /\ kept \in SUBSET Nat
    BY <1>1, <2>2 DEF IsFirst
  <2> HIDE DEF kept
  <2>4. ASSUME Cardinality(kept) = StoreHits, c >= Max(kept), NEW h \in kept PROVE h <= c
    <3>1. kept # {} /\ kept \in SUBSET Int
      BY <2>3, <2>4
    <3>2. Max(kept) \in kept /\ Max(kept) >= h
      BY <2>3, <3>1, GreatestOfFinite
    <3>3. PICK m \in kept : m = Max(kept)
      BY <3>2
    <3>4. m \in Nat /\ h \in Nat /\ c \in Nat /\ m >= h /\ c >= m
      BY <1>1, <2>3, <2>4, <3>2, <3>3
    <3> QED
      BY <3>4
  <2> DEFINE next == [hits |-> kept, ended |-> Cardinality(kept) = StoreHits /\ c >= Max(kept)]
  <2>5. next.hits = kept /\ next.ended \in BOOLEAN /\ (next.ended <=> Cardinality(kept) = StoreHits /\ c >= Max(kept))
    BY Zenon
  <2>6. next = [hits |-> next.hits, ended |-> next.ended]
    OBVIOUS
  <2> HIDE DEF next
  <2>7. next.ended => i # 0 /\ Cardinality(kept) = StoreHits /\ \A h \in kept : h <= c
    BY <2>4, <2>5
  <2>8. RowsRead(next, P, list, i, StoreHits)
    BY <1>1, <2>2, <2>5, <2>6, <2>7 DEF RowsRead, c
  <2> QED
    BY <2>1, <2>8 DEF next, c
<1> QED
  BY <1>2, <1>3, <1>4

(* A loop of n turns is a function of the number of turns. *)
IsLoop(run, start, n, turn) == run = [i \in 0 .. n |-> IF i = 0 THEN start ELSE turn[<<run[i - 1], i>>]]

LEMMA LoopIs ==
    ASSUME NEW States, NEW start \in States, NEW n \in Nat,
           NEW turn \in [States \X (1 .. n) -> States]
    PROVE  \E run \in [0 .. n -> States] : IsLoop(run, start, n, turn)
<1>0. HasRun(States, start, n, turn)
  BY LoopEnds
<1>1. PICK run \in [0 .. n -> States] :
         run[0] = start /\ \A i \in 1 .. n : run[i] = turn[<<run[i - 1], i>>]
  BY <1>0 DEF HasRun
<1>2. \A i \in 0 .. n : run[i] = IF i = 0 THEN start ELSE turn[<<run[i - 1], i>>]
  BY <1>1
<1>3. run = [i \in 0 .. n |-> run[i]]
  BY <1>1
<1>4. run = [i \in 0 .. n |-> IF i = 0 THEN start ELSE turn[<<run[i - 1], i>>]]
  BY <1>2, <1>3
<1> QED
  BY <1>4 DEF IsLoop

RowsAs(state, hits, list) ==
    state = [n \in 0 .. Len(list) |->
                IF n = 0 THEN [hits |-> hits, ended |-> FALSE] ELSE Store!TakeRow(state[n - 1], list[n])]

LEMMA RowsEnd ==
    ASSUME NEW hits \in SUBSET Nat, NEW list \in Seq(Nat)
    PROVE  \E state : RowsAs(state, hits, list) /\ Store!WithRows(hits, list) = state[Len(list)].hits
<1> DEFINE States == [hits : SUBSET Nat, ended : BOOLEAN]
           start == [hits |-> hits, ended |-> FALSE]
           turn == [p \in States \X (1 .. Len(list)) |-> Store!TakeRow(p[1], list[p[2]])]
           chosen == CHOOSE state : RowsAs(state, hits, list)
<1>1. start \in States /\ Len(list) \in Nat
  OBVIOUS
<1>2. ASSUME NEW s \in States, NEW i \in 1 .. Len(list) PROVE Store!TakeRow(s, list[i]) \in States
  <2> DEFINE c == list[i]
             M == s.hits \cup {c}
             kept == IF Store!Cardinality(M) > StoreHits THEN M \ {Store!Max(M)} ELSE M
  <2>1. c \in Nat /\ s.hits \in SUBSET Nat
    OBVIOUS
  <2> HIDE DEF c
  <2>2. kept \in SUBSET Nat
    BY <2>1
  <2>3. Store!TakeRow(s, c) = IF s.ended THEN s
                              ELSE [hits |-> kept, ended |-> Store!Cardinality(kept) = StoreHits /\ c >= Store!Max(kept)]
    BY Zenon DEF Store!TakeRow
  <2> HIDE DEF kept
  <2> DEFINE full == Store!Cardinality(kept) = StoreHits /\ c >= Store!Max(kept)
  <2>4. full \in BOOLEAN
    BY Zenon
  <2> HIDE DEF full
  <2>5. [hits |-> kept, ended |-> full] \in States
    BY <2>2, <2>4
  <2> QED
    BY <2>3, <2>5, Zenon DEF c, full
<1>3. turn \in [States \X (1 .. Len(list)) -> States]
  BY <1>2
<1> HIDE DEF States
<1>3a. PICK run \in [0 .. Len(list) -> States] : IsLoop(run, start, Len(list), turn)
  <2> HIDE DEF start, turn
  <2> QED
    BY <1>1, <1>3, LoopIs
<1>4. run = [i \in 0 .. Len(list) |-> IF i = 0 THEN start ELSE turn[<<run[i - 1], i>>]]
  BY <1>3a, Zenon DEF IsLoop
<1>5. \A i \in 0 .. Len(list) :
         (IF i = 0 THEN start ELSE turn[<<run[i - 1], i>>]) = IF i = 0 THEN start ELSE Store!TakeRow(run[i - 1], list[i])
  <2> TAKE i \in 0 .. Len(list)
  <2>1. CASE i = 0
    BY <2>1
  <2>2. CASE i # 0
    <3>1. i - 1 \in 0 .. Len(list) /\ i \in 1 .. Len(list)
      BY <2>2
    <3>2. <<run[i - 1], i>> \in States \X (1 .. Len(list))
      BY <3>1
    <3> QED
      BY <2>2, <3>2
  <2> QED
    BY <2>1, <2>2
<1>6. RowsAs(run, hits, list)
  BY <1>4, <1>5 DEF RowsAs
<1>7. RowsAs(chosen, hits, list)
  BY <1>6, Zenon
<1>8. Store!WithRows(hits, list) = chosen[Len(list)].hits
  BY Zenon DEF Store!WithRows, RowsAs
<1> QED
  BY <1>7, <1>8, Zenon

(* The rows of one identifier, of which there are no more than the limit. *)
LEMMA RowsAreMerged ==
    ASSUME NEW P \in SUBSET Nat, IsFiniteSet(P), StoreHits \in Nat \ {0},
           NEW hits, IsFirst(hits, P, StoreHits),
           NEW list \in Seq(Nat), Ascends(list)
    PROVE  IsFirst(Store!WithRows(hits, list), P \cup {list[j] : j \in 1 .. Len(list)}, StoreHits)
<1>1. hits \in SUBSET Nat
  BY DEF IsFirst
<1>2. PICK state : RowsAs(state, hits, list) /\ Store!WithRows(hits, list) = state[Len(list)].hits
  BY <1>1, RowsEnd
<1>3. Len(list) \in Nat
  OBVIOUS
<1> DEFINE Good == {p \in {<<i, state[i]>> : i \in 0 .. Len(list)} : RowsRead(p[2], P, list, p[1], StoreHits)}
<1>4. \A i \in 0 .. Len(list) : <<i, state[i]>> \in Good <=> RowsRead(state[i], P, list, i, StoreHits)
  BY <1>3
<1>5. state[0] = [hits |-> hits, ended |-> FALSE]
        /\ \A i \in 1 .. Len(list) : state[i] = Store!TakeRow(state[i - 1], list[i])
  <2>1. \A i \in 0 .. Len(list) : state[i] = IF i = 0 THEN [hits |-> hits, ended |-> FALSE]
                                                   ELSE Store!TakeRow(state[i - 1], list[i])
    BY <1>2, Zenon DEF RowsAs
  <2>2. 0 \in 0 .. Len(list) /\ \A i \in 1 .. Len(list) : i \in 0 .. Len(list) /\ i # 0
    BY <1>3
  <2> QED
    BY <2>1, <2>2, Zenon
<1>6. <<0, state[0]>> \in Good
  <2>1. P \cup {list[j] : j \in 1 .. 0} = P
    OBVIOUS
  <2>2. RowsRead([hits |-> hits, ended |-> FALSE], P, list, 0, StoreHits)
    BY <2>1 DEF RowsRead
  <2> HIDE DEF Good
  <2>3. 0 \in 0 .. Len(list)
    BY <1>3
  <2>4. RowsRead(state[0], P, list, 0, StoreHits)
    BY <1>5, <2>2, Zenon
  <2> QED
    BY <1>4, <2>3, <2>4, Zenon
<1>7. \A i \in 1 .. Len(list) : <<i - 1, state[i - 1]>> \in Good => <<i, state[i]>> \in Good
  <2> HIDE DEF Good
  <2> SUFFICES ASSUME NEW i \in 1 .. Len(list), <<i - 1, state[i - 1]>> \in Good PROVE <<i, state[i]>> \in Good
    OBVIOUS
  <2>1. i - 1 \in 0 .. Len(list) /\ i \in 0 .. Len(list)
    BY <1>3
  <2>2. RowsRead(state[i - 1], P, list, i - 1, StoreHits)
    BY <1>4, <2>1
  <2>3. RowsRead(state[i], P, list, i, StoreHits)
    BY <1>5, <2>2, RowIsRead
  <2> QED
    BY <1>4, <2>1, <2>3
<1>8. <<Len(list), state[Len(list)]>> \in Good
  <2> HIDE DEF Good
  <2>1. Len(list) \in 0 .. Len(list)
    BY <1>3
  <2> QED
    BY <1>3, <1>6, <1>7, <2>1, LoopKeeps
<1> QED
  BY <1>2, <1>3, <1>4, <1>8 DEF RowsRead

(* The rows of an identifier that the query may see, and those of the first n
   identifiers of a list that are not too common. *)
Scope(id) == {c \in Store!Matching(id) : Store!Granted(c) /\ Store!EligibleChunk(c)}
Scopes(ids, common, n) == UNION {Scope(ids[i]) : i \in {j \in 1 .. n : ids[j] \notin common}}

LEMMA ScopeHolds ==
    ASSUME NEW id
    PROVE  /\ Store!Matching(id) \in SUBSET Nat /\ IsFiniteSet(Store!Matching(id))
           /\ Scope(id) \in SUBSET Nat /\ IsFiniteSet(Scope(id))
           /\ Cardinality(Scope(id)) \in Nat /\ Cardinality(Store!Matching(id)) \in Nat
           /\ Cardinality(Scope(id)) <= Cardinality(Store!Matching(id))
<1>1. StoreLast \in Nat
  BY RetrievalIsBounded
<1>2. IsFiniteSet(1 .. StoreLast) /\ 1 .. StoreLast \subseteq Nat
  BY <1>1, FS_Interval
<1>3. Store!Matching(id) \subseteq 1 .. StoreLast /\ Scope(id) \subseteq Store!Matching(id)
  BY DEF Store!Matching, Store!ChunkIds, Scope
<1> QED
  BY <1>2, <1>3, FS_Subset, FS_CardinalityType

(* Nothing is cut from the rows of an identifier that is not too common. *)
LEMMA ScopeIsRead ==
    ASSUME NEW id, Cardinality(Store!Matching(id)) <= StoreHits
    PROVE  /\ Store!ScopedRows(id) \in Seq(Nat) /\ Ascends(Store!ScopedRows(id))
           /\ {Store!ScopedRows(id)[j] : j \in 1 .. Len(Store!ScopedRows(id))} = Scope(id)
<1> DEFINE list == Store!ScopedRows(id)
<1>1. StoreHits \in Nat /\ Cardinality(Scope(id)) <= StoreHits
  BY ScopeHolds, RetrievalIsBounded
<1>2. list = Store!FirstOf(Store!InOrder(Scope(id)), StoreHits)
  BY Zenon DEF Store!ScopedRows, Scope
<1> HIDE DEF list
<1>3. list \in Seq(Scope(id)) /\ Ascends(list) /\ Range(list) = Scope(id)
  BY <1>1, <1>2, ScopeHolds, PrefixHolds
<1>4. list \in Seq(Nat)
  BY <1>3, ScopeHolds
<1>5. {list[j] : j \in 1 .. Len(list)} = Range(list)
  BY <1>3 DEF Range
<1> QED
  BY <1>3, <1>4, <1>5 DEF list

HitsAs(hits, ids, common) ==
    hits = [n \in 0 .. Len(ids) |->
               IF n = 0 THEN {}
               ELSE IF ids[n] \in common THEN hits[n - 1] ELSE Store!WithRows(hits[n - 1], Store!ScopedRows(ids[n]))]

LEMMA HitsEnd ==
    ASSUME NEW S, NEW ids \in Seq(S), NEW common,
           \A id \in S \ common : Cardinality(Store!Matching(id)) <= StoreHits
    PROVE  \E hits : HitsAs(hits, ids, common) /\ Store!IndexedHits(ids, common) = hits[Len(ids)]
<1> DEFINE States == {H \in SUBSET Nat : IsFiniteSet(H) /\ Cardinality(H) <= StoreHits}
           start == {}
           next(H, i) == IF ids[i] \in common THEN H ELSE Store!WithRows(H, Store!ScopedRows(ids[i]))
           turn == [p \in States \X (1 .. Len(ids)) |-> next(p[1], p[2])]
           chosen == CHOOSE hits : HitsAs(hits, ids, common)
<1>1. start \in States /\ Len(ids) \in Nat /\ StoreHits \in Nat \ {0}
  BY FS_EmptySet, RetrievalIsBounded
<1>2. ASSUME NEW H \in States, NEW i \in 1 .. Len(ids) PROVE next(H, i) \in States
  <2>1. CASE ids[i] \in common
    BY <2>1
  <2>2. CASE ids[i] \notin common
    <3> DEFINE list == Store!ScopedRows(ids[i])
    <3>1. Cardinality(Store!Matching(ids[i])) <= StoreHits
      BY <2>2
    <3>2. list \in Seq(Nat) /\ Ascends(list)
      BY <3>1, ScopeIsRead
    <3>3. IsFirst(H, H, StoreHits)
      BY DEF IsFirst
    <3> HIDE DEF list
    <3>4. IsFirst(Store!WithRows(H, list), H \cup {list[j] : j \in 1 .. Len(list)}, StoreHits)
      BY <1>1, <3>2, <3>3, RowsAreMerged
    <3>5. H \cup {list[j] : j \in 1 .. Len(list)} \subseteq Nat
      <4>1. \A j \in 1 .. Len(list) : list[j] \in Nat
        BY <3>2
      <4>2. H \subseteq Nat
        OBVIOUS
      <4> QED
        BY <4>1, <4>2, Zenon
    <3>6. Store!WithRows(H, list) \in States
      BY <3>4, <3>5 DEF IsFirst
    <3> QED
      BY <2>2, <3>6 DEF list
  <2> QED
    BY <2>1, <2>2
<1> HIDE DEF next
<1>3. turn \in [States \X (1 .. Len(ids)) -> States]
  BY <1>2
<1> HIDE DEF States
<1>4. PICK run \in [0 .. Len(ids) -> States] : IsLoop(run, start, Len(ids), turn)
  <2> HIDE DEF start, turn
  <2> QED
    BY <1>1, <1>3, LoopIs
<1>5. run = [i \in 0 .. Len(ids) |-> IF i = 0 THEN start ELSE turn[<<run[i - 1], i>>]]
  BY <1>4, Zenon DEF IsLoop
<1>6. \A i \in 0 .. Len(ids) :
         (IF i = 0 THEN start ELSE turn[<<run[i - 1], i>>]) = IF i = 0 THEN {} ELSE next(run[i - 1], i)
  <2> TAKE i \in 0 .. Len(ids)
  <2>1. CASE i = 0
    BY <2>1
  <2>2. CASE i # 0
    <3>1. i - 1 \in 0 .. Len(ids) /\ i \in 1 .. Len(ids)
      BY <2>2
    <3>2. <<run[i - 1], i>> \in States \X (1 .. Len(ids))
      BY SMTT(30), <3>1
    <3> QED
      BY <2>2, <3>2
  <2> QED
    BY <2>1, <2>2
<1>7. HitsAs(run, ids, common)
  BY <1>5, <1>6 DEF HitsAs, next
<1>8. HitsAs(chosen, ids, common)
  BY <1>7, Zenon
<1>9. Store!IndexedHits(ids, common) = chosen[Len(ids)]
  BY Zenon DEF Store!IndexedHits, HitsAs
<1> QED
  BY <1>8, <1>9, Zenon

(* The kernel leg tells the first chunks that the query may see of those with
   an identifier that is not too common. *)
LEMMA HitsAreFirst ==
    ASSUME NEW S, NEW ids \in Seq(S), NEW common,
           \A id \in S \ common : Cardinality(Store!Matching(id)) <= StoreHits
    PROVE  IsFirst(Store!IndexedHits(ids, common), Scopes(ids, common, Len(ids)), StoreHits)
<1>1. PICK hits : HitsAs(hits, ids, common) /\ Store!IndexedHits(ids, common) = hits[Len(ids)]
  BY HitsEnd
<1>2. Len(ids) \in Nat /\ StoreHits \in Nat \ {0}
  BY RetrievalIsBounded
<1>3. hits[0] = {} /\ \A i \in 1 .. Len(ids) : hits[i] = IF ids[i] \in common THEN hits[i - 1]
                                                       ELSE Store!WithRows(hits[i - 1], Store!ScopedRows(ids[i]))
  <2>1. \A n \in 0 .. Len(ids) :
          hits[n] = IF n = 0 THEN {}
                    ELSE IF ids[n] \in common THEN hits[n - 1] ELSE Store!WithRows(hits[n - 1], Store!ScopedRows(ids[n]))
    BY <1>1, Zenon DEF HitsAs
  <2>2. 0 \in 0 .. Len(ids) /\ \A i \in 1 .. Len(ids) : i \in 0 .. Len(ids) /\ i # 0
    BY <1>2
  <2> QED
    BY <2>1, <2>2, Zenon
<1> DEFINE Good == {p \in {<<i, hits[i]>> : i \in 0 .. Len(ids)} : IsFirst(p[2], Scopes(ids, common, p[1]), StoreHits)}
<1>4. \A i \in 0 .. Len(ids) : <<i, hits[i]>> \in Good <=> IsFirst(hits[i], Scopes(ids, common, i), StoreHits)
  BY <1>2
<1> HIDE DEF Good
<1>5. <<0, hits[0]>> \in Good
  <2>1. Scopes(ids, common, 0) = {}
    BY DEF Scopes
  <2>2. IsFirst({}, {}, StoreHits)
    BY <1>2, FS_EmptySet DEF IsFirst
  <2>3. 0 \in 0 .. Len(ids)
    BY <1>2
  <2> QED
    BY <1>3, <1>4, <2>1, <2>2, <2>3
<1>6. ASSUME NEW i \in 1 .. Len(ids), <<i - 1, hits[i - 1]>> \in Good PROVE <<i, hits[i]>> \in Good
  <2>1. i - 1 \in 0 .. Len(ids) /\ i \in 0 .. Len(ids) /\ 1 .. i = (1 .. (i - 1)) \cup {i}
    BY <1>2
  <2>2. IsFirst(hits[i - 1], Scopes(ids, common, i - 1), StoreHits)
    BY <1>4, <1>6, <2>1
  <2>3. IsFirst(hits[i], Scopes(ids, common, i), StoreHits)
    <3>1. CASE ids[i] \in common
      <4>1. {j \in 1 .. i : ids[j] \notin common} = {j \in 1 .. (i - 1) : ids[j] \notin common}
        BY <2>1, <3>1, Zenon
      <4> QED
        BY <1>3, <2>2, <3>1, <4>1, Zenon DEF Scopes
    <3>2. CASE ids[i] \notin common
      <4> DEFINE P == Scopes(ids, common, i - 1)
                 list == Store!ScopedRows(ids[i])
      <4>1. Cardinality(Store!Matching(ids[i])) <= StoreHits
        BY <3>2
      <4>2. list \in Seq(Nat) /\ Ascends(list) /\ {list[j] : j \in 1 .. Len(list)} = Scope(ids[i])
        BY <4>1, ScopeIsRead
      <4>3. Scopes(ids, common, i) = P \cup Scope(ids[i])
        <5>1. {j \in 1 .. i : ids[j] \notin common} = {j \in 1 .. (i - 1) : ids[j] \notin common} \cup {i}
          BY <2>1, <3>2, Zenon
        <5> QED
          BY <5>1, Zenon DEF Scopes
      <4>4. P \in SUBSET Nat /\ IsFiniteSet(P)
        <5>1. \A id : Scope(id) \subseteq 1 .. StoreLast
          BY DEF Scope, Store!Matching, Store!ChunkIds
        <5>2. P \subseteq 1 .. StoreLast
          BY <5>1, Zenon DEF Scopes
        <5>3. IsFiniteSet(1 .. StoreLast) /\ 1 .. StoreLast \subseteq Nat
          <6>1. StoreLast \in Nat
            BY RetrievalIsBounded
          <6> QED
            BY <6>1, FS_Interval
        <5> HIDE DEF P
        <5> QED
          BY <5>2, <5>3, FS_Subset
      <4>5. hits[i] = Store!WithRows(hits[i - 1], list)
        BY <1>3, <3>2
      <4> HIDE DEF P, list
      <4>6. IsFirst(Store!WithRows(hits[i - 1], list), P \cup {list[j] : j \in 1 .. Len(list)}, StoreHits)
        BY <1>2, <2>2, <4>2, <4>4, RowsAreMerged DEF P
      <4> QED
        BY <4>2, <4>3, <4>5, <4>6
    <3> QED
      BY <3>1, <3>2
  <2> QED
    BY <1>4, <2>1, <2>3
<1>7. <<Len(ids), hits[Len(ids)]>> \in Good
  <2>1. Len(ids) \in 0 .. Len(ids)
    BY <1>2
  <2> QED
    BY <1>2, <1>5, <1>6, <2>1, LoopKeeps
<1> QED
  BY <1>1, <1>2, <1>4, <1>7

LEMMA OneMore ==
    ASSUME NEW S, NEW list \in Seq(S), NEW c \in S
    PROVE  /\ Append(list, c) \in Seq(S) /\ Len(Append(list, c)) = Len(list) + 1
           /\ Range(Append(list, c)) = Range(list) \cup {c}
<1>1. Append(list, c) \in Seq(S) /\ Len(Append(list, c)) = Len(list) + 1 /\ Len(list) \in Nat
  OBVIOUS
<1>2. \A i \in 1 .. Len(list) : Append(list, c)[i] = list[i]
  OBVIOUS
<1>3. Append(list, c)[Len(list) + 1] = c
  OBVIOUS
<1>4. 1 .. (Len(list) + 1) = (1 .. Len(list)) \cup {Len(list) + 1}
  BY <1>1
<1>5. DOMAIN list = 1 .. Len(list) /\ DOMAIN Append(list, c) = 1 .. (Len(list) + 1)
  BY <1>1
<1>6. \A x : x \in Range(Append(list, c)) <=> x \in Range(list) \/ x = c
  BY <1>2, <1>3, <1>4, <1>5, Zenon DEF Range
<1> QED
  BY <1>1, <1>6

(* What a list is extended to: all of it, and what is added until it is full. *)
Extends(list, hits, news, limit) ==
    /\ Range(hits) \subseteq Range(list) /\ Len(hits) <= Len(list)
    /\ Range(list) \subseteq Range(hits) \cup news
    /\ Len(list) < limit => news \subseteq Range(list)

ListAs(list, hits, more) ==
    list = [n \in 0 .. Len(more) |->
               IF n = 0 THEN hits
               ELSE IF Len(list[n - 1]) >= StoreHits \/ more[n] \in Range(list[n - 1]) THEN list[n - 1]
               ELSE Append(list[n - 1], more[n])]

LEMMA ListEnds ==
    ASSUME NEW S, NEW hits \in Seq(S), NEW more \in Seq(S)
    PROVE  \E list : ListAs(list, hits, more) /\ Store!Extended(hits, more) = list[Len(more)]
<1> DEFINE next(l, i) == IF Len(l) >= StoreHits \/ more[i] \in Range(l) THEN l ELSE Append(l, more[i])
           turn == [p \in Seq(S) \X (1 .. Len(more)) |-> next(p[1], p[2])]
           chosen == CHOOSE list : ListAs(list, hits, more)
<1>1. Len(more) \in Nat
  OBVIOUS
<1>2. \A l \in Seq(S), i \in 1 .. Len(more) : next(l, i) \in Seq(S)
  <2>1. \A i \in 1 .. Len(more) : more[i] \in S
    OBVIOUS
  <2> QED
    BY <2>1, OneMore
<1> HIDE DEF next
<1>3. turn \in [Seq(S) \X (1 .. Len(more)) -> Seq(S)]
  BY <1>2
<1>4. PICK run \in [0 .. Len(more) -> Seq(S)] : IsLoop(run, hits, Len(more), turn)
  <2> HIDE DEF turn
  <2> QED
    BY <1>1, <1>3, LoopIs
<1>5. run = [i \in 0 .. Len(more) |-> IF i = 0 THEN hits ELSE turn[<<run[i - 1], i>>]]
  BY <1>4, Zenon DEF IsLoop
<1>6. \A i \in 0 .. Len(more) :
         (IF i = 0 THEN hits ELSE turn[<<run[i - 1], i>>]) = IF i = 0 THEN hits ELSE next(run[i - 1], i)
  <2> TAKE i \in 0 .. Len(more)
  <2>1. CASE i = 0
    BY <2>1
  <2>2. CASE i # 0
    <3>1. i - 1 \in 0 .. Len(more) /\ i \in 1 .. Len(more)
      BY <2>2
    <3>2. <<run[i - 1], i>> \in Seq(S) \X (1 .. Len(more))
      BY SMTT(30), <3>1
    <3> QED
      BY <2>2, <3>2
  <2> QED
    BY <2>1, <2>2
<1>7. ListAs(run, hits, more)
  BY <1>5, <1>6 DEF ListAs, next
<1>8. ListAs(chosen, hits, more)
  BY <1>7, Zenon
<1>9. Store!Extended(hits, more) = chosen[Len(more)]
  BY SameInStore, Zenon DEF Store!Extended, ListAs
<1> QED
  BY <1>8, <1>9, Zenon

LEMMA ExtendedHolds ==
    ASSUME NEW S, NEW hits \in Seq(S), NEW more \in Seq(S)
    PROVE  /\ Store!Extended(hits, more) \in Seq(S)
           /\ Extends(Store!Extended(hits, more), hits, Range(more), StoreHits)
<1>1. PICK list : ListAs(list, hits, more) /\ Store!Extended(hits, more) = list[Len(more)]
  BY ListEnds
<1>2. Len(more) \in Nat /\ StoreHits \in Nat \ {0}
  BY RetrievalIsBounded
<1>3. list[0] = hits /\ \A i \in 1 .. Len(more) :
         list[i] = IF Len(list[i - 1]) >= StoreHits \/ more[i] \in Range(list[i - 1]) THEN list[i - 1]
                   ELSE Append(list[i - 1], more[i])
  <2>1. \A n \in 0 .. Len(more) :
          list[n] = IF n = 0 THEN hits
                    ELSE IF Len(list[n - 1]) >= StoreHits \/ more[n] \in Range(list[n - 1]) THEN list[n - 1]
                    ELSE Append(list[n - 1], more[n])
    BY <1>1, Zenon DEF ListAs
  <2>2. 0 \in 0 .. Len(more) /\ \A i \in 1 .. Len(more) : i \in 0 .. Len(more) /\ i # 0
    BY <1>2
  <2> QED
    BY <2>1, <2>2, Zenon
<1> DEFINE read(i) == {more[j] : j \in 1 .. i}
           Good == {p \in {<<i, list[i]>> : i \in 0 .. Len(more)} :
                      p[2] \in Seq(S) /\ Extends(p[2], hits, read(p[1]), StoreHits)}
<1>4. \A i \in 0 .. Len(more) : <<i, list[i]>> \in Good <=> list[i] \in Seq(S) /\ Extends(list[i], hits, read(i), StoreHits)
  BY <1>2
<1> HIDE DEF Good
<1>5. <<0, list[0]>> \in Good
  <2>1. read(0) = {}
    OBVIOUS
  <2>2. Extends(hits, hits, {}, StoreHits)
    <3>1. Len(hits) \in Nat
      OBVIOUS
    <3> QED
      BY <3>1 DEF Extends
  <2>3. 0 \in 0 .. Len(more)
    BY <1>2
  <2> HIDE DEF read
  <2> QED
    BY <1>3, <1>4, <2>1, <2>2, <2>3
<1>6. ASSUME NEW i \in 1 .. Len(more), <<i - 1, list[i - 1]>> \in Good PROVE <<i, list[i]>> \in Good
  <2> DEFINE l == list[i - 1]
             c == more[i]
  <2>1. i - 1 \in 0 .. Len(more) /\ i \in 0 .. Len(more) /\ 1 .. i = (1 .. (i - 1)) \cup {i} /\ c \in S
    BY <1>2
  <2>2. read(i) = read(i - 1) \cup {c}
    BY <2>1, Zenon
  <2> HIDE DEF read
  <2>3. l \in Seq(S) /\ Extends(l, hits, read(i - 1), StoreHits)
    BY <1>4, <1>6, <2>1
  <2>4. list[i] = IF Len(l) >= StoreHits \/ c \in Range(l) THEN l ELSE Append(l, c)
    BY <1>3
  <2>5. Len(l) \in Nat /\ Len(hits) \in Nat
    BY <2>3
  <2> HIDE DEF l, c
  <2>6. CASE Len(l) >= StoreHits \/ c \in Range(l)
    <3>1. Extends(l, hits, read(i), StoreHits)
      BY <1>2, <2>2, <2>3, <2>5, <2>6 DEF Extends
    <3> QED
      BY <1>4, <2>1, <2>3, <2>4, <2>6, <3>1
  <2>7. CASE ~ (Len(l) >= StoreHits \/ c \in Range(l))
    <3> DEFINE m == Append(l, c)
    <3>1. m \in Seq(S) /\ Len(m) = Len(l) + 1 /\ Range(m) = Range(l) \cup {c}
      BY <2>1, <2>3, OneMore
    <3> HIDE DEF m
    <3>2. Len(l) < StoreHits
      BY <1>2, <2>5, <2>7
    <3>3. Extends(m, hits, read(i), StoreHits)
      BY <2>2, <2>3, <2>5, <3>1, <3>2 DEF Extends
    <3> QED
      BY <1>4, <2>1, <2>4, <2>7, <3>1, <3>3 DEF m
  <2> QED
    BY <2>6, <2>7
<1>7. <<Len(more), list[Len(more)]>> \in Good
  <2>1. Len(more) \in 0 .. Len(more)
    BY <1>2
  <2> QED
    BY <1>2, <1>5, <1>6, <2>1, LoopKeeps
<1>8. read(Len(more)) = Range(more)
  BY DEF Range
<1> HIDE DEF read
<1> QED
  BY <1>1, <1>2, <1>4, <1>7, <1>8

(* The builders: whatever they verified, and what the marker says, is written
   as this build extracts it. *)
Written(c) == rows[c].identifiers = StoreExtract[c]
Derived == \A c \in 1 .. StoreLast : Written(c)

BuildersInv ==
    /\ builder = [b \in StoreBuilders |-> builder[b]]
    /\ \A b \in StoreBuilders :
         /\ builder[b].at \in 0 .. StoreLast
         /\ builder[b].step = "upsert" => builder[b].at < StoreLast
         /\ builder[b].step = "verify" => \A c \in 1 .. builder[b].at : Written(c)

MarkersInv ==
    /\ marker = [g \in {"old", "new"} |-> marker[g]]
    /\ marker["old"] = Store!Marker(1, TRUE)
    /\ Store!Ready("new") => Derived
    /\ payloads \subseteq 1 .. StoreLast

(* A batch is the next chunks, if there are any. *)
LEMMA NextBatchIs ==
    ASSUME NEW at \in 0 .. StoreLast
    PROVE  LET batch == Store!NextBatch(at) IN
           /\ batch \subseteq 1 .. StoreLast
           /\ batch = {} <=> at = StoreLast
           /\ batch # {} => /\ Store!Max(batch) \in (at + 1) .. StoreLast
                            /\ 1 .. Store!Max(batch) = (1 .. at) \cup batch
<1>1. StoreLast \in Nat /\ StoreBatch \in Nat \ {0} /\ at \in Nat
  BY RetrievalIsBounded
<1>2. PICK m \in Nat : m = (IF at + StoreBatch <= StoreLast THEN at + StoreBatch ELSE StoreLast)
  BY <1>1
<1>3. Store!Min({at + StoreBatch, StoreLast}) = m
  BY <1>1, <1>2 DEF Store!Min
<1>4. Store!NextBatch(at) = (at + 1) .. m
  BY <1>3 DEF Store!NextBatch
<1>5. m <= StoreLast /\ at <= m /\ (at = m <=> at = StoreLast)
  BY <1>1, <1>2
<1>6. at < m => Store!Max((at + 1) .. m) = m
  BY <1>1, <1>2 DEF Store!Max
<1> QED
  BY <1>1, <1>4, <1>5, <1>6

(* A batch that is recorded is written as this build extracts it. *)
LEMMA RecordedIs ==
    ASSUME NEW batch \in SUBSET (1 .. StoreLast), ~ Store!Conflicts(batch), rows' = Store!Recorded(batch),
           NEW c \in 1 .. StoreLast, c \in batch \/ Written(c)
    PROVE  Written(c)'
<1>1. rows'[c] = IF c \in batch THEN [input |-> TRUE, identifiers |-> Store!Sole(Store!Identifiers(rows[c], c))]
                 ELSE rows[c]
  BY Zenon DEF Store!Recorded, Store!ChunkIds
<1>2. CASE c \in batch
  <2>1. Store!Identifiers(rows[c], c) # {}
    BY <1>2, Zenon DEF Store!Conflicts, Store!Nothing
  <2>2. Store!Identifiers(rows[c], c) = {StoreExtract[c]}
    BY <2>1, Zenon DEF Store!Identifiers, Store!Nothing
  <2>3. Store!Sole({StoreExtract[c]}) = StoreExtract[c]
    BY Zenon DEF Store!Sole
  <2> QED
    BY <1>1, <1>2, <2>2, <2>3 DEF Written
<1>3. CASE c \notin batch
  BY <1>1, <1>3 DEF Written
<1> QED
  BY <1>2, <1>3

(* One builder moves, and nothing that was written is lost. *)
LEMMA MoveKeeps ==
    ASSUME BuildersInv, NEW b \in StoreBuilders, NEW step, NEW at \in 0 .. StoreLast, Store!Moves(b, step, at),
           \A c \in 1 .. StoreLast : Written(c) => Written(c)',
           step = "upsert" => at < StoreLast,
           step = "verify" => \A c \in 1 .. at : Written(c)'
    PROVE  BuildersInv'
<1>1. builder' = [o \in StoreBuilders |-> IF o = b THEN [step |-> step, at |-> at] ELSE builder[o]]
  BY DEF BuildersInv, Store!Moves
<1>2. builder' = [o \in StoreBuilders |-> builder'[o]]
  BY <1>1
<1>3. ASSUME NEW o \in StoreBuilders
      PROVE  /\ builder'[o].at \in 0 .. StoreLast
             /\ builder'[o].step = "upsert" => builder'[o].at < StoreLast
             /\ builder'[o].step = "verify" => \A c \in 1 .. builder'[o].at : Written(c)'
  <2>1. CASE o = b
    <3>1. builder'[o].step = step /\ builder'[o].at = at
      BY <1>1, <2>1
    <3> QED
      BY <3>1
  <2>2. CASE o # b
    <3>1. builder'[o] = builder[o]
      BY <1>1, <2>2
    <3>2. builder[o].at \in 0 .. StoreLast /\ StoreLast \in Nat
      BY RetrievalIsBounded DEF BuildersInv
    <3>3. \A c \in 1 .. builder[o].at : c \in 1 .. StoreLast
      BY <3>2
    <3> QED
      BY <3>1, <3>3 DEF BuildersInv
  <2> QED
    BY <2>1, <2>2
<1> QED
  BY <1>2, <1>3 DEF BuildersInv

BuildersStep(b) ==
    \/ Store!Begin(b) \/ Store!RecordMembers(b) \/ Store!RecordBatch(b) \/ Store!Upsert(b) \/ Store!ResumeAfter(b)
    \/ Store!VerifyMembers(b) \/ Store!VerifyBatch(b) \/ Store!Complete(b) \/ Store!Restart(b)

LEMMA BuilderSteps ==
    ASSUME BuildersInv, MarkersInv, NEW b \in StoreBuilders, BuildersStep(b)
    PROVE  /\ BuildersInv' /\ MarkersInv'
           /\ Store!Ready("new") => Store!Ready("new")'
           /\ UNCHANGED route
<1>1. /\ StoreLast \in Nat /\ builder[b].at \in 0 .. StoreLast
      /\ builder[b].step = "upsert" => builder[b].at < StoreLast
      /\ builder[b].step = "verify" => \A c \in 1 .. builder[b].at : Written(c)
  BY RetrievalIsBounded DEF BuildersInv
<1>2. 0 \in 0 .. StoreLast /\ \A c : c \notin 1 .. 0
  BY <1>1
<1>3. ASSUME UNCHANGED rows, UNCHANGED marker, payloads' \subseteq 1 .. StoreLast
      PROVE  /\ \A c \in 1 .. StoreLast : Written(c) => Written(c)'
             /\ MarkersInv' /\ (Store!Ready("new") => Store!Ready("new")')
  BY <1>3 DEF Written, MarkersInv, Derived, Store!Ready
<1>4. payloads \subseteq 1 .. StoreLast
  BY DEF MarkersInv
<1>5. CASE Store!Begin(b)
  <2>1. UNCHANGED <<rows, payloads, route>> /\ \E step \in {"failed", "members"} : Store!Moves(b, step, 0)
    BY <1>5 DEF Store!Begin
  <2>2. \A c \in 1 .. StoreLast : Written(c) => Written(c)'
    BY <2>1 DEF Written
  <2>3. BuildersInv'
    <3>1. PICK step \in {"failed", "members"} : Store!Moves(b, step, 0)
      BY <2>1
    <3> QED
      BY <1>2, <2>2, <3>1, MoveKeeps
  <2>4. UNCHANGED marker \/ (marker["new"] = {} /\ marker' = [marker EXCEPT !["new"] = Store!Marker(Store!Profile, FALSE)])
    BY <1>5 DEF Store!Begin, Store!Nothing
  <2>5. CASE UNCHANGED marker
    BY <1>3, <1>4, <2>1, <2>3, <2>5
  <2>6. CASE marker["new"] = {} /\ marker' = [marker EXCEPT !["new"] = Store!Marker(Store!Profile, FALSE)]
    <3>1. /\ marker' = [g \in {"old", "new"} |-> marker'[g]] /\ marker'["old"] = marker["old"]
          /\ marker'["new"] = Store!Marker(Store!Profile, FALSE)
      BY <2>6 DEF MarkersInv
    <3>2. Store!Marker(Store!Profile, FALSE) # Store!Marker(Store!Profile, TRUE) /\ Store!Marker(Store!Profile, TRUE) # {}
      <4> DEFINE told(ready) == [profile |-> Store!Profile, ready |-> ready]
      <4>1. told(FALSE).ready = FALSE /\ told(TRUE).ready = TRUE
        OBVIOUS
      <4>2. told(FALSE) # told(TRUE)
        BY <4>1, Zenon
      <4> HIDE DEF told
      <4>3. {told(FALSE)} # {told(TRUE)} /\ {told(TRUE)} # {}
        BY <4>2
      <4> QED
        BY <4>3, Zenon DEF told, Store!Marker
    <3> QED
      BY <2>1, <2>3, <2>6, <3>1, <3>2 DEF MarkersInv, Store!Ready
  <2> QED
    BY <2>4, <2>5, <2>6
<1>6. CASE Store!RecordMembers(b) \/ Store!ResumeAfter(b) \/ Store!VerifyMembers(b) \/ Store!Restart(b)
  <2>1. UNCHANGED <<rows, marker, payloads, route>>
    BY <1>6 DEF Store!RecordMembers, Store!ResumeAfter, Store!VerifyMembers, Store!Restart
  <2>2. \E step \in {"write", "failed", "verify", "begin"}, at \in 0 .. StoreLast :
           Store!Moves(b, step, at) /\ (step = "verify" => at = 0)
    <3>1. CASE Store!RecordMembers(b) \/ Store!VerifyMembers(b) \/ Store!Restart(b)
      BY <1>2, <3>1 DEF Store!RecordMembers, Store!VerifyMembers, Store!Restart
    <3>2. CASE Store!ResumeAfter(b)
      <4>1. PICK at \in {builder[o].at : o \in StoreBuilders \ {b}} : Store!Moves(b, "write", at)
        BY <3>2 DEF Store!ResumeAfter
      <4>2. at \in 0 .. StoreLast
        BY DEF BuildersInv
      <4> QED
        BY <4>1, <4>2
    <3> QED
      BY <1>6, <3>1, <3>2
  <2>3. PICK step \in {"write", "failed", "verify", "begin"}, at \in 0 .. StoreLast :
           Store!Moves(b, step, at) /\ (step = "verify" => at = 0)
    BY <2>2
  <2>4. BuildersInv'
    <3>1. step # "upsert" /\ (step = "verify" => \A c \in 1 .. at : Written(c)')
      BY <1>2, <2>3
    <3>2. \A c \in 1 .. StoreLast : Written(c) => Written(c)'
      BY <1>3, <1>4, <2>1
    <3> QED
      BY <2>3, <3>1, <3>2, MoveKeeps
  <2> QED
    BY <1>3, <1>4, <2>1, <2>4
<1>7. CASE Store!RecordBatch(b) \/ Store!VerifyBatch(b)
  <2> DEFINE batch == Store!NextBatch(builder[b].at)
             next == Store!Max(batch)
  <2>1. /\ batch \in SUBSET (1 .. StoreLast)
        /\ batch = {} <=> builder[b].at = StoreLast
        /\ batch # {} => next \in (builder[b].at + 1) .. StoreLast /\ 1 .. next = (1 .. builder[b].at) \cup batch
    BY <1>1, NextBatchIs
  <2>2. UNCHANGED <<marker, payloads, route>>
    BY <1>7 DEF Store!RecordBatch, Store!VerifyBatch
  <2>3. UNCHANGED rows \/ (~ Store!Conflicts(batch) /\ rows' = Store!Recorded(batch))
    BY <1>7, Zenon DEF Store!RecordBatch, Store!VerifyBatch
  <2>4. \/ \E step \in {"verify_members", "failed"} : Store!Moves(b, step, 0)
        \/ batch # {} /\ Store!Moves(b, "upsert", builder[b].at)
        \/ /\ builder[b].step = "verify" /\ batch # {} /\ ~ Store!Conflicts(batch) /\ rows' = Store!Recorded(batch)
           /\ Store!Moves(b, "verify", next)
    BY <1>7, Zenon DEF Store!RecordBatch, Store!VerifyBatch
  <2> HIDE DEF batch, next
  <2>5. \A c \in 1 .. StoreLast : Written(c) => Written(c)'
    <3>1. CASE UNCHANGED rows
      BY <3>1 DEF Written
    <3>2. CASE ~ Store!Conflicts(batch) /\ rows' = Store!Recorded(batch)
      BY <2>1, <3>2, RecordedIs
    <3> QED
      BY <2>3, <3>1, <3>2
  <2>6. MarkersInv' /\ (Store!Ready("new") => Store!Ready("new")')
    BY <2>2, <2>5 DEF MarkersInv, Derived, Store!Ready
  <2>7. BuildersInv'
    <3>1. CASE \E step \in {"verify_members", "failed"} : Store!Moves(b, step, 0)
      <4>1. PICK step \in {"verify_members", "failed"} : Store!Moves(b, step, 0)
        BY <3>1
      <4> QED
        BY <1>2, <2>5, <4>1, MoveKeeps
    <3>2. CASE batch # {} /\ Store!Moves(b, "upsert", builder[b].at)
      <4>1. builder[b].at < StoreLast
        BY <1>1, <2>1, <3>2
      <4> QED
        BY <1>1, <2>5, <3>2, <4>1, MoveKeeps
    <3>3. CASE /\ builder[b].step = "verify" /\ batch # {} /\ ~ Store!Conflicts(batch) /\ rows' = Store!Recorded(batch)
               /\ Store!Moves(b, "verify", next)
      <4>1. next \in 0 .. StoreLast
        BY <1>1, <2>1, <3>3
      <4>2. \A c \in 1 .. next : c \in 1 .. StoreLast /\ (c \in batch \/ Written(c))
        BY <1>1, <2>1, <3>3, <4>1
      <4>3. \A c \in 1 .. next : Written(c)'
        BY <2>1, <3>3, <4>2, RecordedIs
      <4> QED
        BY <2>5, <3>3, <4>1, <4>3, MoveKeeps
    <3> QED
      BY <2>4, <3>1, <3>2, <3>3
  <2> QED
    BY <2>2, <2>6, <2>7
<1>8. CASE Store!Upsert(b)
  <2> DEFINE batch == Store!NextBatch(builder[b].at)
             next == Store!Max(batch)
  <2>1. /\ builder[b].at < StoreLast /\ UNCHANGED <<rows, marker, route>>
        /\ payloads' = payloads \cup batch /\ Store!Moves(b, "write", next)
    BY <1>1, <1>8 DEF Store!Upsert
  <2>2. batch \subseteq 1 .. StoreLast /\ next \in (builder[b].at + 1) .. StoreLast
    <3>1. builder[b].at # StoreLast
      BY <1>1, <2>1
    <3> QED
      BY <1>1, <3>1, NextBatchIs
  <2> HIDE DEF batch, next
  <2>3. payloads' \subseteq 1 .. StoreLast /\ next \in 0 .. StoreLast
    <3>1. payloads' \subseteq 1 .. StoreLast
      BY <1>4, <2>1, <2>2
    <3>2. \A n \in 0 .. StoreLast : \A m \in (n + 1) .. StoreLast : m \in 0 .. StoreLast
      BY <1>1
    <3> QED
      BY <1>1, <2>2, <3>1, <3>2
  <2>4. BuildersInv'
    BY <1>3, <2>1, <2>3, MoveKeeps
  <2> QED
    BY <1>3, <2>1, <2>3, <2>4
<1>9. CASE Store!Complete(b)
  <2>1. UNCHANGED <<rows, payloads, route>> /\ Derived /\ \E step \in {"failed", "done"} : Store!Moves(b, step, 0)
    BY <1>1, <1>9 DEF Store!Complete, Derived
  <2>2. \A c \in 1 .. StoreLast : Written(c) => Written(c)'
    BY <2>1 DEF Written
  <2>3. BuildersInv'
    <3>1. PICK step \in {"failed", "done"} : Store!Moves(b, step, 0)
      BY <2>1
    <3> QED
      BY <1>2, <2>2, <3>1, MoveKeeps
  <2>4. UNCHANGED marker \/ marker' = [marker EXCEPT !["new"] = Store!Marker(Store!Profile, TRUE)]
    BY <1>9 DEF Store!Complete
  <2>5. marker' = [g \in {"old", "new"} |-> marker'[g]] /\ marker'["old"] = marker["old"]
        /\ (Store!Ready("new") => Store!Ready("new")')
    BY <2>4 DEF MarkersInv, Store!Ready
  <2>6. Derived'
    BY <2>1, <2>2 DEF Derived
  <2> QED
    BY <2>1, <2>3, <2>5, <2>6 DEF MarkersInv
<1> QED
  BY <1>5, <1>6, <1>7, <1>8, <1>9 DEF BuildersStep

(* The route: what each leg told, once the rows are those of this build. *)
CommonOf(ids) == {id \in Range(ids) : Cardinality({c \in Store!ChunkIds : id \in StoreExtract[c]}) > StoreHits}
VisibleOf(ids) == {c \in Store!Wanted(Range(ids) \ CommonOf(ids)) : Store!EligibleChunk(c)}

KernelTold(k, ids) ==
    /\ k.common = CommonOf(ids)
    /\ k.hits \in Seq(VisibleOf(ids))
    /\ IsFirst(Range(k.hits), VisibleOf(ids), StoreHits)

(* What the payload leg asks for, as in the model. *)
IdsAsked(ids, mode, known) ==
    IF mode = "guarded" /\ Store!Sole(known).ok THEN Range(ids) \ Store!Sole(known).common ELSE Range(ids)

MayTell(list, ids, mode, known) == list \in Seq(Store!Wanted(IdsAsked(ids, mode, known)))

LegsAre(ids, mode, found, payload, known) ==
    /\ ids \in StoreAsks /\ mode \in {"on", "guarded"}
    /\ known = {} /\ mode = "guarded" => found = << >> /\ payload = {}
    /\ MayTell(found, ids, mode, known)
    /\ payload # {} /\ Store!Sole(payload).ok => MayTell(Store!Sole(payload).hits, ids, mode, known)
    /\ known # {} /\ Store!Sole(known).ok => KernelTold(Store!Sole(known), ids)

Legs(gen, ids, mode, after, found, payload, known) ==
    [step |-> "legs", gen |-> gen, ids |-> ids, mode |-> mode, after |-> after,
     found |-> found, payload |-> payload, kernel |-> known]

LegsInv ==
    /\ Store!Ready("new")
    /\ \E gen, ids, mode, after, found, payload, known :
         route = Legs(gen, ids, mode, after, found, payload, known) /\ LegsAre(ids, mode, found, payload, known)

Exact(status, hits, ids, dropped) ==
    status = "ok" =>
      LET kept == Range(ids) \ dropped IN
      /\ Range(hits) \subseteq Store!Wanted(kept)
      /\ Len(hits) < StoreHits => {c \in Store!Wanted(kept) : Store!EligibleChunk(c)} \subseteq Range(hits)

RouteInv ==
    /\ route.step = "legs" => LegsInv
    /\ route.step = "done" => Exact(route.status, route.hits, route.ids, route.dropped)

LEMMA WantedIsBounded ==
    ASSUME NEW ids
    PROVE  Store!Wanted(ids) \in SUBSET Nat /\ IsFiniteSet(Store!Wanted(ids)) /\ Store!Wanted(ids) \subseteq 1 .. StoreLast
<1>1. StoreLast \in Nat
  BY RetrievalIsBounded
<1>2. IsFiniteSet(1 .. StoreLast) /\ 1 .. StoreLast \subseteq Nat
  BY <1>1, FS_Interval
<1>3. Store!Wanted(ids) \subseteq 1 .. StoreLast
  BY DEF Store!Wanted, Store!ChunkIds
<1> QED
  BY <1>2, <1>3, FS_Subset

LEMMA KernelTells ==
    ASSUME Derived, NEW ids \in StoreAsks,
           NEW k, k = [ok |-> TRUE, hits |-> Store!InOrder(Store!IndexedHits(ids, Store!TooCommon(Store!Range(ids)))),
                       common |-> Store!TooCommon(Store!Range(ids))]
    PROVE  KernelTold(k, ids)
<1> DEFINE common == Store!TooCommon(Range(ids))
           found == Store!IndexedHits(ids, common)
<1>1. ids \in Seq(Range(ids)) /\ StoreHits \in Nat
  BY RetrievalIsBounded DEF Range
<1>2. ASSUME NEW id PROVE Store!Matching(id) = {c \in Store!ChunkIds : id \in StoreExtract[c]}
  BY DEF Derived, Written, Store!Matching, Store!ChunkIds
<1>3. common = CommonOf(ids)
  <2>1. common = {id \in Range(ids) : Cardinality(Store!Matching(id)) > StoreHits}
    BY SameInStore DEF Store!TooCommon
  <2> HIDE DEF common
  <2> QED
    BY <1>2, <2>1, Zenon DEF CommonOf
<1>4. \A id \in Range(ids) \ common : Cardinality(Store!Matching(id)) <= StoreHits
  <2>1. SUFFICES ASSUME NEW id \in Range(ids), id \notin common PROVE Cardinality(Store!Matching(id)) <= StoreHits
    OBVIOUS
  <2>2. ~ Cardinality(Store!Matching(id)) > StoreHits
    BY <2>1, SameInStore DEF Store!TooCommon
  <2>3. Cardinality(Store!Matching(id)) \in Nat
    BY ScopeHolds
  <2> QED
    BY <1>1, <2>2, <2>3
<1> HIDE DEF common
<1>5. Scopes(ids, common, Len(ids)) = VisibleOf(ids)
  <2>1. ASSUME NEW c PROVE c \in VisibleOf(ids) <=>
          /\ c \in Store!ChunkIds /\ Store!Granted(c) /\ Store!EligibleChunk(c)
          /\ \E id \in Range(ids) \ common : id \in StoreExtract[c]
    <3>1. StoreExtract[c] \cap (Range(ids) \ common) # {} <=> \E id \in Range(ids) \ common : id \in StoreExtract[c]
      OBVIOUS
    <3> QED
      BY <1>3, <3>1 DEF VisibleOf, Store!Wanted
  <2>2. ASSUME NEW c PROVE c \in Scopes(ids, common, Len(ids)) <=>
          \E i \in {j \in 1 .. Len(ids) : ids[j] \notin common} : c \in Scope(ids[i])
    BY DEF Scopes
  <2>3. ASSUME NEW c, NEW id PROVE c \in Scope(id) <=>
          c \in Store!ChunkIds /\ id \in StoreExtract[c] /\ Store!Granted(c) /\ Store!EligibleChunk(c)
    BY <1>2 DEF Scope
  <2>4. \A id : id \in Range(ids) \ common <=> \E i \in {j \in 1 .. Len(ids) : ids[j] \notin common} : ids[i] = id
    BY <1>1 DEF Range
  <2>5. ASSUME NEW c PROVE c \in VisibleOf(ids) <=> c \in Scopes(ids, common, Len(ids))
    BY <2>1, <2>2, <2>3, <2>4, Zenon
  <2> QED
    BY <2>5
<1>6. IsFirst(found, VisibleOf(ids), StoreHits)
  BY <1>1, <1>4, <1>5, HitsAreFirst
<1> HIDE DEF found
<1>7. VisibleOf(ids) \in SUBSET Nat
  BY WantedIsBounded DEF VisibleOf
<1>8. found \in SUBSET Nat /\ IsFiniteSet(found) /\ found \subseteq VisibleOf(ids)
  BY <1>6, <1>7 DEF IsFirst
<1>9. Lists(Store!InOrder(found), found)
  BY <1>8, InOrderHolds
<1>10. Store!InOrder(found) \in Seq(VisibleOf(ids)) /\ Range(Store!InOrder(found)) = found
  <2> DEFINE list == Store!InOrder(found)
  <2>1. list \in Seq(found) /\ Distinct(list, found) /\ \A c \in found : \E i \in 1 .. Len(list) : list[i] = c
    BY <1>9 DEF Lists, Distinct
  <2> HIDE DEF list
  <2> HIDE DEF found
  <2>2. \A c : c \in Range(list) <=> \E i \in 1 .. Len(list) : list[i] = c
    BY <2>1, DistinctIsListed, Zenon
  <2>3. \A i \in 1 .. Len(list) : list[i] \in found
    BY <2>1
  <2>4. Range(list) = found
    BY <2>1, <2>2, <2>3, Zenon
  <2>5. list \in Seq(VisibleOf(ids))
    <3> DEFINE V == VisibleOf(ids)
    <3>1. found \subseteq V
      BY <1>8
    <3> HIDE DEF V
    <3>2. list \in Seq(V)
      BY <2>1, <3>1
    <3> QED
      BY <3>2 DEF V
  <2> QED
    BY <2>4, <2>5 DEF list
<1>11. k.common = common /\ k.hits = Store!InOrder(found)
  BY SameInStore DEF common, found
<1> QED
  BY <1>3, <1>6, <1>10, <1>11 DEF KernelTold

LEMMA SoleIs == \A x : Store!Sole({x}) = x
  BY Zenon DEF Store!Sole

(* A page of points: chunks that this build extracts one of the identifiers
   from. *)
LEMMA PageMayTell ==
    ASSUME MarkersInv, NEW W, W = Store!Wanted(Store!PayloadIds), route.found \in Seq(W), NEW n \in Nat
    PROVE  LET page == Store!FirstOf(Store!InOrder({c \in Store!PayloadMatches : c > route.after}), StorePage)
               found == route.found \o page
           IN  found \in Seq(W) /\ Store!FirstOf(Store!FirstOf(found, n), StoreHits) \in Seq(W)
<1> DEFINE rest == {c \in Store!PayloadMatches : c > route.after}
           page == Store!FirstOf(Store!InOrder(rest), StorePage)
           found == route.found \o page
<1>1. rest \subseteq W
  <2>1. rest \subseteq Store!PayloadMatches
    OBVIOUS
  <2>2. Store!PayloadMatches \subseteq W
    BY DEF MarkersInv, Store!PayloadMatches, Store!Wanted, Store!ChunkIds
  <2> QED
    BY <2>1, <2>2
<1>2. W \in SUBSET Nat /\ IsFiniteSet(W)
  BY WantedIsBounded
<1> HIDE DEF rest
<1>3. rest \in SUBSET Nat /\ IsFiniteSet(rest)
  BY <1>1, <1>2, FS_Subset
<1>4. StorePage \in Nat /\ StoreHits \in Nat
  BY RetrievalIsBounded
<1>5. page \in Seq(rest)
  BY <1>3, <1>4, PrefixHolds
<1> HIDE DEF page
<1>6. page \in Seq(W)
  BY <1>1, <1>5
<1>7. found \in Seq(W)
  BY <1>6
<1> HIDE DEF found
<1>8. Store!FirstOf(found, n) \in Seq(W)
  BY <1>7, FirstOfIs
<1>9. Store!FirstOf(Store!FirstOf(found, n), StoreHits) \in Seq(W)
  BY <1>4, <1>8, FirstOfIs
<1> QED
  BY <1>7, <1>9 DEF rest, page, found

LEMMA KernelLegHolds ==
    ASSUME MarkersInv, RouteInv, NEW answers \in BOOLEAN, Store!KernelLeg(answers)
    PROVE  RouteInv' /\ UNCHANGED <<rows, marker, payloads, builder>>
<1> DEFINE common == Store!TooCommon(Store!Range(route.ids))
           told == IF answers THEN [ok |-> TRUE, hits |-> Store!InOrder(Store!IndexedHits(route.ids, common)),
                                    common |-> common]
                   ELSE Store!Miss("deadline")
<1>1. /\ LegsInv /\ route.kernel = {} /\ route' = [route EXCEPT !.kernel = {told}]
      /\ UNCHANGED <<rows, marker, payloads, builder>>
  BY DEF RouteInv, Store!KernelLeg, Store!writes, Store!Nothing
<1>2. PICK gen, ids, mode, after, found, payload, known :
         route = Legs(gen, ids, mode, after, found, payload, known) /\ LegsAre(ids, mode, found, payload, known)
  BY <1>1 DEF LegsInv
<1>3. route.ids = ids /\ known = {} /\ ids \in StoreAsks
  BY <1>1, <1>2 DEF Legs, LegsAre
<1>4. told.ok => KernelTold(told, ids)
  <2>1. CASE answers
    <3>1. Derived
      BY <1>1 DEF MarkersInv, LegsInv
    <3> QED
      BY <1>3, <2>1, <3>1, KernelTells
  <2>2. CASE ~ answers
    BY <2>2 DEF Store!Miss
  <2> QED
    BY <2>1, <2>2
<1> HIDE DEF told
<1>5. route' = Legs(gen, ids, mode, after, found, payload, {told})
  BY <1>1, <1>2 DEF Legs
<1>6. LegsAre(ids, mode, found, payload, {told})
  <2>1. Store!Sole({told}) = told /\ {told} # {}
    BY SoleIs
  <2>2. CASE mode = "on"
    <3>1. IdsAsked(ids, mode, {told}) = IdsAsked(ids, mode, known)
      BY <2>2 DEF IdsAsked
    <3>2. \A list : MayTell(list, ids, mode, {told}) <=> MayTell(list, ids, mode, known)
      BY <3>1, Zenon DEF MayTell
    <3> QED
      BY <1>2, <1>4, <2>1, <2>2, <3>2 DEF LegsAre
  <2>3. CASE mode = "guarded"
    <3>1. found = << >> /\ payload = {}
      BY <1>2, <1>3, <2>3 DEF LegsAre
    <3>2. MayTell(<< >>, ids, mode, {told})
      BY DEF MayTell
    <3> QED
      BY <1>2, <1>4, <2>1, <2>3, <3>1, <3>2 DEF LegsAre
  <2> QED
    BY <1>2, <2>2, <2>3 DEF LegsAre
<1>7. Store!Ready("new")'
  BY <1>1 DEF LegsInv, Store!Ready
<1>8. LegsInv'
  BY <1>5, <1>6, <1>7 DEF LegsInv
<1>9. route'.step = "legs"
  BY <1>5 DEF Legs
<1> QED
  BY <1>1, <1>8, <1>9 DEF RouteInv

LEMMA PayloadPageHolds ==
    ASSUME MarkersInv, RouteInv, NEW answers \in BOOLEAN, Store!PayloadPage(answers)
    PROVE  RouteInv' /\ UNCHANGED <<rows, marker, payloads, builder>>
<1> DEFINE page == Store!FirstOf(Store!InOrder({c \in Store!PayloadMatches : c > route.after}), StorePage)
           longer == route.found \o page
           first == Store!FirstOf(Store!FirstOf(longer, 2 * StoreHits), StoreHits)
<1>1. /\ LegsInv /\ (route.mode = "guarded" => route.kernel # {})
      /\ UNCHANGED <<rows, marker, payloads, builder>>
  BY DEF RouteInv, Store!PayloadPage, Store!writes, Store!Nothing
<1>2. PICK gen, ids, mode, after, found, payload, known :
         route = Legs(gen, ids, mode, after, found, payload, known) /\ LegsAre(ids, mode, found, payload, known)
  BY <1>1 DEF LegsInv
<1>3. /\ route.ids = ids /\ route.mode = mode /\ route.kernel = known /\ route.found = found
      /\ mode = "guarded" => known # {}
  BY <1>1, <1>2 DEF Legs
<1>4. Store!PayloadIds = IdsAsked(ids, mode, known)
  BY <1>3, SameInStore DEF Store!PayloadIds, IdsAsked
<1>5. MayTell(longer, ids, mode, known) /\ MayTell(first, ids, mode, known)
  <2> DEFINE W == Store!Wanted(Store!PayloadIds)
  <2>1. 2 * StoreHits \in Nat
    BY RetrievalIsBounded
  <2>2. route.found \in Seq(W)
    BY <1>2, <1>3, <1>4 DEF LegsAre, MayTell
  <2> HIDE DEF W
  <2>3. longer \in Seq(W) /\ first \in Seq(W)
    BY <2>1, <2>2, PageMayTell DEF W
  <2> QED
    BY <1>4, <2>3 DEF MayTell, W
<1>6. \/ route' = [route EXCEPT !.payload = {Store!Miss("deadline")}]
      \/ route' = [route EXCEPT !.payload = {Store!Hit(first)}]
      \/ route' = [route EXCEPT !.after = Store!Last(page), !.found = longer]
  BY DEF Store!PayloadPage
<1> HIDE DEF longer, first
<1>7. \E at, list, told :
         route' = Legs(gen, ids, mode, at, list, told, known) /\ LegsAre(ids, mode, list, told, known)
  <2>1. CASE route' = [route EXCEPT !.payload = {Store!Miss("deadline")}]
    <3>1. route' = Legs(gen, ids, mode, after, found, {Store!Miss("deadline")}, known)
      BY <1>2, <2>1 DEF Legs
    <3>2. ~ Store!Miss("deadline").ok
      BY DEF Store!Miss
    <3>3. ~ Store!Sole({Store!Miss("deadline")}).ok
      BY <3>2, SoleIs, Zenon
    <3>4. LegsAre(ids, mode, found, {Store!Miss("deadline")}, known)
      BY <1>2, <1>3, <3>3, Zenon DEF LegsAre
    <3> QED
      BY <3>1, <3>4
  <2>2. CASE route' = [route EXCEPT !.payload = {Store!Hit(first)}]
    <3>1. route' = Legs(gen, ids, mode, after, found, {Store!Hit(first)}, known)
      BY <1>2, <2>2 DEF Legs
    <3>2. Store!Hit(first).hits = first
      BY DEF Store!Hit
    <3>3. Store!Sole({Store!Hit(first)}).hits = first
      BY <3>2, SoleIs, Zenon
    <3>4. LegsAre(ids, mode, found, {Store!Hit(first)}, known)
      BY <1>2, <1>3, <1>5, <3>3, Zenon DEF LegsAre
    <3> QED
      BY <3>1, <3>4
  <2>3. CASE route' = [route EXCEPT !.after = Store!Last(page), !.found = longer]
    <3>1. route' = Legs(gen, ids, mode, Store!Last(page), longer, payload, known)
      BY <1>2, <2>3 DEF Legs
    <3>2. LegsAre(ids, mode, longer, payload, known)
      BY <1>2, <1>3, <1>5, Zenon DEF LegsAre
    <3> QED
      BY <3>1, <3>2
  <2> QED
    BY <1>6, <2>1, <2>2, <2>3
<1>8. Store!Ready("new")'
  BY <1>1 DEF LegsInv, Store!Ready
<1>9. LegsInv'
  BY <1>7, <1>8 DEF LegsInv
<1>10. route'.step = "legs"
  BY <1>7 DEF Legs
<1> QED
  BY <1>1, <1>9, <1>10 DEF RouteInv

(* What the legs told, merged. *)
LEMMA MergedIsExact ==
    ASSUME NEW gen, NEW ids, NEW mode, NEW after, NEW found, NEW payload, NEW known,
           route = Legs(gen, ids, mode, after, found, payload, known),
           LegsAre(ids, mode, found, payload, known), payload # {}, known # {}
    PROVE  Exact(Store!Merged.status, Store!Merged.hits, ids, Store!Merged.dropped)
<1> DEFINE p == Store!Sole(payload)
           k == Store!Sole(known)
           first == Store!Extended(<< >>, p.hits)
           last == Store!Extended(first, k.hits)
           common == k.ok /\ IF mode = "guarded" THEN k.common = Range(ids) ELSE k.common # {}
           dropped == IF k.ok /\ mode = "guarded" THEN k.common ELSE {}
           W == Store!Wanted(IdsAsked(ids, mode, known))
           V == VisibleOf(ids)
<1>1. /\ route.ids = ids /\ route.mode = mode /\ route.payload = payload /\ route.kernel = known /\ route.gen = gen
  BY DEF Legs
<1>2. /\ Store!Merged.status = IF p.ok /\ k.ok /\ ~ common THEN "ok" ELSE "unavailable"
      /\ p.ok /\ k.ok => Store!Merged.hits = last
      /\ Store!Merged.dropped = dropped
  BY <1>1, SameInStore DEF Store!Merged
<1>3. SUFFICES ASSUME p.ok, k.ok, ~ common PROVE Exact("ok", last, ids, dropped)
  BY <1>2 DEF Exact
<1>4. p.hits \in Seq(W) /\ KernelTold(k, ids) /\ mode \in {"on", "guarded"}
  BY <1>3 DEF LegsAre, MayTell
<1>5. IdsAsked(ids, mode, known) = Range(ids) \ dropped /\ Range(ids) \ dropped = Range(ids) \ CommonOf(ids)
  <2>1. CASE mode = "guarded"
    BY <1>3, <1>4, <2>1 DEF IdsAsked, KernelTold
  <2>2. CASE mode = "on"
    BY <1>3, <1>4, <2>2 DEF IdsAsked, KernelTold
  <2> QED
    BY <1>4, <2>1, <2>2
<1>6. V = {c \in W : Store!EligibleChunk(c)}
  BY <1>5 DEF VisibleOf
<1>7. k.hits \in Seq(V) /\ IsFirst(Range(k.hits), V, StoreHits)
  BY <1>4 DEF KernelTold
<1> DEFINE told == p.hits
           more == k.hits
<1>8. told \in Seq(W) /\ more \in Seq(V) /\ V \subseteq W
  BY <1>4, <1>6, <1>7
<1>9. last \in Seq(W) /\ Extends(first, << >>, Range(told), StoreHits) /\ Extends(last, first, Range(more), StoreHits)
      /\ first \in Seq(W)
  <2> HIDE DEF W, V, told, more
  <2>1. << >> \in Seq(W) /\ more \in Seq(W)
    BY <1>8
  <2>2. Store!Extended(<< >>, told) \in Seq(W) /\ Extends(Store!Extended(<< >>, told), << >>, Range(told), StoreHits)
    BY <1>8, <2>1, ExtendedHolds
  <2>3. /\ Store!Extended(Store!Extended(<< >>, told), more) \in Seq(W)
        /\ Extends(Store!Extended(Store!Extended(<< >>, told), more), Store!Extended(<< >>, told), Range(more), StoreHits)
    BY <2>1, <2>2, ExtendedHolds
  <2> QED
    BY <2>2, <2>3 DEF told, more
<1> HIDE DEF first, last, p, k, common, dropped
<1>10. Range(last) \subseteq W
  <2> HIDE DEF W
  <2> QED
    BY <1>9 DEF Range
<1>11. ASSUME Len(last) < StoreHits PROVE V \subseteq Range(last)
  <2>1. Range(more) \subseteq Range(last)
    BY <1>9, <1>11 DEF Extends
  <2>2. IsFiniteSet(Range(last)) /\ Cardinality(Range(last)) <= Len(last) /\ Len(last) \in Nat
    <3> HIDE DEF W
    <3>1. Len(last) \in Nat /\ DOMAIN last = 1 .. Len(last) /\ last \in [1 .. Len(last) -> Range(last)]
      BY <1>9 DEF Range
    <3>2. IsFiniteSet(1 .. Len(last)) /\ Cardinality(1 .. Len(last)) = Len(last)
      <4>1. \A m \in Nat : IsFiniteSet(1 .. m) /\ Cardinality(1 .. m) = m
        BY FS_Interval
      <4> QED
        BY <3>1, <4>1
    <3>3. last \in Surjection(1 .. Len(last), Range(last))
      BY <3>1 DEF Surjection, Range
    <3>5. IsFiniteSet(Range(last)) /\ Cardinality(Range(last)) <= Cardinality(1 .. Len(last))
      BY <3>2, <3>3, FS_Surjection
    <3> QED
      BY <3>1, <3>2, <3>5
  <2>3. Cardinality(Range(more)) <= Cardinality(Range(last)) /\ Cardinality(Range(more)) \in Nat
        /\ Cardinality(Range(last)) \in Nat
    BY <2>1, <2>2, FS_Subset, FS_CardinalityType
  <2>4. StoreHits \in Nat
    BY RetrievalIsBounded
  <2>5. Cardinality(Range(more)) # StoreHits
    BY <1>11, <2>2, <2>3, <2>4
  <2>6. V \ Range(more) = {}
    <3> HIDE DEF V, more
    <3>1. IsFirst(Range(more), V, StoreHits)
      BY <1>7 DEF more
    <3> QED
      BY <2>5, <3>1 DEF IsFirst
  <2> QED
    BY <2>1, <2>6
<1>12. W = Store!Wanted(Range(ids) \ dropped)
  BY <1>5
<1> QED
  BY <1>6, <1>10, <1>11, <1>12, Zenon DEF Exact

RetrievalInv == BuildersInv /\ MarkersInv /\ RouteInv

LEMMA RetrievalInits == Store!RetrievalInit => RetrievalInv
<1> SUFFICES ASSUME Store!RetrievalInit PROVE RetrievalInv
  OBVIOUS
<1>1. StoreLast \in Nat
  BY RetrievalIsBounded
<1>2. BuildersInv
  BY <1>1 DEF Store!RetrievalInit, BuildersInv
<1>3. MarkersInv
  <2>1. /\ marker = [g \in {"old", "new"} |-> IF g = "old" THEN Store!Marker(1, TRUE) ELSE {}] /\ payloads = {}
    BY DEF Store!RetrievalInit, Store!Generations, Store!Nothing
  <2>2. marker["new"] = {} /\ Store!Marker(Store!Profile, TRUE) # {}
    BY <2>1 DEF Store!Marker
  <2> QED
    BY <2>1, <2>2 DEF MarkersInv, Store!Ready
<1>4. RouteInv
  BY DEF Store!RetrievalInit, RouteInv
<1> QED
  BY <1>2, <1>3, <1>4 DEF RetrievalInv

LEMMA RetrievalSteps ==
    ASSUME RetrievalInv, Store!RetrievalNext
    PROVE  RetrievalInv'
<1> USE DEF RetrievalInv
<1>1. ASSUME NEW b \in StoreBuilders, BuildersStep(b) PROVE RetrievalInv'
  <2>1. BuildersInv' /\ MarkersInv' /\ (Store!Ready("new") => Store!Ready("new")') /\ route' = route
    BY <1>1, BuilderSteps
  <2>2. LegsInv => LegsInv'
    BY <2>1 DEF LegsInv
  <2> QED
    BY <2>1, <2>2 DEF RouteInv
<1>2. ASSUME UNCHANGED <<rows, marker, payloads, builder>> PROVE BuildersInv' /\ MarkersInv'
  BY <1>2 DEF BuildersInv, MarkersInv, Derived, Written, Store!Ready
<1>3. ASSUME UNCHANGED <<rows, marker, payloads, builder, route>> PROVE RetrievalInv'
  BY <1>2, <1>3 DEF RouteInv, LegsInv, Store!Ready
<1>4. CASE Store!PublishNew
  BY <1>3, <1>4 DEF Store!PublishNew
<1>5. ASSUME NEW g, NEW set, Store!Inventory(g, set) PROVE RetrievalInv'
  BY <1>3, <1>5 DEF Store!Inventory, Store!writes
<1>6. ASSUME NEW g \in Store!Generations, NEW ids \in StoreAsks, NEW mode \in {"on", "guarded"}, Store!StartRoute(g, ids, mode)
      PROVE  RetrievalInv'
  <2>1. UNCHANGED <<rows, marker, payloads, builder>>
    BY <1>6 DEF Store!StartRoute, Store!writes
  <2>2. CASE ~ Store!Ready(g)
    <3>1. route' = [step |-> "done", gen |-> g, status |-> "unavailable", hits |-> << >>, ids |-> ids]
      BY <1>6, <2>2 DEF Store!StartRoute
    <3>2. route'.step = "done" /\ route'.status = "unavailable"
      BY <3>1
    <3> QED
      BY <1>2, <2>1, <3>2 DEF RouteInv, Exact
  <2>3. CASE Store!Ready(g)
    <3>1. route' = Legs(g, ids, mode, 0, << >>, {}, {})
      BY <1>6, <2>3 DEF Store!StartRoute, Legs, Store!Nothing
    <3>2. MayTell(<< >>, ids, mode, {})
      BY DEF MayTell
    <3>3. LegsAre(ids, mode, << >>, {}, {})
      BY <3>2 DEF LegsAre
    <3>4. Store!Ready("new")
      <4>1. Store!Marker(1, TRUE) # Store!Marker(Store!Profile, TRUE)
        <5> DEFINE told(profile) == [profile |-> profile, ready |-> TRUE]
        <5>1. told(1).profile = 1 /\ told(2).profile = 2
          OBVIOUS
        <5>2. told(1) # told(2)
          BY <5>1
        <5> HIDE DEF told
        <5>3. {told(1)} # {told(2)}
          BY <5>2
        <5> QED
          BY <5>3, Zenon DEF told, Store!Marker, Store!Profile
      <4>2. g # "old"
        BY <2>3, <4>1 DEF MarkersInv, Store!Ready
      <4> QED
        BY <2>3, <4>2 DEF Store!Generations
    <3>5. Store!Ready("new")'
      BY <2>1, <3>4 DEF Store!Ready
    <3>6. route'.step = "legs"
      BY <3>1 DEF Legs
    <3>7. LegsInv'
      BY <3>1, <3>3, <3>5 DEF LegsInv
    <3> QED
      BY <1>2, <2>1, <3>6, <3>7 DEF RouteInv
  <2> QED
    BY <2>2, <2>3
<1>7. ASSUME NEW answers \in BOOLEAN, Store!KernelLeg(answers) \/ Store!PayloadPage(answers) PROVE RetrievalInv'
  <2>1. RouteInv' /\ UNCHANGED <<rows, marker, payloads, builder>>
    BY <1>7, KernelLegHolds, PayloadPageHolds
  <2> QED
    BY <1>2, <2>1
<1>8. CASE Store!EndRoute
  <2>1. /\ LegsInv /\ route.payload # {} /\ route.kernel # {} /\ route' = Store!Merged
        /\ UNCHANGED <<rows, marker, payloads, builder>>
    BY <1>8 DEF RouteInv, Store!EndRoute, Store!writes, Store!Nothing
  <2>2. PICK gen, ids, mode, after, found, payload, known :
           route = Legs(gen, ids, mode, after, found, payload, known) /\ LegsAre(ids, mode, found, payload, known)
    BY <2>1 DEF LegsInv
  <2>3. payload # {} /\ known # {} /\ route.ids = ids
    BY <2>1, <2>2 DEF Legs
  <2>4. Exact(Store!Merged.status, Store!Merged.hits, ids, Store!Merged.dropped)
    BY <2>2, <2>3, MergedIsExact
  <2>5. Store!Merged.step = "done" /\ Store!Merged.ids = route.ids
    BY DEF Store!Merged
  <2>6. route'.step = "done" /\ Exact(route'.status, route'.hits, route'.ids, route'.dropped)
    BY <2>1, <2>3, <2>4, <2>5
  <2> QED
    BY <1>2, <2>1, <2>6 DEF RouteInv, Exact
<1> QED
  BY <1>1, <1>4, <1>5, <1>6, <1>7, <1>8 DEF Store!RetrievalNext, BuildersStep

LEMMA RetrievalInvImplies == RetrievalInv => Store!RouteIsExact
<1> SUFFICES ASSUME RetrievalInv PROVE Store!RouteIsExact
  OBVIOUS
<1>1. ASSUME route.step = "legs", route.kernel # {}, Store!Sole(route.kernel).ok
      PROVE  LET common == {id \in Range(route.ids) : Cardinality({c \in Store!ChunkIds : id \in StoreExtract[c]}) > StoreHits}
                 wanted == {c \in Store!Wanted(Range(route.ids) \ common) : Store!EligibleChunk(c)}
             IN  /\ Store!Sole(route.kernel).common = common
                 /\ Range(Store!Sole(route.kernel).hits) =
                      {c \in wanted : Cardinality({d \in wanted : d < c}) < StoreHits}
  <2>1. PICK gen, ids, mode, after, found, payload, known :
           route = Legs(gen, ids, mode, after, found, payload, known) /\ LegsAre(ids, mode, found, payload, known)
    BY <1>1 DEF RetrievalInv, RouteInv, LegsInv
  <2>2. route.ids = ids /\ route.kernel = known
    BY <2>1 DEF Legs
  <2>3. KernelTold(Store!Sole(known), ids)
    BY <1>1, <2>1, <2>2 DEF LegsAre
  <2> DEFINE V == VisibleOf(ids)
             H == Range(Store!Sole(known).hits)
  <2>4. V \in SUBSET Nat /\ IsFiniteSet(V) /\ StoreHits \in Nat
    <3>1. V \subseteq Store!Wanted(Range(ids) \ CommonOf(ids))
      BY DEF VisibleOf
    <3> HIDE DEF V
    <3> QED
      BY <3>1, WantedIsBounded, FS_Subset, RetrievalIsBounded
  <2>5. IsFirst(H, V, StoreHits)
    BY <2>3 DEF KernelTold
  <2> HIDE DEF V, H
  <2>6. H = {c \in V : Cardinality({d \in V : d < c}) < StoreHits}
    BY <2>4, <2>5, FirstsAreThose
  <2> QED
    BY <2>2, <2>3, <2>6, Zenon DEF V, H, KernelTold, CommonOf, VisibleOf
<1>2. ASSUME route.step = "done", route.status = "ok"
      PROVE  LET kept == Range(route.ids) \ route.dropped IN
             /\ Range(route.hits) \subseteq Store!Wanted(kept)
             /\ Len(route.hits) < StoreHits => {c \in Store!Wanted(kept) : Store!EligibleChunk(c)} \subseteq Range(route.hits)
  BY <1>2, Zenon DEF RetrievalInv, RouteInv, Exact
<1> QED
  BY <1>1, <1>2, SameInStore, Zenon DEF Store!RouteIsExact, Store!Nothing

(* Whatever an earlier build left in the rows, however builders interleave,
   die and resume, and whichever leg of a search answers first: the kernel leg
   tells the first chunks the query may see of those this build extracts an
   identifier from, and an answer that is ok tells no other chunk, and all of
   them unless it is full. *)
THEOREM RouteIsExactHolds == KernelSpec => []RouteIsExact
<1> DEFINE I == part = "retrieval" => RetrievalInv
<1>1. KernelInit => I
  BY RetrievalInits DEF KernelInit
<1>2. I /\ [KernelNext]_kernelVars => I'
  <2>1. ASSUME I, KernelNext PROVE I'
    BY <2>1, StepsOfParts, RetrievalSteps
  <2>2. ASSUME I, UNCHANGED kernelVars PROVE I'
    BY <2>2 DEF kernelVars, partVars, kernelPartsVars, retrievalVars, RetrievalInv, BuildersInv, MarkersInv, RouteInv, LegsInv,
          Derived, Written, Store!Ready
  <2> QED
    BY <2>1, <2>2
<1>3. I => RouteIsExact
  BY RetrievalInvImplies DEF RouteIsExact
<1> QED
  BY <1>1, <1>2, <1>3, PTL DEF KernelSpec, kernelVars

-----------------------------------------------------------------------------
(* The artifact store. *)

(* The file of a digest changes only by a rename onto it, by an unlink     *)
(* while no row names it, or by decay of an intact copy; so a recorded     *)
(* artifact never loses its file to a step of the program.                 *)
LEMMA FileStep ==
    ASSUME TypeOK, [Next]_vars, NEW d \in Digest, d \in recorded,
           file[d] # "none"
    PROVE  file'[d] # "none"
<1>1. CASE \E p \in Process : Proceed(p)
  BY <1>1 DEF TypeOK, Proceed, StoreRead, StorePlace, Record, AgainRead,
     AgainPlace, ReadBack, Rename, DeleteRows, CollectionReturns,
     RemoveUnrecorded
<1>2. CASE \E p \in Process :
               \/ \E e \in Digest, m \in Media : BeginPut(p, e, m)
               \/ Pin(p) \/ Forget(p) \/ Garbage(p)
               \/ Crash(p) \/ StoreFails(p)
               \/ \E e \in Digest : RemoveFails(p, e)
  BY <1>2 DEF BeginPut, Pin, Forget, Garbage, Crash, StoreFails, RemoveFails
<1>3. CASE \E e \in Digest : Unpin(e) \/ Damage(e)
  BY <1>3 DEF TypeOK, Unpin, Damage
<1>4. CASE UNCHANGED vars
  BY <1>4 DEF vars
<1>. QED BY <1>1, <1>2, <1>3, <1>4 DEF Next

(* Every variable keeps its type in every reachable state of the store. *)
THEOREM TypeCorrect == Spec => []TypeOK
<1>1. Init => TypeOK
  BY MaxPinsAssumption DEF Init, TypeOK
<1>2. TypeOK /\ [Next]_vars => TypeOK'
  <2> SUFFICES ASSUME TypeOK, [Next]_vars PROVE TypeOK'
    OBVIOUS
  <2> USE MaxPinsAssumption DEF TypeOK, Goto, table, call, PutSteps, GarbageSteps
  <2>1. ASSUME NEW p \in Process, NEW d \in Digest, NEW m \in Media,
               BeginPut(p, d, m)
        PROVE  TypeOK'
    BY <2>1 DEF BeginPut
  <2>2. ASSUME NEW p \in Process, Pin(p) PROVE TypeOK'
    BY <2>2 DEF Pin
  <2>3. ASSUME NEW p \in Process, Forget(p) PROVE TypeOK'
    BY <2>3 DEF Forget
  <2>4. ASSUME NEW p \in Process, Garbage(p) PROVE TypeOK'
    BY <2>4 DEF Garbage
  <2>5. ASSUME NEW p \in Process, StoreRead(p) \/ AgainRead(p) PROVE TypeOK'
    BY <2>5 DEF StoreRead, AgainRead, ReadBack
  <2>6. ASSUME NEW p \in Process, StorePlace(p) \/ AgainPlace(p) PROVE TypeOK'
    BY <2>6 DEF StorePlace, AgainPlace, Rename
  <2>7. ASSUME NEW p \in Process, Record(p) PROVE TypeOK'
    BY <2>7 DEF Record
  <2>8. ASSUME NEW p \in Process, DeleteRows(p) PROVE TypeOK'
    BY <2>8 DEF DeleteRows, StillGarbage
  <2>9. ASSUME NEW p \in Process, NEW d \in Digest, RemoveUnrecorded(p, d)
        PROVE  TypeOK'
    BY <2>9 DEF RemoveUnrecorded
  <2>10. ASSUME NEW p \in Process, CollectionReturns(p) PROVE TypeOK'
    BY <2>10 DEF CollectionReturns
  <2>11. ASSUME NEW p \in Process, Crash(p) \/ StoreFails(p) PROVE TypeOK'
    BY <2>11 DEF Crash, StoreFails, TornBy
  <2>12. ASSUME NEW p \in Process, NEW d \in Digest, RemoveFails(p, d)
         PROVE  TypeOK'
    BY <2>12 DEF RemoveFails
  <2>13. ASSUME NEW d \in Digest, Unpin(d) \/ Damage(d) PROVE TypeOK'
    BY <2>13 DEF Unpin, Damage
  <2>14. CASE UNCHANGED vars
    BY <2>14 DEF vars
  <2>. QED
    BY <2>1, <2>2, <2>3, <2>4, <2>5, <2>6, <2>7, <2>8, <2>9, <2>10, <2>11,
       <2>12, <2>13, <2>14 DEF Next, Proceed
<1>. QED BY <1>1, <1>2, PTL DEF Spec

(* The two safety invariants are inductive together with the types. *)
Inv == TypeOK /\ RecordedHasFile /\ PinnedIsRecorded

LEMMA InitInv == Init => Inv
BY MaxPinsAssumption DEF Init, Inv, TypeOK, RecordedHasFile, PinnedIsRecorded

(* What a step does to the rows: a row appears only by a put that still    *)
(* has to store its bytes again, disappears only without a pin, and pins   *)
(* are added only to a recorded artifact.                                  *)
LEMMA RowStep ==
    ASSUME TypeOK, [Next]_vars, NEW d \in Digest
    PROVE  /\ d \in recorded' /\ d \notin recorded => Finishing(d)'
           /\ d \in recorded /\ d \notin recorded' => pins[d] = 0 /\ pins'[d] = 0
           /\ pins'[d] > pins[d] => d \in recorded
           /\ d \in recorded /\ pins[d] > 0 => media'[d] = media[d]
<1> USE MaxPinsAssumption DEF TypeOK, Goto, table, call, Finishing
<1>1. ASSUME NEW p \in Process, Record(p)
      PROVE  /\ d \in recorded' /\ d \notin recorded => Finishing(d)'
             /\ d \in recorded => d \in recorded' /\ media'[d] = media[d]
             /\ pins' = pins
  BY <1>1 DEF Record
<1>2. ASSUME NEW p \in Process, DeleteRows(p)
      PROVE  /\ d \in recorded' => d \in recorded
             /\ d \in recorded /\ d \notin recorded' => pins[d] = 0
             /\ UNCHANGED <<pins, media>>
  BY <1>2 DEF DeleteRows, StillGarbage
<1>3. ASSUME NEW p \in Process, Pin(p)
      PROVE  /\ pins'[d] > pins[d] => d \in recorded
             /\ UNCHANGED <<recorded, media>>
  BY <1>3 DEF Pin
<1>4. ASSUME NEW e \in Digest, Unpin(e)
      PROVE  ~(pins'[d] > pins[d]) /\ UNCHANGED <<recorded, media>>
  BY <1>4 DEF Unpin
<1>5. CASE UNCHANGED table
  BY <1>5
<1>6. ASSUME NEW p \in Process,
             \/ StoreRead(p) \/ StorePlace(p) \/ AgainRead(p) \/ AgainPlace(p)
             \/ CollectionReturns(p) \/ Forget(p) \/ Garbage(p)
             \/ Crash(p) \/ StoreFails(p)
             \/ \E e \in Digest : RemoveUnrecorded(p, e) \/ RemoveFails(p, e)
             \/ \E e \in Digest, m \in Media : BeginPut(p, e, m)
      PROVE  UNCHANGED table
  BY <1>6 DEF StoreRead, StorePlace, AgainRead, AgainPlace, ReadBack, Rename,
     CollectionReturns, Forget, Garbage, Crash, StoreFails, RemoveUnrecorded,
     RemoveFails, BeginPut
<1>7. ASSUME NEW e \in Digest, Damage(e) PROVE UNCHANGED table
  BY <1>7 DEF Damage
<1>8. CASE UNCHANGED vars
  BY <1>8, <1>5 DEF vars
<1>9. CASE \E p \in Process : Record(p) \/ DeleteRows(p) \/ Pin(p)
  BY <1>9, <1>1, <1>2, <1>3
<1>10. CASE \E e \in Digest : Unpin(e)
  BY <1>10, <1>4
<1>. QED
  BY <1>5, <1>6, <1>7, <1>8, <1>9, <1>10 DEF Next, Proceed

(* A put leaves its last two steps only with the file in place or torn. *)
LEMMA FinishingStep ==
    ASSUME TypeOK, [Next]_vars, NEW d \in Digest, d \in recorded',
           d \in recorded, Finishing(d) \/ d \in torn, file'[d] = "none"
    PROVE  Finishing(d)' \/ d \in torn'
<1> USE DEF TypeOK, Goto, Finishing, call
<1>1. ASSUME NEW p \in Process, StorePlace(p) \/ AgainPlace(p)
      PROVE  Finishing(d)' \/ d \in torn'
  BY <1>1 DEF StorePlace, AgainPlace, Rename
<1>2. ASSUME NEW p \in Process, StoreRead(p) \/ AgainRead(p)
      PROVE  Finishing(d)' \/ d \in torn'
  BY <1>2 DEF StoreRead, AgainRead, ReadBack
<1>3. ASSUME NEW p \in Process, Crash(p) \/ StoreFails(p)
      PROVE  Finishing(d)' \/ d \in torn'
  BY <1>3 DEF Crash, StoreFails, TornBy
<1>4. ASSUME NEW p \in Process, DeleteRows(p)
      PROVE  Finishing(d)' \/ d \in torn'
  BY <1>4 DEF DeleteRows
<1>5. ASSUME NEW p \in Process, Record(p)
      PROVE  Finishing(d)' \/ d \in torn'
  BY <1>5 DEF Record
<1>6. ASSUME NEW p \in Process,
             \/ CollectionReturns(p) \/ Forget(p) \/ Garbage(p) \/ Pin(p)
             \/ \E e \in Digest : RemoveUnrecorded(p, e) \/ RemoveFails(p, e)
             \/ \E e \in Digest, m \in Media : BeginPut(p, e, m)
      PROVE  Finishing(d)' \/ d \in torn'
  BY <1>6 DEF CollectionReturns, Forget, Garbage, Pin, RemoveUnrecorded,
     RemoveFails, BeginPut
<1>7. ASSUME NEW e \in Digest, Unpin(e) \/ Damage(e)
      PROVE  Finishing(d)' \/ d \in torn'
  BY <1>7 DEF Unpin, Damage
<1>8. CASE UNCHANGED vars
  BY <1>8 DEF vars
<1>. QED
  BY <1>1, <1>2, <1>3, <1>4, <1>5, <1>6, <1>7, <1>8 DEF Next, Proceed

LEMMA NextInv == Inv /\ [Next]_vars /\ TypeOK' => Inv'
<1> SUFFICES ASSUME Inv, [Next]_vars, TypeOK' PROVE Inv'
  OBVIOUS
<1>1. RecordedHasFile'
  <2> SUFFICES ASSUME NEW d \in Digest, d \in recorded', file'[d] = "none"
               PROVE  Finishing(d)' \/ d \in torn'
    BY DEF RecordedHasFile, TypeOK
  <2>1. CASE d \notin recorded
    BY <2>1, RowStep DEF Inv
  <2>2. CASE d \in recorded
    BY <2>2, FileStep, FinishingStep DEF Inv, RecordedHasFile
  <2>. QED BY <2>1, <2>2
<1>2. PinnedIsRecorded'
  <2> SUFFICES ASSUME NEW d \in Digest, pins'[d] > 0 PROVE d \in recorded'
    BY DEF PinnedIsRecorded
  <2>1. d \in recorded
    BY RowStep, MaxPinsAssumption DEF Inv, PinnedIsRecorded, TypeOK
  <2>. QED BY <2>1, RowStep DEF Inv
<1>. QED BY <1>1, <1>2 DEF Inv

LEMMA InvHolds == Spec => []Inv
BY InitInv, NextInv, TypeCorrect, PTL DEF Spec

(* A recorded artifact misses its file only while a put of it is finishing *)
(* or after one was cut short, whatever puts and collections interleave.   *)
THEOREM RecordedHasFileHolds == Spec => []RecordedHasFile
BY InvHolds, PTL DEF Inv

(* Only recorded artifacts have pins. *)
THEOREM PinnedIsRecordedHolds == Spec => []PinnedIsRecorded
BY InvHolds, PTL DEF Inv

(* No step of any process removes a pinned artifact's row or file. *)
THEOREM PinnedArtifactStaysHolds == Spec => PinnedArtifactStays
<1>1. Inv /\ [Next]_vars =>
        [\A d \in Digest : pins[d] > 0 =>
            /\ d \in recorded' /\ media'[d] = media[d]
            /\ file[d] # "none" => file'[d] # "none"]_vars
  <2> SUFFICES ASSUME Inv, [Next]_vars, NEW d \in Digest, pins[d] > 0
               PROVE  /\ d \in recorded' /\ media'[d] = media[d]
                      /\ file[d] # "none" => file'[d] # "none"
    OBVIOUS
  <2>1. d \in recorded
    BY DEF Inv, PinnedIsRecorded
  <2>. QED BY <2>1, RowStep, FileStep, MaxPinsAssumption DEF Inv, TypeOK
<1>. QED BY <1>1, InvHolds, PTL DEF Spec, PinnedArtifactStays
=============================================================================
