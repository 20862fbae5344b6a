-------------------------------- MODULE Backup -------------------------------
(***************************************************************************)
(* `backup` and `restore` (maestro, cli/backup): a snapshot of a running   *)
(* kernel's database and the artifacts it records, written with a manifest *)
(* last, and its restoration into a data directory without a kernel,       *)
(* staged first and made visible by its database last.                     *)
(*                                                                         *)
(* The kernel goes on recording and collecting artifacts meanwhile, a      *)
(* finished backup may lose or change files, restores run beside one       *)
(* another and a command stops anywhere.  A database is the set of the     *)
(* artifacts it records; an artifact file is intact or damaged.            *)
(***************************************************************************)
EXTENDS Integers, FiniteSets

CONSTANTS ArtifactIds, Restores,
          MaxChanges,   \* bounds what the running kernel does
          MaxDamages    \* bounds what befalls the finished backup

VARIABLES kernel,    \* [rows, files] of the kernel that is backed up
          backup,    \* [database, files, manifest] in the destination
          writing,   \* the backup command
          target,    \* [database, artifacts] of the directory restored into
          restoring, \* the restore commands
          changes, damages
backupVars == <<kernel, backup, writing, target, restoring, changes, damages>>

None == {}
Some(x) == {x}
The(option) == CHOOSE x \in option : TRUE
Intact(a) == <<a, "intact">>
Damaged(a) == <<a, "damaged">>

BackupInit ==
    /\ kernel \in {[rows |-> rows, files |-> rows] : rows \in (SUBSET ArtifactIds) \ {{}}}
    /\ backup = [database |-> None, files |-> {}, manifest |-> None]
    /\ writing = [at |-> "start", todo |-> {}]
    /\ target = [database |-> None, artifacts |-> None]
    /\ restoring = [r \in Restores |-> [at |-> "start", manifest |-> {}, staged |-> {}, todo |-> {}]]
    /\ changes = 0 /\ damages = 0

-----------------------------------------------------------------------------
(* The kernel beside it: an artifact is stored before it is recorded, and its
   record is deleted before its file. *)
KernelChanges(to) == kernel' = to /\ changes' = changes + 1 /\ changes < MaxChanges
Kernel ==
    /\ \/ \E a \in ArtifactIds \ kernel.files : KernelChanges([kernel EXCEPT !.files = @ \cup {a}])
       \/ \E a \in kernel.files \ kernel.rows : KernelChanges([kernel EXCEPT !.rows = @ \cup {a}])
       \/ \E a \in kernel.rows : KernelChanges([kernel EXCEPT !.rows = @ \ {a}])
       \/ \E a \in kernel.files \ kernel.rows : KernelChanges([kernel EXCEPT !.files = @ \ {a}])
    /\ UNCHANGED <<backup, writing, target, restoring, damages>>

(* create_backup: the copy of the database is a consistent snapshot, however
   long it takes and whoever writes; an artifact is read, hashed and compared
   with its record; the manifest ends the backup. *)
WritingGoes(step, todo) == writing' = [at |-> step, todo |-> todo]
Snapshot ==
    /\ writing.at = "start"
    /\ backup' = [backup EXCEPT !.database = Some(kernel.rows)]
    /\ WritingGoes("copy", kernel.rows)
    /\ UNCHANGED <<kernel, target, restoring, changes, damages>>

CopyArtifact ==
    /\ writing.at = "copy"
    /\ \E a \in writing.todo :
          IF a \in kernel.files
          THEN backup' = [backup EXCEPT !.files = @ \cup {Intact(a)}] /\ WritingGoes("copy", writing.todo \ {a})
          ELSE UNCHANGED backup /\ WritingGoes("failed", {})
    /\ UNCHANGED <<kernel, target, restoring, changes, damages>>

Listed == The(backup.database)
WriteManifest ==
    /\ writing.at = "copy" /\ writing.todo = {}
    /\ backup' = [backup EXCEPT !.manifest = Some(Listed)]
    /\ WritingGoes("done", {})
    /\ UNCHANGED <<kernel, target, restoring, changes, damages>>

StopBackup ==
    /\ writing.at = "copy" /\ WritingGoes("stopped", {})
    /\ UNCHANGED <<kernel, backup, target, restoring, changes, damages>>

(* A finished backup lies about for months. *)
Damage ==
    /\ writing.at = "done" /\ damages < MaxDamages /\ damages' = damages + 1
    /\ \E f \in backup.files :
          \/ backup' = [backup EXCEPT !.files = @ \ {f}]
          \/ backup' = [backup EXCEPT !.files = (@ \ {f}) \cup {Damaged(f[1])}]
    /\ UNCHANGED <<kernel, writing, target, restoring, changes>>

-----------------------------------------------------------------------------
(* validate_backup: the files are exactly the ones the manifest lists, each of
   its digest, and the ones the database records. *)
Valid ==
    /\ backup.manifest # None /\ backup.database # None
    /\ {f[1] : f \in backup.files} = The(backup.manifest)
    /\ \A f \in backup.files : f = Intact(f[1])
    /\ The(backup.database) = The(backup.manifest)

RestoreGoes(r, to) == restoring' = [restoring EXCEPT ![r] = to]
RestoreEnds(r, outcome) == restoring' = [restoring EXCEPT ![r].at = outcome, ![r].staged = {}, ![r].todo = {}]
Validate(r) ==
    /\ restoring[r].at = "start"
    /\ IF Valid THEN RestoreGoes(r, [restoring[r] EXCEPT !.at = "slot", !.manifest = The(backup.manifest)])
       ELSE RestoreEnds(r, "refused")
    /\ UNCHANGED <<kernel, backup, writing, target, changes, damages>>

(* ensure_empty_kernel_slot, then a staging directory of this process. *)
CheckSlot(r) ==
    /\ restoring[r].at = "slot"
    /\ IF target.database = None /\ target.artifacts = None
       THEN RestoreGoes(r, [restoring[r] EXCEPT !.at = "stage", !.todo = restoring[r].manifest])
       ELSE RestoreEnds(r, "refused")
    /\ UNCHANGED <<kernel, backup, writing, target, changes, damages>>

(* Each file is hashed again as it is staged. *)
StageFile(r) ==
    /\ restoring[r].at = "stage"
    /\ \E a \in restoring[r].todo :
          IF Intact(a) \in backup.files
          THEN RestoreGoes(r, [restoring[r] EXCEPT !.staged = @ \cup {a}, !.todo = @ \ {a}])
          ELSE RestoreEnds(r, "refused")
    /\ UNCHANGED <<kernel, backup, writing, target, changes, damages>>

(* commit_staged: the artifact directory is renamed into place, which fails on
   one that holds files, and the database is linked after it; a link refused
   takes the artifacts away again. *)
MutInstallArtifacts(r) ==
    /\ restoring[r].at = "stage" /\ restoring[r].todo = {}
    /\ target' = [target EXCEPT !.artifacts = Some(restoring[r].staged)]
    /\ RestoreGoes(r, [restoring[r] EXCEPT !.at = "link"])
    /\ UNCHANGED <<kernel, backup, writing, changes, damages>>
InstallArtifacts(r) ==
    /\ restoring[r].at = "stage" /\ restoring[r].todo = {}
    /\ IF target.artifacts = None \/ target.artifacts = Some({})
       THEN /\ target' = [target EXCEPT !.artifacts = Some(restoring[r].staged)]
            /\ RestoreGoes(r, [restoring[r] EXCEPT !.at = "link"])
       ELSE UNCHANGED target /\ RestoreEnds(r, "failed")
    /\ UNCHANGED <<kernel, backup, writing, changes, damages>>
LinkDatabase(r) ==
    /\ restoring[r].at = "link"
    /\ IF target.database = None
       THEN target' = [target EXCEPT !.database = Some(restoring[r].manifest)] /\ RestoreEnds(r, "restored")
       ELSE target' = [target EXCEPT !.artifacts = None] /\ RestoreEnds(r, "failed")
    /\ UNCHANGED <<kernel, backup, writing, changes, damages>>

StopRestore(r) ==
    /\ restoring[r].at \in {"slot", "stage", "link"} /\ RestoreEnds(r, "stopped")
    /\ UNCHANGED <<kernel, backup, writing, target, changes, damages>>

(* Any command may open the kernel of the target, which makes its database
   when there is none; what it stores beside a restore is not modelled. *)
OpenTarget ==
    /\ target.database = None
    /\ target' = [target EXCEPT !.database = Some({})]
    /\ UNCHANGED <<kernel, backup, writing, restoring, changes, damages>>

BackupNext ==
    \/ Kernel \/ Snapshot \/ CopyArtifact \/ WriteManifest \/ StopBackup \/ Damage \/ OpenTarget
    \/ \E r \in Restores :
          Validate(r) \/ CheckSlot(r) \/ StageFile(r) \/ InstallArtifacts(r) \/ LinkDatabase(r) \/ StopRestore(r)

-----------------------------------------------------------------------------
(* A kernel restored has the file of every artifact its database records,
   although the kernel went on while it was backed up, the backup may have
   been damaged at any moment, also while it was staged, several restores ran
   at once and any of them stopped half-way; and a restore that reports
   success left exactly what the backup's snapshot recorded. *)
RestoredIsWhole ==
    /\ target.database # None =>
          The(target.database) = {} \/ (target.artifacts # None /\ The(target.database) \subseteq The(target.artifacts))
    /\ \A r \in Restores : restoring[r].at = "restored" => target.database = backup.database
=============================================================================
