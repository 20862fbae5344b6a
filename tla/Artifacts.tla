------------------------------ MODULE Artifacts ------------------------------
(***************************************************************************)
(* The kernel's artifact store: content-addressed files under sha256/ and  *)
(* the rows of the `artifacts` table that name and pin them.               *)
(*                                                                         *)
(* Processes store bytes (Database::put), then pin the digest in the write *)
(* that records a reference to it, while any process may collect garbage.  *)
(* Database writes are immediate transactions and therefore single actions;*)
(* every file-system step between them is an action of its own, so puts    *)
(* and collections interleave as they do between operating-system          *)
(* processes that share one state directory.                               *)
(*                                                                         *)
(* Bytes are identified with their digest (a SHA-256 collision is out of   *)
(* scope).  A temporary `.tmp-` file is never read, so writing one shows   *)
(* only as the program counter of its writer.                              *)
(***************************************************************************)
EXTENDS Integers

CONSTANTS Process,   \* processes that have the database open
          Digest,    \* digests of the bytes they store
          Media,     \* media types a put may record
          MaxPins,   \* bound: pins one artifact may gather
          Faults     \* which of "crash", "io" and "rot" may happen

ASSUME MaxPinsAssumption == MaxPins \in Nat

VARIABLES
    file,      \* what stands at a digest's path: "none", "intact", "damaged"
    recorded,  \* the digests that have a row
    media,     \* the media column of each row
    pins,      \* the pins column of each row; 0 where there is no row
    pc,        \* where each process is in its put or its collection
    arg,       \* the digest a put works on
    kind,      \* the media type a put was given
    todo,      \* a collection: rows listed, then rows deleted, files to go
    torn       \* history: rows left by a put cut short before its last step

vars == <<file, recorded, media, pins, pc, arg, kind, todo, torn>>
table == <<recorded, media, pins>>
call == <<arg, kind>>

PutSteps == {"store", "place", "record", "again", "replace", "returned"}
GarbageSteps == {"delete", "remove"}

TypeOK ==
    /\ file \in [Digest -> {"none", "intact", "damaged"}]
    /\ recorded \in SUBSET Digest
    /\ media \in [Digest -> Media]
    /\ pins \in [Digest -> 0..MaxPins]
    /\ pc \in [Process -> {"idle"} \cup PutSteps \cup GarbageSteps]
    /\ arg \in [Process -> Digest]
    /\ kind \in [Process -> Media]
    /\ todo \in [Process -> SUBSET Digest]
    /\ torn \in SUBSET Digest

(* A new state directory: no file, no row, nobody at work. *)
Init ==
    /\ file = [d \in Digest |-> "none"]
    /\ recorded = {}
    /\ media \in [Digest -> Media]
    /\ pins = [d \in Digest |-> 0]
    /\ pc = [p \in Process |-> "idle"]
    /\ arg \in [Process -> Digest]
    /\ kind \in [Process -> Media]
    /\ todo = [p \in Process |-> {}]
    /\ torn = {}

Goto(p, step) == pc' = [pc EXCEPT ![p] = step]

-----------------------------------------------------------------------------
(* Database::put and the reference its caller records afterwards.          *)

(* A caller hands bytes to Database::put. *)
BeginPut(p, d, m) ==
    /\ pc[p] = "idle"
    /\ arg' = [arg EXCEPT ![p] = d]
    /\ kind' = [kind EXCEPT ![p] = m]
    /\ Goto(p, "store")
    /\ UNCHANGED <<file, table, todo, torn>>

(* Store::put reads the stored copy back: intact bytes are not written     *)
(* again, anything else is replaced by a copy written beside it.           *)
ReadBack(p, from, intact, other) ==
    /\ pc[p] = from
    /\ Goto(p, IF file[arg[p]] = "intact" THEN intact ELSE other)
    /\ UNCHANGED <<file, table, call, todo, torn>>

(* Store::put renames its flushed copy over whatever stands at the path. *)
Rename(p, from, next) ==
    /\ pc[p] = from
    /\ file' = [file EXCEPT ![arg[p]] = "intact"]
    /\ torn' = torn \ {arg[p]}
    /\ Goto(p, next)
    /\ UNCHANGED <<table, call, todo>>

(* The first store, before the row is recorded. *)
StoreRead(p) == ReadBack(p, "store", "record", "place")
StorePlace(p) == Rename(p, "place", "record")

(* Mutant: the second store is forgotten: the put returns after its row. *)
MutRecordReturns(p) ==
    LET d == arg[p] IN
    /\ pc[p] = "record"
    /\ IF d \in recorded /\ media[d] # kind[p]
       THEN Goto(p, "idle") /\ UNCHANGED table
       ELSE /\ Goto(p, "returned")
            /\ recorded' = recorded \cup {d}
            /\ media' = [media EXCEPT ![d] = kind[p]]
            /\ UNCHANGED pins
    /\ UNCHANGED <<file, call, todo, torn>>

(* record, in one transaction: a row already there is kept with its pins,  *)
(* and refused when it has another media type.                             *)
Record(p) ==
    LET d == arg[p] IN
    /\ pc[p] = "record"
    /\ IF d \in recorded /\ media[d] # kind[p]
       THEN Goto(p, "idle") /\ UNCHANGED table
       ELSE /\ Goto(p, "again")
            /\ recorded' = recorded \cup {d}
            /\ media' = [media EXCEPT ![d] = kind[p]]
            /\ UNCHANGED pins
    /\ UNCHANGED <<file, call, todo, torn>>

(* The second store, which writes only a copy a collection removed. *)
AgainRead(p) == ReadBack(p, "again", "returned", "replace")
AgainPlace(p) == Rename(p, "replace", "returned")

(* The caller's next write records its reference and pins the digest, or   *)
(* rolls back with UnknownArtifact when a collection deleted the row since. *)
Pin(p) ==
    LET d == arg[p] IN
    /\ pc[p] = "returned"
    /\ pins[d] < MaxPins
    /\ pins' = [pins EXCEPT ![d] = IF d \in recorded THEN @ + 1 ELSE @]
    /\ Goto(p, "idle")
    /\ UNCHANGED <<file, recorded, media, call, todo, torn>>

(* A caller that records no reference to the digest it was given. *)
Forget(p) ==
    /\ pc[p] = "returned"
    /\ Goto(p, "idle")
    /\ UNCHANGED <<file, table, call, todo, torn>>

(* A write that removes a reference: the pins never go below zero. *)
Unpin(d) ==
    /\ d \in recorded
    /\ pins[d] > 0
    /\ pins' = [pins EXCEPT ![d] = @ - 1]
    /\ UNCHANGED <<file, recorded, media, pc, call, todo, torn>>

-----------------------------------------------------------------------------
(* Database::collect_garbage.                                              *)

(* garbage(): the rows without a pin, read outside any write. *)
Garbage(p) ==
    /\ pc[p] = "idle"
    /\ todo' = [todo EXCEPT ![p] = {d \in recorded : pins[d] = 0}]
    /\ Goto(p, "delete")
    /\ UNCHANGED <<file, table, call, torn>>

(* Mutant: delete_rows trusts the listing and does not look at the pins again. *)
MutStillGarbage(p) == todo[p] \cap recorded

(* The listed rows that still have no pin. *)
StillGarbage(p) == {d \in todo[p] : d \in recorded /\ pins[d] = 0}

(* delete_rows: one transaction deletes what is still unpinned. *)
DeleteRows(p) ==
    LET gone == StillGarbage(p) IN
    /\ pc[p] = "delete"
    /\ recorded' = recorded \ gone
    /\ torn' = torn \ gone
    /\ todo' = [todo EXCEPT ![p] = gone]
    /\ Goto(p, "remove")
    /\ UNCHANGED <<file, media, pins, call>>

(* remove_unrecorded: the unlink happens under the write lock, and only    *)
(* when no row names the digest again.                                     *)
RemoveUnrecorded(p, d) ==
    /\ pc[p] = "remove"
    /\ d \in todo[p]
    /\ file' = IF d \in recorded THEN file ELSE [file EXCEPT ![d] = "none"]
    /\ todo' = [todo EXCEPT ![p] = @ \ {d}]
    /\ UNCHANGED <<table, pc, call, torn>>

(* The collection returns once every deleted row's file was tried. *)
CollectionReturns(p) ==
    /\ pc[p] = "remove"
    /\ todo[p] = {}
    /\ Goto(p, "idle")
    /\ UNCHANGED <<file, table, call, todo, torn>>

-----------------------------------------------------------------------------
(* What may go wrong.                                                      *)

(* A row whose put ends at its last step is torn from then on. *)
TornBy(p) == IF pc[p] \in {"again", "replace"} THEN {arg[p]} ELSE {}

(* The process dies; what it committed and renamed stays. *)
Crash(p) ==
    /\ "crash" \in Faults
    /\ pc[p] # "idle"
    /\ torn' = torn \cup TornBy(p)
    /\ todo' = [todo EXCEPT ![p] = {}]
    /\ Goto(p, "idle")
    /\ UNCHANGED <<file, table, call>>

(* A directory, a write, a flush or the rename of Store::put fails: the    *)
(* put returns the error and the path keeps what it had.                   *)
StoreFails(p) ==
    /\ "io" \in Faults
    /\ pc[p] \in {"place", "replace"}
    /\ torn' = torn \cup TornBy(p)
    /\ Goto(p, "idle")
    /\ UNCHANGED <<file, table, call, todo>>

(* An unlink fails: the file stays and the collection goes on to the next. *)
RemoveFails(p, d) ==
    /\ "io" \in Faults
    /\ pc[p] = "remove"
    /\ d \in todo[p] \ recorded
    /\ todo' = [todo EXCEPT ![p] = @ \ {d}]
    /\ UNCHANGED <<file, table, pc, call, torn>>

(* A stored copy stops matching its digest. *)
Damage(d) ==
    /\ "rot" \in Faults
    /\ file[d] = "intact"
    /\ file' = [file EXCEPT ![d] = "damaged"]
    /\ UNCHANGED <<table, pc, call, todo, torn>>

-----------------------------------------------------------------------------
(* The steps a running process takes by itself once it has begun. *)
Proceed(p) ==
    \/ StoreRead(p) \/ StorePlace(p) \/ Record(p)
    \/ AgainRead(p) \/ AgainPlace(p)
    \/ DeleteRows(p) \/ CollectionReturns(p)
    \/ \E d \in Digest : RemoveUnrecorded(p, d)

Next ==
    \/ \E p \in Process :
        \/ \E d \in Digest, m \in Media : BeginPut(p, d, m)
        \/ Pin(p) \/ Forget(p) \/ Garbage(p)
        \/ Proceed(p)
        \/ Crash(p) \/ StoreFails(p)
        \/ \E d \in Digest : RemoveFails(p, d)
    \/ \E d \in Digest : Unpin(d) \/ Damage(d)

Spec == Init /\ [][Next]_vars

(* A process that is at work is scheduled again until it returns or dies,  *)
(* and its transactions wait for the write lock but not for ever.          *)
Fairness == \A p \in Process : WF_vars(Proceed(p))
FairSpec == Spec /\ Fairness

-----------------------------------------------------------------------------
(* Properties.                                                             *)

(* The puts of a digest that recorded its row and have yet to store again. *)
Finishing(d) == \E p \in Process : pc[p] \in {"again", "replace"} /\ arg[p] = d

(* store/mod.rs: "a put and a collection, in one process or several and in *)
(* any order, end with every recorded artifact's file in place".  A row    *)
(* without a file exists only while a put that recorded it is about to     *)
(* store its bytes again, or after such a put was cut short.               *)
RecordedHasFile ==
    \A d \in recorded : file[d] = "none" => Finishing(d) \/ d \in torn

(* A reference is only ever recorded to an artifact that has a row: the    *)
(* pins of a digest without a row are zero, so deleting a row, recording   *)
(* it anew and pinning it never resurrects or loses somebody's pin.        *)
PinnedIsRecorded == \A d \in Digest : pins[d] > 0 => d \in recorded

(* "Garbage collection removes only artifacts with no pin": no step, of a  *)
(* collection that listed the artifact before it was pinned least of all,  *)
(* deletes a pinned artifact's row, removes its file or changes its type.  *)
PinnedArtifactStays ==
    [][\A d \in Digest : pins[d] > 0 =>
        /\ d \in recorded' /\ media'[d] = media[d]
        /\ file[d] # "none" => file'[d] # "none"]_vars

(* A recorded artifact whose file a collection removed gets it back, or    *)
(* loses its row, without anybody doing more than what is under way: only  *)
(* a put cut short at its last step leaves it so.                          *)
RecordedGetsItsFile ==
    \A d \in Digest :
        (d \in recorded /\ file[d] = "none" /\ d \notin torn) ~>
            (d \notin recorded \/ file[d] # "none" \/ d \in torn)

(* store/mod.rs: "a crash leaves at worst a file no row names".  Stated    *)
(* without the history variable: a row without a file is a put in progress. *)
CrashLeavesAtWorstAFile ==
    \A d \in recorded : file[d] = "none" => Finishing(d)
=============================================================================
