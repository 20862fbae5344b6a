------------------------------- MODULE Opening -------------------------------
(***************************************************************************)
(* How a process opens the kernel (maestro-kernel, store, scope and        *)
(* journal; maestro, kernel.rs): the database file is made and linked into *)
(* place, the migrations it lacks are applied, and the grants of the local *)
(* principal are reconciled with config.toml, each change journaled in the *)
(* principal's stream, whose events consumers read and acknowledge.        *)
(*                                                                         *)
(* Processes of two versions of the program open one directory at once,    *)
(* each stopping anywhere, while config.toml is rewritten.  A scope is the *)
(* sequence of its <<kind, name>> segments.                                *)
(***************************************************************************)
EXTENDS Integers, Sequences, FiniteSets, SequencesExt

CONSTANTS Openers,     \* process -> the migrations its program knows
          Configs,     \* version of config.toml -> [toml, scopes]
          Consumers,
          MaxReconciled \* bounds how often the grants are reconciled

VARIABLES database,    \* [exists, applied]: the file and the migrations it records, in order
          config,      \* the version of config.toml
          writer,      \* who holds the write lock of the database
          opening,     \* the processes
          grants, reconciled, \* the scopes granted to `local`, and the versions applied
          principal,   \* the stream of the principal
          cursors
openingVars == <<database, config, writer, opening, grants, reconciled, principal, cursors>>

Nobody == {}
NewProcess == [at |-> "start", pending |-> {}, loaded |-> 0, scopes |-> {}]

OpeningInit ==
    /\ database = [exists |-> FALSE, applied |-> << >>]
    /\ config = 1 /\ writer = Nobody
    /\ opening = [p \in DOMAIN Openers |-> NewProcess]
    /\ grants = {} /\ reconciled = << >> /\ principal = << >>
    /\ cursors = [c \in Consumers |-> 0]

Goes(p, step) == opening' = [opening EXCEPT ![p].at = step]
Access == <<grants, reconciled, principal, cursors>>

-----------------------------------------------------------------------------
(* Scope::from_str and Scope::covers: a path names a workspace, then a
   collection, then a source, and covers every path it is a prefix of. *)
Kinds == <<"workspace", "collection", "source">>
IsScope(path) ==
    /\ Len(path) \in 1 .. Len(Kinds)
    /\ \A i \in DOMAIN path : path[i][1] = Kinds[i] /\ path[i][2] # ""
Covers(scope, path) == IsPrefix(scope, path)
SetCovers(scopes, path) == \E s \in scopes : Covers(s, path)
KnownScopes(scopes, known) == {path \in known : SetCovers(scopes, path)}

(* Config::load: a missing file grants nothing, and one that is not TOML, has
   another key or names what is not a scope refuses to open. *)
Readable(version) == Configs[version].toml /\ \A s \in Configs[version].scopes : IsScope(s)

-----------------------------------------------------------------------------
(* create_file and link_new_file: a private file in WAL mode is linked into
   place, and one already there is left. *)
CreateFile(p) ==
    /\ opening[p].at = "start"
    /\ IF database.exists THEN Goes(p, "pending") ELSE Goes(p, "link")
    /\ UNCHANGED <<database, config, writer, Access>>
LinkFile(p) ==
    /\ opening[p].at = "link"
    /\ database' = [database EXCEPT !.exists = TRUE]
    /\ Goes(p, "pending")
    /\ UNCHANGED <<config, writer, Access>>

(* pending: a recorded migration this program does not know refuses it. *)
ReadPending(p) ==
    /\ opening[p].at = "pending"
    /\ IF ToSet(database.applied) \subseteq Openers[p]
       THEN opening' = [opening EXCEPT ![p].at = "migrate",
                                       ![p].pending = Openers[p] \ ToSet(database.applied)]
       ELSE Goes(p, "refused")
    /\ UNCHANGED <<database, config, writer, Access>>

(* apply, in the order of their names: one transaction, which looks again
   whether another process applied the migration meanwhile. *)
Applied(m) == IF m \in ToSet(database.applied) THEN database.applied ELSE Append(database.applied, m)
ApplyMigration(p) ==
    /\ opening[p].at = "migrate" /\ writer = Nobody
    /\ IF opening[p].pending = {} THEN Goes(p, "refresh") /\ UNCHANGED database
       ELSE LET next == Min(opening[p].pending) IN
            /\ database' = [database EXCEPT !.applied = Applied(next)]
            /\ opening' = [opening EXCEPT ![p].pending = @ \ {next}]
    /\ UNCHANGED <<config, writer, Access>>

-----------------------------------------------------------------------------
(* refresh_config: config.toml is read once the write lock is held, so that no
   process writes the grants of a file another has read newer. *)
MutBeginRefresh(p) ==
    /\ opening[p].at = "refresh" /\ writer = Nobody
    /\ Goes(p, "load")
    /\ UNCHANGED <<database, config, writer, Access>>
BeginRefresh(p) ==
    /\ opening[p].at = "refresh" /\ writer = Nobody
    /\ writer' = {p} /\ Goes(p, "load")
    /\ UNCHANGED <<database, config, Access>>

LoadConfig(p) ==
    /\ opening[p].at = "load"
    /\ IF Readable(config)
       THEN opening' = [opening EXCEPT ![p].at = "reconcile", ![p].loaded = config] /\ UNCHANGED writer
       ELSE Goes(p, "refused") /\ writer' = writer \ {p}
    /\ UNCHANGED <<database, config, Access>>

(* add and remove journal only what they changed, in scope order; the grants
   added come before the ones revoked. *)
Event(type, scope) == [type |-> type, scope |-> scope]
Events(type, scopes) ==
    LET order == SetToSeq(scopes) IN [i \in DOMAIN order |-> Event(type, order[i])]
Reconcile(p) ==
    LET wanted == Configs[opening[p].loaded].scopes IN
    /\ opening[p].at = "reconcile" /\ writer \subseteq {p}
    /\ Len(reconciled) < MaxReconciled
    /\ principal' = principal \o Events("added", wanted \ grants) \o Events("revoked", grants \ wanted)
    /\ grants' = wanted
    /\ reconciled' = Append(reconciled, opening[p].loaded)
    /\ opening' = [opening EXCEPT ![p] = [NewProcess EXCEPT !.at = "open", !.scopes = wanted]]
    /\ writer' = writer \ {p}
    /\ UNCHANGED <<database, config, cursors>>

(* refresh_scopes of a kernel that is open. *)
RefreshScopes(p) ==
    /\ opening[p].at = "open"
    /\ opening' = [opening EXCEPT ![p].at = "refresh"]
    /\ UNCHANGED <<database, config, writer, Access>>

(* ack: a cursor moves forward, never past the end of its stream. *)
Ack(p, c, position) ==
    /\ opening[p].at = "open" /\ writer = Nobody
    /\ position > cursors[c] /\ position <= Len(principal)
    /\ cursors' = [cursors EXCEPT ![c] = position]
    /\ UNCHANGED <<database, config, writer, opening, grants, reconciled, principal>>

Stop(p) ==
    /\ opening[p].at \notin {"start", "stopped", "refused"}
    /\ Goes(p, "stopped") /\ writer' = writer \ {p}
    /\ UNCHANGED <<database, config, Access>>

EditConfig ==
    /\ config + 1 \in DOMAIN Configs /\ config' = config + 1
    /\ UNCHANGED <<database, writer, opening, Access>>

OpeningNext ==
    \/ \E p \in DOMAIN Openers :
          CreateFile(p) \/ LinkFile(p) \/ ReadPending(p) \/ ApplyMigration(p) \/ BeginRefresh(p)
          \/ LoadConfig(p) \/ Reconcile(p) \/ RefreshScopes(p) \/ Stop(p)
          \/ \E c \in Consumers, i \in DOMAIN principal : Ack(p, c, i)
    \/ EditConfig

-----------------------------------------------------------------------------
(* However the openings of two versions of the program interleave and stop, a
   migration is applied once, and a process that is open found every migration
   it knows applied; the older program never opens a database the newer one
   migrated further before it looked. *)
MigratedOnce ==
    /\ \A i, j \in DOMAIN database.applied : i # j => database.applied[i] # database.applied[j]
    /\ \A p \in DOMAIN Openers :
          opening[p].at \in {"refresh", "load", "reconcile", "open"}
             => Openers[p] \subseteq ToSet(database.applied)

(* What the first n events of a stream leave of a scope. *)
Replayed(events, s, n) ==
    \E i \in 1 .. n : /\ events[i] = Event("added", s)
                     /\ \A j \in (i + 1) .. n : events[j].scope # s
Tells(events, granted) ==
    /\ \A i \in DOMAIN events :
          events[i].type = IF Replayed(events, events[i].scope, i - 1) THEN "revoked" ELSE "added"
    /\ \A s \in granted \cup {events[i].scope : i \in DOMAIN events} :
          s \in granted <=> Replayed(events, s, Len(events))

(* The grants follow config.toml forward: no process, however long it waited
   between opening and reconciling, puts back the grants of an older file than
   one already applied, and the principal's stream, replayed, tells exactly the
   grants, each change once. *)
GrantsFollowConfig ==
    /\ \A i, j \in DOMAIN reconciled : i < j => reconciled[i] <= reconciled[j]
    /\ reconciled # << >> => grants = Configs[Last(reconciled)].scopes
    /\ Tells(principal, grants)
    /\ \A c \in Consumers : cursors[c] <= Len(principal)
=============================================================================
