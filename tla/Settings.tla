------------------------------- MODULE Settings ------------------------------
(***************************************************************************)
(* Preferences (maestro-settings; maestro, cli/config and settings): what  *)
(* a value may be, how the default, the user file, the project file and    *)
(* the flags of a command resolve, and how `config set` and `config unset` *)
(* change one file under its lock and journal the change.                  *)
(*                                                                         *)
(* Commands interleave call by call and may die anywhere; another program, *)
(* which takes no lock, may rewrite the file or leave it invalid.  A file  *)
(* is absent, {}, or {text}, a text being valid or not and holding a value *)
(* for some keys.                                                          *)
(***************************************************************************)
EXTENDS Integers, Sequences, FiniteSets, Functions

CONSTANTS Descriptors,    \* key -> [kind, class, default]
          Changes,        \* command -> [key, value]: one `config set` or `unset`
          MaxRewrites     \* bounds what another program writes

VARIABLES folder,         \* whether the directory of the file exists
          file, previous, \* the preferences file and its recovery copy
          locked,         \* the command holding the lock file, or nobody
          edits,          \* the commands
          history,        \* the settings stream of the principal
          untold,         \* keys whose value in the file no journaled change explains
          rewrites
settingsVars == <<folder, file, previous, locked, edits, history, untold, rewrites>>

None == {}
Some(x) == {x}
The(option) == CHOOSE x \in option : TRUE
Keys == DOMAIN Descriptors
Commands == DOMAIN Changes
Off == -1000000
Texts(valid, values) == [valid |-> valid, values |-> values]

-----------------------------------------------------------------------------
(* What a kind accepts of a text; numbers stand for themselves, every other
   text is a string, and Off is "off". *)
IntegerKind(min, max, off) == [type |-> "integer", min |-> min, max |-> max, off |-> off, values |-> {}]
ChoiceKind(values) == [type |-> "choice", min |-> 0, max |-> 0, off |-> FALSE, values |-> values]
Accepts(kind, value) ==
    IF kind.type = "integer" THEN value \in kind.min .. kind.max \/ (value = Off /\ kind.off)
    ELSE value \in kind.values

(* check_descriptor: the registry refuses classes it cannot resolve, an empty
   range or no values, and a default its own kind refuses. *)
SoundDescriptor(d) ==
    /\ d.class \notin {"bounded", "additive"}
    /\ IF d.kind.type = "integer" THEN d.kind.min <= d.kind.max ELSE d.kind.values # {}
    /\ Accepts(d.kind, d.default)

(* A layer is the values of a file, when every one is of a known, unlocked
   key and of its kind. *)
ParsesAs(text) ==
    IF text.valid /\ \A k \in DOMAIN text.values : Descriptors[k].class # "locked" /\ Accepts(Descriptors[k].kind, text.values[k])
    THEN Some(text.values) ELSE None

(* The value of a key and the layer it comes from: a flag, else the project
   file, else the user file, else the default. *)
Resolve(key, flags, project, user) ==
    IF key \in DOMAIN flags THEN <<"flag", flags[key]>>
    ELSE IF key \in DOMAIN project THEN <<"project", project[key]>>
    ELSE IF key \in DOMAIN user THEN <<"user", user[key]>>
    ELSE <<"default", Descriptors[key].default>>

(* Session::at: the flags, the project file and then the user file must each
   be readable; the knowledge settings read from what they resolve to switch
   every stage that needs a model off with models.compute, and are refused
   when the reranker would read more than fusion keeps. *)
FlagsParse(flags) == \A k \in DOMAIN flags : Descriptors[k].class # "locked" /\ Accepts(Descriptors[k].kind, flags[k])
Session(flags, project, user) ==
    IF FlagsParse(flags) /\ project # None /\ user # None
    THEN Some([k \in Keys |-> Resolve(k, flags, The(project), The(user))]) ELSE None
KnowledgeSettings(resolved) ==
    LET of(key) == resolved[key][2]
        models == of("models.compute") = "gpu" IN
    IF of("search.rerank.depth") > of("search.fusion_pool") THEN None
    ELSE Some([depth |-> of("search.rerank.depth"), pool |-> of("search.fusion_pool"),
               dense |-> models, rerank |-> models, intent |-> models /\ of("search.intent.expansion") # "off"])

Valued(layer, key) == IF key \in DOMAIN layer THEN Some(layer[key]) ELSE None
With(layer, key, value) ==
    [k \in (DOMAIN layer \ {key}) \cup {j \in {key} : value # None} |-> IF k = key THEN The(value) ELSE layer[k]]

-----------------------------------------------------------------------------
NewEdit == [at |-> "start", before |-> None, published |-> None, old |-> None]
Empty == [k \in {} |-> 0]

SettingsInit ==
    /\ folder \in BOOLEAN /\ file = None /\ previous = None /\ locked = None
    /\ edits = [c \in Commands |-> NewEdit]
    /\ history = << >> /\ untold = {} /\ rewrites = 0

Goes(c, step) == edits' = [edits EXCEPT ![c].at = step]
(* The lock is released when the edit ends, however it ends. *)
EndsAs(c, outcome) == Goes(c, outcome) /\ locked' = locked \ {c}
KeyOf(c) == Changes[c].key
Layer(text) == IF text = None THEN Some(Empty) ELSE ParsesAs(The(text))

(* run_with up to FileEdit::begin: an unknown or locked key and a refused
   value end the command before any file is opened; a set creates the
   directory, and an unset where there is none has nothing to change. *)
MaySet(c) == Descriptors[KeyOf(c)].class # "locked" /\ \A v \in Changes[c].value : Accepts(Descriptors[KeyOf(c)].kind, v)
Begin(c) ==
    /\ edits[c].at = "start"
    /\ IF ~MaySet(c) THEN EndsAs(c, "refused") /\ folder' = folder
       ELSE IF Changes[c].value = None /\ ~folder THEN EndsAs(c, "unchanged") /\ folder' = folder
       ELSE Goes(c, "lock") /\ folder' = TRUE /\ locked' = locked
    /\ UNCHANGED <<file, previous, history, untold, rewrites>>

(* The lock is taken, or waited for, and then the file is read; a link, or
   what cannot be locked or read, is refused. *)
MutTakeLock(c) ==
    /\ edits[c].at = "lock"
    /\ locked' = Some(c)
    /\ edits' = [edits EXCEPT ![c].at = "edit", ![c].before = file]
    /\ UNCHANGED <<folder, file, previous, history, untold, rewrites>>
TakeLock(c) ==
    /\ edits[c].at = "lock"
    /\ \/ /\ locked = None /\ locked' = Some(c)
          /\ edits' = [edits EXCEPT ![c].at = "edit", ![c].before = file]
       \/ EndsAs(c, "refused")
    /\ UNCHANGED <<folder, file, previous, history, untold, rewrites>>

(* The edit of the text: refused when the file does not parse or its layout
   cannot be edited safely, nothing when the value is there already, and
   otherwise a text that parses as the layer with the one change. *)
EditText(c) ==
    LET layer == Layer(edits[c].before)
        old == Valued(The(layer), KeyOf(c)) IN
    /\ edits[c].at = "edit"
    /\ \/ layer = None /\ EndsAs(c, "refused")
       \/ layer # None /\ old = Changes[c].value /\ EndsAs(c, "unchanged")
       \/ layer # None /\ old # Changes[c].value /\ edits[c].before # None /\ EndsAs(c, "refused")
       \/ /\ layer # None /\ old # Changes[c].value
          /\ edits' = [edits EXCEPT ![c].at = "kernel", ![c].old = old,
                                    ![c].published = Some(Texts(TRUE, With(The(layer), KeyOf(c), Changes[c].value)))]
          /\ UNCHANGED locked
    /\ UNCHANGED <<folder, file, previous, history, untold, rewrites>>

(* The kernel opens, or the command ends with nothing written. *)
OpenKernel(c) ==
    /\ edits[c].at = "kernel"
    /\ (Goes(c, "check") /\ UNCHANGED locked) \/ EndsAs(c, "failed")
    /\ UNCHANGED <<folder, file, previous, history, untold, rewrites>>

(* FileEdit::publish: the file is read once more, and refused when it changed
   or cannot be read; its recovery copy is written, and the new text renamed
   over it. *)
CheckUnchanged(c) ==
    /\ edits[c].at = "check"
    /\ \/ file = edits[c].before /\ Goes(c, "copy") /\ UNCHANGED locked
       \/ EndsAs(c, "refused")
    /\ UNCHANGED <<folder, file, previous, history, untold, rewrites>>

KeepRecovery(c) ==
    /\ edits[c].at = "copy"
    /\ IF edits[c].before = None THEN Goes(c, "replace") /\ UNCHANGED <<previous, locked>>
       ELSE \/ previous' = edits[c].before /\ Goes(c, "replace") /\ UNCHANGED locked
            \/ previous' \in {previous, edits[c].before} /\ EndsAs(c, "failed")
    /\ UNCHANGED <<folder, file, history, untold, rewrites>>

(* A directory that cannot be synced after the rename fails the replacement
   too, when the file is the new one already and no record will tell it. *)
Replace(c) ==
    /\ edits[c].at = "replace"
    /\ \/ file' = edits[c].published /\ Goes(c, "journal") /\ UNCHANGED <<previous, locked, untold>>
       \/ EndsAs(c, "failed") /\ previous' \in {None, previous} /\ UNCHANGED <<file, untold>>
       \/ /\ file' = edits[c].published /\ EndsAs(c, "failed") /\ previous' \in {None, previous}
          /\ untold' = untold \cup {KeyOf(c)}
    /\ UNCHANGED <<folder, history, rewrites>>

(* record_setting_change, then keep; else undo, which reads the file first. *)
Record(c) == [key |-> KeyOf(c), old |-> edits[c].old, new |-> Changes[c].value]
JournalChange(c) ==
    /\ edits[c].at = "journal"
    /\ \/ history' = Append(history, Record(c)) /\ Goes(c, "keep") /\ UNCHANGED locked
       \/ Goes(c, "undo") /\ UNCHANGED <<history, locked>>
    /\ UNCHANGED <<folder, file, previous, rewrites, untold>>

Keep(c) ==
    /\ edits[c].at = "keep"
    /\ EndsAs(c, "changed") /\ previous' \in {None, previous}
    /\ UNCHANGED <<folder, file, history, untold, rewrites>>

Undo(c) ==
    /\ edits[c].at = "undo"
    /\ IF file # edits[c].published
       THEN EndsAs(c, "not restored") /\ UNCHANGED file /\ untold' = untold \cup {KeyOf(c)}
       ELSE \/ file' = edits[c].before /\ Goes(c, "confirm") /\ UNCHANGED <<locked, untold>>
            \/ EndsAs(c, "not restored") /\ file' \in {file, edits[c].before} /\ untold' = untold \cup {KeyOf(c)}
    /\ UNCHANGED <<folder, previous, history, rewrites>>

Confirm(c) ==
    /\ edits[c].at = "confirm"
    /\ IF file # edits[c].before THEN EndsAs(c, "not restored") /\ UNCHANGED previous
       ELSE EndsAs(c, "restored") /\ previous' \in IF edits[c].before = None THEN {previous} ELSE {None, previous}
    /\ UNCHANGED <<folder, file, history, untold, rewrites>>

Ended == {"refused", "unchanged", "failed", "changed", "restored", "not restored", "dead"}
Die(c) ==
    /\ edits[c].at \notin Ended
    /\ EndsAs(c, "dead")
    /\ untold' = IF edits[c].at \in {"journal", "undo"} THEN untold \cup {KeyOf(c)} ELSE untold
    /\ UNCHANGED <<folder, file, previous, history, rewrites>>

(* Another program, which takes no lock. *)
Rewrite(text) ==
    /\ folder /\ rewrites < MaxRewrites /\ Some(text) # file
    /\ file' = Some(text) /\ rewrites' = rewrites + 1 /\ untold' = Keys
    /\ UNCHANGED <<folder, previous, locked, edits, history>>
Rewritings == {Texts(FALSE, Empty)} \cup {Texts(TRUE, [k \in {j} |-> Descriptors[j].default]) : j \in Keys}

SettingsNext ==
    \/ \E c \in Commands :
          Begin(c) \/ TakeLock(c) \/ EditText(c) \/ OpenKernel(c) \/ CheckUnchanged(c) \/ KeepRecovery(c)
          \/ Replace(c) \/ JournalChange(c) \/ Keep(c) \/ Undo(c) \/ Confirm(c) \/ Die(c)
    \/ \E text \in Rewritings : Rewrite(text)

-----------------------------------------------------------------------------
(* What the history tells of a key: the new value of its last change. *)
Told(key) ==
    LET told == {i \in DOMAIN history : history[i].key = key} IN
    IF told = {} THEN None ELSE history[CHOOSE i \in told : \A j \in told : j <= i].new

(* Commands of the same file, interleaved, failing half-way, undone and dying:
   a key that neither another program nor a change left unjournaled touched
   holds what its last journaled change says, except while a command is
   between publishing and journaling it, and every journaled change tells the
   value the change before it left.  `untold` is cleared by nothing. *)
HistoryExplainsFile ==
    /\ \A k \in Keys \ untold :
          (\A c \in Commands : KeyOf(c) = k => edits[c].at \notin {"journal", "undo"})
             => (Layer(file) # None => Valued(The(Layer(file)), k) = Told(k))
    /\ \A i, j \in DOMAIN history :
          /\ i < j /\ history[i].key = history[j].key /\ history[j].key \notin untold
          /\ \A m \in i+1 .. j-1 : history[m].key # history[j].key
          => history[j].old = history[i].new

(* Whatever the commands did to the file, a session of any command reads it,
   with any accepted flags, unless another program wrote it: half a change is
   never there to be read.  Every key then resolves to a value its kind
   accepts, which is what each consumer of the settings takes for granted, and
   with models off no stage that calls a model stays enabled, whichever layer
   turned them off. *)
SessionsCanRead ==
    \A flags \in {Empty} \cup UNION {[{k} -> Descriptors[k].kind.values \cup {Descriptors[k].default}] : k \in Keys} :
       LET session == Session(flags, Some(Empty), Layer(file)) IN
       /\ rewrites = 0 /\ FlagsParse(flags) => session # None
       /\ session # None =>
             /\ \A k \in Keys : Accepts(Descriptors[k].kind, The(session)[k][2])
             /\ \A settings \in KnowledgeSettings(The(session)) :
                   /\ settings.depth <= settings.pool
                   /\ The(session)["models.compute"][2] = "off" => ~(settings.dense \/ settings.rerank \/ settings.intent)
=============================================================================
