# TLA+ models of the Maestro kernel and knowledge pipeline

These modules model Maestro: the parts where several operating-system processes
share one state directory, one SQLite database and one Qdrant, and where any of
them may die, stall or be run twice; the requests that are served meanwhile; and
the algorithms those rest on. TLC checks the models on small instances; TLAPS
proves most of what it checks, of the kernel, the commands over it, a request,
the server, the parts of search and evaluation, for every value of the
constants. All paths below are relative to the repository's root unless they
name a module of this directory.

Contents: 1 the system, 2 the hard behaviours, 3 the modules, 4 the runs, 5 the
proofs, 6 findings, 7 what is not modelled, 8 the plan.

## 1. The system

Maestro is a set of Rust crates. Every command of the `maestro` binary is a
process of its own: it opens the database, makes kernel calls, and ends. There
is no daemon (the MCP server is one more process), so what two commands do
interleaves at the granularity of the kernel's calls. A kernel call that writes
is one `BEGIN IMMEDIATE` transaction, hence atomic; two calls in a row are not.

| Component | State it keeps | Operations that change it | Correct when |
|---|---|---|---|
| Artifact store (`maestro-kernel/src/store/artifacts.rs`, `artifact/store.rs`) | files under `sha256/`, rows of `artifacts` with their pins | put (store, record, store again), pin, unpin, collect garbage (list, delete rows, remove files) | a row always has its file; nothing pinned is collected |
| Jobs and leases (`maestro-kernel/src/job`) | `jobs` rows, a stream of events per job, a lease number and its expiry | submit, take and take over, heartbeat, progress, complete, cancel | one live job per key, one per resource; a lost lease writes nothing; row and stream agree |
| Foreground jobs (`maestro/src/cli/{foreground,lease,wait}.rs`) | the process: its job, its lease, its heartbeat thread, how far it read a stream | submit, supersede, take, work, beat, complete, follow | one process works on a resource; the exit code is the job's outcome; every command returns |
| Documents (`maestro-kernel/src/document`) | collections, sources, documents, revisions in record order, one disposition per revision, occurrences, near-duplicate groups | record each of them, once | decisions stand; a hold is journaled exactly once; the record order is total |
| Chunk sets (`maestro-kernel/src/chunk_set`) | state, chunks per revision, pinned manifest | begin, record chunks, complete, fail | an ended set never changes; a manifest is pinned exactly when complete |
| Import (`maestro-knowledge/src/import`) | the line it is at | declare, then per line: verify, look up, store, record, hold | a shared source reference is never left undecided |
| Quality gate (`maestro-knowledge/src/quality`) | the revisions it listed | read a disposition, decide, record | each revision it froze is decided |
| Preparation (`maestro-knowledge/src/prepare`) | the revisions it found eligible, the manifest it gathers | read eligible, begin the set, deduplicate, chunk or resume, complete | a set is cut from what the gate let through; its manifest tells what it holds |
| Generations (`maestro-kernel/src/generation`, markers of `retrieval/write.rs`) | `generations` rows, knowledge events | create, verify, fail, publish, retire, begin and complete search inputs | at most one is published per collection, and the stream says which |
| Publication (`maestro-knowledge/src/index`, `maestro/src/cli/publish`) | Qdrant collections, points, the alias; progress on the job's stream | select, build, resume, check, switch, publish, reconcile | only a complete generation is published; the alias is not left behind |
| Opening the kernel (`maestro-kernel/src/{store,scope,journal}`, `maestro/src/kernel.rs`) | the database file, its applied migrations; grants and the principal's stream; consumers' cursors | create and link, migrate, reconcile with `config.toml`, acknowledge | a migration is applied once; grants never go back to an older file; the stream tells each grant once |
| Search and ask (`maestro-knowledge/src/search`, `maestro/src/knowledge/operations`) | nothing durable: a pinned generation, the scopes it was admitted with, deadlines, route outcomes | admit, pin, route, fuse, expand, load, rerank, assemble, chat, check the rights again | what is delivered is granted, of one generation, and no worse for a second pass |
| Evidence (`search/evidence`) | loaded sources, candidates, the selection | read and recheck, select under a budget | every source was eligible; both sides of a conflict or neither |
| Answers (`maestro-knowledge/src/answer`) | the replies of one request | chat, check, repair once, refuse | only cited passages support what is said |
| Retrieval store (`maestro-kernel/src/retrieval`, `index/search_inputs.rs`) | search inputs, identifiers, members, markers | record, verify, begin, complete; look up | an exact lookup finds every chunk that holds the identifier |
| Unit graphs, representations (`maestro-kernel/src/{unit_graph,representation}`) | graphs, sets, shards, bindings | record, begin, complete, fail, bind | a complete set covers its chunk set; a graph accounts for every byte |
| Chunking (`maestro-canonicalization/src/chunk_split`) | the open draft and the pieces left | join, break, start, refine, cut, absorb, replay | every indexed scalar is in one chunk, once, within the limit |
| Gateway and model registry (`maestro-kernel/src/{gateway,model}`, `maestro/src/cli/model.rs`) | checked cards; cards, evaluations, selections and their pins | check, call; register, evaluate, select | answers are in the place of their inputs; a selection is earned and its evidence is kept |
| MCP server (`maestro/src/mcp`, `knowledge/output`) | unread bytes, pending lines and refusals; calls and workers | read, frame, refuse; call, work, cancel, deliver; cut a response to size | frames are lines; replies are current; what is cut is told |
| Settings (`maestro-settings`, `maestro/src/cli/config`) | a file, its lock and recovery copy, the history | set and unset, each through lock, edit, replace, journal, keep or undo | the history explains the file; a session can always read it |
| Backup and restore (`maestro/src/cli/backup`) | a backup directory; a target | snapshot, copy, manifest; validate, stage, install, link | a restored database has its artifacts |
| Evaluation (`maestro-knowledge/src/eval`, `maestro/src/cli/eval`) | rungs and rows; attempt reports | run a ladder, merge, compare | rungs that count measured the same thing; nothing scheduled is dropped |
| Query analysis, reports, other commands, development tools | none | | see 7 |

How they interact:

- `knowledge import`, `quality`, `prepare` and `publish` each run as a job in
  the foreground. The job's key is a digest of its *frozen inputs*, read before
  it is submitted; its resource is `collection/<id>/<command>`, so two imports
  of a collection exclude one another, but an import, a gate and a preparation
  of it run side by side.
- Import, gate and preparation meet only in the kernel's records: what one
  lists may have changed when it acts on it. They store artifacts and pin them
  in the write that records a reference.
- Publication reads a complete chunk set, and writes to two stores without a
  common transaction: SQLite (generations, journal) and Qdrant.
- The journal is written in the transaction of the change it tells.
- A search reads the generation publication switched to, through the grants
  opening reconciled; both may change between any two of its reads. An ask is a
  search, an assembly, a chat. The server runs either on a blocking worker that
  outlives its caller.
- A configuration edit is a file replaced and an event recorded, in this order;
  a backup is a database copied and files copied, in this order.

## 2. What is hard here

The hazards are listed, each at its line and with the properties that would
catch it, in `PROJECT.json`. In short:

- **Interleaving and stale reads.** Garbage is listed, deleted and unlinked in
  three steps beside puts. The frozen inputs of a job are read again when it
  runs. `eligible` reads one disposition after another. `left_out` lists the
  revisions a second time. A follower reads a row and its stream in two reads.
- **Suspension past a lease.** A laptop that sleeps wakes processes that still
  hold lease tokens. The kernel refuses their job writes; nothing refuses their
  document, chunk or Qdrant writes.
- **Crash and resumption.** A put between its row and its second store, a build
  between a batch and its journal entry, a preparation between two revisions,
  a publication between the alias and the kernel.
- **Partial failure.** Two stores, two steps, one error between them.
- **Retries.** A heartbeat that comes back at the instant the lease expires; a
  command run again while its earlier attempt may still succeed.
- **Liveness.** Whoever waits on a job whose process died.
- **Rights that change.** Grants are given and taken back while a search, an ask
  or a server call runs; a right that came and went between two checks.
- **Untrusted answers.** Qdrant may return any chunk, a model server its items
  in any order, a model any text, a client its lines in any pieces.
- **Boundaries.** Budgets in tokens, bytes and milliseconds; counts that shrink
  when a text grows; lists that policies reorder while they walk them.

## 3. The modules

### Artifacts (`store/artifacts.rs`, `artifact/store.rs`)

`file[d]` is what stands at a digest's path, `recorded`, `media` and `pins` the
rows, `pc`, `arg`, `kind` and `todo` the processes. `Database::put` is the steps
`BeginPut`, `StoreRead`, `StorePlace`, `Record`, `AgainRead`, `AgainPlace`;
`collect_garbage` is `Garbage`, `DeleteRows` (which re-checks the pins:
`StillGarbage`), `RemoveUnrecorded` (which re-checks the row) and
`CollectionReturns`. `Crash`, `StoreFails`, `RemoveFails` and `Damage` are the
faults, chosen by the constant `Faults`. `torn` is a history variable: rows left
by a put cut short before its second store. Bytes are identified with their
digest.

### Jobs and LeasedLog (`maestro-kernel/src/job`)

One action per call. `issued` holds every lease ever handed out, and every call
under a lease is tried with each of them at any time; `now` is any reading of
the caller's clock, so no property relies on clocks that agree. `LeasedLog` is
the abstract specification: a log opened once, written by the last grant only,
and by nobody once closed. `Jobs` implements it under the mapping at the end of
its module (`LogSpec`).

### Foreground (`foreground.rs`, `lease.rs`, `wait.rs`), over Jobs

Commands and `job wait` processes, whose every kernel call is one step; the
heartbeat thread is `Beats`. Processes of one host share a clock: only the time
left of a lease and since a heartbeat matter, so each call is made at time 0 and
`Tick` moves the origin. Any process may be suspended for any time between two
steps: time does not wait for it. The history variable `late` has the processes
for which a step was due when time moved on, until they take a lease or renew
theirs again; the properties that a lease protects a process are about those
that are not late. A process that dies (`Dies`) is one that is suspended for
ever, so only the liveness run, where it must not be fair, tells them apart.
`MCForeground` assumes `BoundsNeverBind`, which TLC evaluates: the bounds of
Jobs are large enough that none of them disables a step. `RenewsInTime` bounds
the beats a process may miss in a row, `MaxMissed`, so that the next one comes
before the lease expires; see 6 for what happens at the boundary.

### Generations (`generation/lifecycle.rs`, `state.rs`, `retrieval/write.rs`)

One action per call, with the events each records. Ids are drawn in order from
`1..MaxGeneration`.

### Publication (`index/*.rs`, `cli/publish`), over Generations

`knowledge publish`, ordinary and `--again`: each call of the kernel or of
Qdrant is a step. The job layer is reduced to what Jobs and Foreground
establish: one `owner` of the resource's lease, which passes on when its job
ended, its process died or was suspended past its term (`stalls` counts the
live owners that lost it so, and such an owner may still go on); a step journaled
without the lease is refused. `MaxFaults` bounds deaths, suspensions, failing
services and lost collections together, `MaxStalls` the suspensions among them. A batch is one chunk; vectors and
payloads are functions of the chunk set and are left out.

### Documents (`maestro-kernel/src/document`, `chunk_set`)

One action per call that writes; a refused call is an action that is not
enabled. A revision's id is a digest of its document, bytes and metadata, so its
document and content are functions of the id. The five outcomes are abstracted
to the two that matter, `accepted` (with or without warnings) and `held`. A
revision's chunks are their number. The SQL trigger that would let a revision's
status move to `failed` is used by no code, so `Failed` is a constant.

### Preparation (`import`, `quality/gate.rs`, `prepare`, and their commands), over Documents

Importers, gates and preparers, each a process that runs one command once and
may stop anywhere. A chunk set's id is a digest of the eligible revisions, so it
*is* that set (`ChunkSet = SUBSET Revision`); a group's id is its members. The
lease that keeps two commands of a kind apart is left out, which is the worst
case: a suspended command resumes beside its successor, and no document or chunk
write asks for a lease. What a ledger and the checks say of a revision is any
outcome `Verdicts` allows. The chunks a set holds are counted by their rows
(`Rows`, `Total`), as `chunk_all` counts them. The reads of `chunk_set_id` before the job are one
step, since only the job's key rests on them; those of the job itself are one
step per disposition.

### Serving (`search/`, `operations/`, `answer/generate.rs`), with Deadlines and Ranking

One request, from the opened kernel to what is delivered; beside it the owner
edits `config.toml`, processes reconcile the grants, commands publish. Time is
`Tick`, from cutoff to cutoff as `Deadlines` derives them; a route may answer,
fail or be late, with any hits. `Ranking` has fusion, rerank, the policies and
the windows of long texts, on exact fractions where the code has `f64`. The two
comparisons of scopes that end a search, in `search_with` and by its caller, are
one step, `Deliver`, since nothing happens between them that either could miss.
The assembly reads the ranked chunks through `search_chunks` once more
(`Assemble`), under the pin and the scopes of the admission.

### Evidence and Sources (`search/evidence`)

`Sources` is the reads: authority, ledger, chunks, sources on loader threads,
the recheck, and a waiter that leaves at the deadline; each read is a step.
`Evidence` is what is made of them: candidates, conflicts, versions, sections
and the greedy selection under a budget. The score that orders units is any.

### Answering (`answer/`, `evidence/bundle.rs`)

The bundle is checked as it is written; a reply is a short sequence of tokens,
checked, repaired once or refused. How a literal is recognised in text is data.

### Retrieval, UnitGraph, Representations, Chunking

`Retrieval` has builders that record and verify the search inputs of one chunk
set, rows an earlier build left, and the identifier route that reads them.
`UnitGraph` is the validators of a delivery graph; `Representations` the calls
over graphs and shards, whose reads are steps of their own. `Chunking` is
`build_drafts`: one action per turn of its loop (`Join`, `BreakIdea`, `Start`,
`RefineAtom`, `SplitAtom`), then `FinishDrafts` and `Replay`. A text is a
sequence of classes of scalars; a token count is of the whole prepared input,
context included. An error of `prepare` that means a malformed structure is left
to `Replay`.

### Stdio, Mcp (`mcp/`, `knowledge/operations`, `knowledge/output`)

`Stdio` is lines from reads of any length. `Mcp` is calls and the workers that
outlive them: a worker opens the kernel (`OpenKernel`), reads, and looks at the
rights again (`FinishOperation`, `CheckScopes`). Inside a search or an ask the
grants are read once more (`Admit`); a search compares what it was admitted with
to what it opened with (`AdmittedAsOpened`), an ask does not, so `Retrieve`
reads under what was admitted and `RepliesAreCurrent` says of the data of an ask
nothing: finding 4 is what happens there. At the end of the module is the
cutting of a response, one passage at a time.

### Gateway, Cards, Registry (`gateway/`, `model/`, `cli/model.rs`)

The router's client beside servers that are replaced; which cards are valid and
what they may be asked; registrations, evaluations and selections beside a
collection of garbage.

### Settings, Opening, Backup

The edit of one file under its lock, with another program that takes no lock;
the opening of one directory by two versions of the program, each a set of
migrations it knows; backups and restores that stop anywhere.

### Ladder, Attempts (`eval/`)

A ladder's rungs, scored while others publish and register; attempt reports,
their merge under the plan they froze and their comparison.

`MC*` modules give the constants of the instances. The parts that share no
state are composed by `MCComponents`: a behaviour is of the part `part` names
(`Parts`), and the variables of the others stay idle. `ServerParts` has those of
the server and of a session, `KernelParts` those of the kernel's directory,
`SearchParts` those of search, evidence, answers, evaluation and chunking, each
with its properties, and `MCComponents` their bounds. Proofs are in eight modules:
`ForegroundProofs` (with Jobs), `PublicationProofs` (with Generations),
`PreparationProofs` (with Documents), `ServingProofs`, `KernelPartsProofs` (with
Artifacts), `ServerPartsProofs`, `SearchPartsProofs`, and `RankingProofs`, whose
lemmas on loops and orders the others use. The definitions named `Mut…`
next to an operator are what a plausible bug would make of it; they are used
only to confirm that each property can fail.

## 4. The runs

State counts are distinct states; times are with two workers.

| Run | Instance | Shows | States |
|---|---|---|---|
| artifacts | 3 processes, 1 digest, 2 media types, 2 pins, all faults, fair | `RecordedHasFile`, `PinnedArtifactStays`, `RecordedGetsItsFile` | 368 k, 53 s |
| artifacts_crash | 2 processes, crashes | violation of `CrashLeavesAtWorstAFile` | |
| foreground | 3 commands, two of one key, one resource, suspensions, one missed beat in a row, term 3 beats, symmetry | `FollowerSawTheEnd`, `ExitTellsOutcome`, `WorkerKeepsItsJob`; of the jobs under them `AttemptsInOrder`, `StreamTellsRow` and the refinement `LogSpec` | 356 k, 25 s |
| foreground_liveness | 2 commands of one key, one of which may die, 1 waiter, fair | `EveryoneReturns` | 31 k, 16 s |
| publication | 3 commands, 2 chunk sets, 2 chunks, `--again`, any 2 of death, failure, loss and one suspension, symmetry | `PublishedIsComplete`, `FailsOnlyWhatWasLost`, `AliasFollows`, `SuccessIsPublished`; of the generations `StreamTellsPublished` | 2.3 M, 95 s |
| publication_alias | 2 commands, 1 suspension | violation of `AliasNeverBehind` | |
| preparation_races | 2 imports, 1 gate, 1 preparation; 3 revisions of one page, one failed, one unreadable, one damaged | `CutFromEligible`, `CommandsDecide`; of the documents `HeldIsToldOnce` | 1.8 M, 95 s |
| preparation_resumes | 1 import, 1 gate, 2 preparations of 3 pages, an exact and a near duplicate, one refused by the chunker, symmetry | `CompleteIsSettled`, `PlacesAreKept` | 2.0 M, 118 s |
| preparation_shared | a small instance of the same | violation of `SharedIsHeld` | |
| serving | a search and an ask; 2 scopes, 2 generations of 2 profiles, 3 chunks, 2 original routes and one of the intent with one of two lists each, 2 edits of the world | `DeliveredIsGranted`, `DeliveredIsPinned`, `VectorsMatch`, `SecondIsNoWorse` | 1.4 M, 43 s |
| serving_ask | an ask of the same | violation of `AnswerIsGranted` | |
| components | one part at a time, the bounds below | sixteen properties, one per part or pair of parts | 1.1 M, 88 s |

The parts of `components`:

| Part | Instance | Property |
|---|---|---|
| stdio | every input of up to 5 bytes with both line endings and of 7 with newlines, limit 2, reads of up to 3 | `FramesAreLines`: what is handed on is the lines, whatever the reads return |
| mcp | two calls for one worker, of which one is an ask and the other one of any other tool; a publication of each collection, two changes between two configurations | `RepliesAreCurrent`: a result is replied only when the rights its worker opened with were there again at its last look, and holds only what they grant, unless it is an answer |
| truncation | bundles of up to 3 passages with conflicts, gaps, groups and every limit | `TruncationIsHonest`: what was cut is told, and nothing that stays names it |
| gateway, cards | two clients, three cards, servers replaced; every single edit of a valid card | `CallsAreAnswered` |
| registry | two processes, two cards, garbage collected | `SelectionsAreEarned` |
| settings | three commands, one rewrite by another program, deaths | `SettingsHold`: `HistoryExplainsFile`, `SessionsCanRead` |
| opening | two versions, five configurations, a consumer | `OpeningsHold`: `MigratedOnce`, `GrantsFollowConfig` |
| backup | a running kernel, two restores, one damage | `RestoredIsWhole` |
| evidence | small sources with sections and tables that agree or conflict, every order of units | `ConflictsAreWhole` |
| sources | two revisions whose status and grants move, two loaders | `BundleWasEligible` |
| retrieval | four chunks, two builders, leftovers of an earlier build | `RouteIsExact` |
| representations, graphs, chunks | two workers; graphs and shards of three revisions, one of them failed; graphs of a page with groups and exclusions, edited; documents of prose, steps, a table and an exported page, under limits tight enough to break ideas, refine rows and cut units | `RepresentationsAreWhole`: `CompleteSetIsWhole`, `AcceptedGraphsAccount`, `DraftsAreWhole` |
| ranking, windows | four chunks with penalties, blends and caps; texts whose counts dip | `RankingHolds` |
| answering | replies of up to five tokens | `AnswerIsSupported` |
| ladder | two rungs, one question of each kind, publications and cards meanwhile | `RungsCompareLikeWithLike` |
| attempts, coverage | reports with failures and retries; overlapping anchors | `MeasuresAddUp` |

**Why the bounds are enough.** A race on the artifact store takes one put, one
collection and one more process that pins or crashes, on one digest. Three
commands are two of the same inputs, one of which finds or takes over the
other's job, and one that supersedes it. Three generations are one published,
one retired and one being built, over which a rebuild goes. Three revisions of
one page are an accepted one, the newer one an import adds in between, and a
failed one; three pages are a duplicate pair and one more, so that a resumed set
is neither empty nor finished. A right that comes and goes takes two edits; a
generation under a search's feet one publication; a second pass one route of
the intent. Pairs of processes suffice for the other parts, whose steps are
guarded by one lock, one transaction or one rename. The proofs below remove the
bounds of Artifacts, Jobs, Foreground, Generations, Publication, Documents,
Preparation and Serving, and of every part of `components` but evidence, graphs
and chunks.

**Deadlock** is checked except where the model really ends: in Publication and
Preparation every command runs once, and the parts of `components` end with
their work. **Symmetry** is used only in runs without liveness.

**Fairness.** Artifacts: weak fairness of `Proceed(p)`, the steps a process at
work takes by itself: it is scheduled, and SQLite's busy handler lets it write
in the end; nothing says that a put is begun or that a caller pins. A process may
crash at any step, which ends what it was doing. Foreground: weak fairness of
`Runs(p)` (a process that is not dead makes its next call, and its work ends), of
`Beats(p)` and of `Tick`; nothing says that a process dies, that work journals a
step or that anybody waits. Polling loops in `wait.rs` and `foreground.rs`
justify `Runs`.

## 5. What is proved

Each proof module holds for every value of the constants under the named
assumptions of the modules it is about, which TLC evaluates in the runs. Most
give constants their types: `MaxPinsAssumption`, `JobsAssumption`,
`ForegroundAssumption`, `GenerationsAssumption`, `PublicationAssumption`,
`DocumentsAssumption`, `ServingAssumption`, `InputsAreCounted`, `RowsAreTyped`,
`OffsetsAreNumbers`, `TextsHaveLengths`. Those that say more:

- `RenewsInTime` (Foreground): `(MaxMissed + 1) * Beat < Term`. It is about the
  environment: how many renewals may fail in a row while a process counts as one
  that keeps to its beat. The code's beat is a third of the term, so it allows
  one.
- `NamesAreNew` (Publication): no process and no key is the value that stands for
  none.
- `PreparationAssumption`: the identification of ids with what they digest, the
  symmetry of `Near`, finitely many revisions, and a `MaxChunks` that the chunks
  of all of them fit. Without the last, a guard of the bound could stop a
  preparation, which the code's counters never do.
- `MigrationsAreNumbered`, `ConfigsAreLists` (KernelParts): migrations are
  known by number, and `config.toml` has a first version, each version granting
  finitely many scopes.
- `RetrievalIsBounded` (KernelParts): a batch, a page and the limit of a route
  are above 0. A batch is a constant of the code and a route with limit 0
  returns before it reads.
- `RequestsAreTyped` (Serving), `PoliciesAreValid` (SearchParts): the settings
  are those that the admission of a search validates, and what a rerank ranks
  are the chunks the fusion listed, each once.
- `LinesAreBytes`, `CallsAreFinite` (ServerParts): a read returns something, and
  finitely many calls are in flight.
- `SettingsAreRegistered` (ServerParts): the descriptors passed the registry's
  own check, and the keys a session reads by name are registered.
- `BundlesAreNumbered`, `CardsAreTyped` (ServerParts): passages are numbered from
  one and conflicts and gaps name some of them, as the bundle's writer makes
  them; a reply limit is `NonZero` and the reasoning one of three.
- `ChunksAreRecorded`, `ArtifactsName`, `TracesAreLists`, `ReportsAreTyped`
  (SearchParts): foreign keys of the tables, a chunk of one revision, and lists
  where the code has `Vec`.

The proofs, and the strengthening each needs:

- **ForegroundProofs.** Of the jobs: types, `OneLivePerKey`, `OnePerResource`,
  `AttemptsInOrder`, `FencedStream`, `StreamTellsRow`, `EndedIsFinal`, and
  `JobsRefineLeasedLog`. Each call is first shown to be, for each job, one of
  five things (`Same`, `Created`, `Taken`, `Stepped`, `Finished`); the invariants
  and the refinement then follow job by job. `FencedStream` needs that the last
  entry's lease number is the row's (`StreamTellsRow`), and `OneLivePerKey` that
  attempts are numbered from the rows of the key.
  Of the commands: `FollowerSawTheEnd`, `ExitTellsOutcome`, `WorkerKeepsItsJob`,
  `OneWorkerPerResource`, and `ForegroundRefinesLeasedLog`: the commands' calls
  are calls of Jobs, and what is proved of those holds under them.
  `ForegroundInv` joins the invariant of Jobs with where each process may be and
  which lease it has there (`Follows`), when its heartbeat runs (`Keeps`), that
  what it read and returned of an ended job stays true (`Knows`), that no two
  processes have one lease (`Apart`), and the arithmetic of the lease
  (`Secure`): each tick since the renewal is one since the last heartbeat or one
  of a missed beat, so the time left is more than the beats that may still be
  missed. `WorkerKeepsItsJob` is not inductive without it: a lease that is merely
  held may be one tick from its end.
- **PublicationProofs.** Of the generations: types, `OnePublished`,
  `StreamTellsPublished`, `ToldOnce`, `OverIsOver`. `IInv` adds `Chronicles`: each
  collection's stream tells exactly the generations that were published and
  those retired since, each once and in this order. `StreamTellsPublished` alone
  is not inductive: it does not say which retired generations were told.
  Of the publication: types, `PublishedIsComplete`, `ProgressIsWritten`,
  `FailsOnlyWhatWasLost`, `AliasFollows`, the action property
  `SuccessIsPublished`, and `PublicationRefinesGenerations`. `PublicationInv` has
  three layers. What stands whoever acts: each generation that is not lost has
  the points that were journaled and, once verified, all of them
  (`GenerationsKept`, `ProgressKept`). What a process relies on from step to
  step, however late it is (`Relies`): its generation, how much of it is
  written, and what it may conclude of one that is no longer building. And, only
  while no process goes on without its lease (`Alone`): the owner is the only one
  at work, so that the alias it moved and the generation it publishes are still
  those it read. The three of its properties that make an exception for `stalls`
  are exactly those that need the last layer.
- **PreparationProofs.** Of the records: types, `HeldIsToldOnce`, `RecordOrder`,
  `ManifestOfComplete`, `DecisionsStand`, `EndedSetsStand`; the invariant is the
  conjunction of the first four, and `HeldIsToldOnce` carries that an undecided
  revision was never told. Of the commands: types, `CutFromEligible`,
  `CommandsDecide`, `CompleteIsSettled`, `PlacesAreKept`, and
  `PreparationRefinesDocuments`. `PreparationInv` says what each command holds:
  a preparation's revisions are recorded, not failed, one per document, and those
  it took accepted (`Readable`), which lasts because decisions stand and a latest
  revision was the only one of its document when listed; while it chunks, every
  revision that is not pending is settled, and its count is that of the rows of
  those (`Counted`). The count is what two preparations of one set could get
  wrong: it lasts because whoever records the chunks of a revision records the
  same ones (`ChunksKept`), so that nothing is added to what was counted
  (`CountLasts`) and the rows of one more revision are exactly its own
  (`CountsOneMore`). That near duplicates end in one group is
  `LinkedAreGrouped`: the least linked set around one of them is a group.
- **ServingProofs.** `DeliveredIsGranted`, `DeliveredIsPinned`, `VectorsMatch`.
  `IInv` adds that no route has answered before the pin, so that the profile it
  was compared with is that of the generation pinned; that the bundle holds only
  chunks of the pin and the admitted scopes; and that a search past its handoff
  was admitted with the scopes of its kernel, which the last check compares with
  those granted. An ask lacks that conjunct: see finding 4. `SecondIsNoWorse`
  and `SecondRanksAsWell`: `PassInv` says what a pass knows of the first, which
  scores are cached, and that the second asks for every chunk the first scored;
  its best is then no lower, since a score that is known is taken and a pass that
  was not reranked is dropped. Then the deadline's
  arithmetic: `CutoffsAreInOrder`, for every deadline each stage of a search
  leaves those after it their windows, and none ends after the deadline;
  `FixedWindowsStayBefore`, a fixed window of the routes, counted from when they
  were ready, stays before the setup's end.
- **KernelPartsProofs.** `RestoredIsWhole`, `SelectionsAreEarned`,
  `OpeningsHold`, `RouteIsExact`, over `KernelSpec`, where each part goes on by
  itself. Backup: what a restore brings is the backup's manifest
  (`RestoresFollowManifest`), and a database is linked only by the restore whose
  artifacts stand in the target, whole (`InstalledIsWhole`). Registry: every pin
  of a card, an evaluation or a selection is counted, so no collection takes what
  one of them names; the journal's entries of a kind are its rows in order.
  Opening: the versions reconciled never decrease because `config.toml` is read
  under the write lock; `Tells` needs that the events of one scope alternate,
  beginning with `added`, which is proved over `Replayed` prefix by prefix.
  Retrieval: what a builder has verified, and all once a marker says ready, is
  written as this build extracts it, whatever was left and whoever else writes
  (`RetrievalInv`); the loop of the kernel's leg keeps the first chunks up to
  the limit of what it has seen; the merge of the two legs loses a chunk only
  when the answer is full. Of the artifact store, over its own `Spec`: types,
  `RecordedHasFile`, `PinnedIsRecorded`, `PinnedArtifactStays`. The
  conjunction is almost inductive given the types; the lemma `FileStep` says that a recorded
  artifact never loses its file to a step of the program: the unlink re-checks
  the row, and only `DeleteRows` removes rows, of unpinned digests. What remains
  are rows recorded while their file is gone, which the put's second store
  repairs: `Finishing`.
- **ServerPartsProofs.** `RepliesAreCurrent`: everything a reply depends on is in
  the record of its call (`CallHolds`); a step replaces one record and moves one
  permit (`OneCallMoves`). A call admitted for a search goes on only as it was
  opened, which is why its data are of the scopes looked at last, and why the
  conjunct leaves out an ask. `CallsAreAnswered`: a client that passed a check
  holds the properties of its card, and each item of a reply is put where its
  index says, or the reply is refused. `SettingsHold`: the lock is held from the
  read of the file to the confirmation, so the last entry of a key's history is
  what the file holds, and a key whose change could not be told is one of
  `untold`. `FramesAreLines`: what was framed, what is pending and what is being
  discarded are, read together, the lines of what was read so far, wherever the
  reads cut. `TruncationIsHonest`: each reduction keeps a conjunction about one
  bundle and the first, and the one delivered is the first that fits.
- **SearchPartsProofs.** `BundleWasEligible`: what the waiter has of a source came
  from the loader that read it, whose revision's disposition was read after, and
  the recheck of all drops those that changed. `RungsCompareLikeWithLike`: every
  row of a rung carries the generation it was searched in, and a rung with two of
  them is invalid. `CompleteSetIsWhole` (the first part of
  `RepresentationsAreWhole`): each look of a completion stays true until its
  write, since a frozen set takes no more chunks or graphs and a shard is never
  removed. `AnswerIsSupported`, `MeasuresAddUp`, `RankingHolds`: over the
  functions that replace the loops of the code. The sweep of `Coverage` counts
  the offsets in some anchor because it never goes back.
- **RankingProofs.** `PoliciesHoldAlways`, `SplitIsWholeAlways`. `SortedIs` says
  what sorting by a total order returns, `LoopKeeps` and `LoopEnds` what a loop
  keeps and that it ends. The provers cannot instantiate the library's induction
  theorems; where a proof would use one, it takes a least counterexample.

TLC finds no violation of any of these inductive invariants on the instance of
its run.

`OneLivePerKey`, `OnePerResource`, `FencedStream`, `OneWorkerPerResource`,
`OnePublished`, `ToldOnce`, `ProgressIsWritten`, `RecordOrder`, `DecisionsStand`,
`EndedSetsStand` and `PinnedIsRecorded` are theorems and no run's property. So are
`EndedIsFinal`, `OverIsOver` and `ManifestOfComplete`: the first is what `LogSpec`
says of closed logs, the others the legal moves read over whole behaviours.

The type invariants of Artifacts, Jobs, Generations, Publication, Documents and
Preparation are theorems too.

Writing the proofs changed the models where a definition was ambiguous: cases
that overlap became `IF`s in the order of the code (`Gateway`, `Registry`,
`Chunking`), mixed conjunctions and disjunctions got their parentheses
(`Backup`, `Evidence`, `Mcp`, `Serving`), and the folds of the modules that are
proved about became recursive functions.

Model-checked only:

- `RecordedGetsItsFile` and `EveryoneReturns`: TLAPS does not reason about
  fairness or `ENABLED`.
- `ConflictsAreWhole`: the selection is a sequence of folds over sources whose
  well-formedness the parser gives, and the model's instance.
- `AcceptedGraphsAccount` and `DraftsAreWhole`, the two other parts of
  `RepresentationsAreWhole`: they are about what nested folds and recursive
  functions compute of a tree and of a text, which needs induction over data.

## 6. Findings

Each is a run expected to be violated; `PROJECT.json` quotes the lines.

1. `artifacts_crash`: a put that dies between its row and its second store, once
   a collection removed its first file, leaves a row without a file; the store's
   documentation says that a crash leaves at worst a file no row names.
2. `publication_alias`: the alias is moved and the generation published in two
   steps under no lease, which a process suspended past its lease takes late,
   among those of its successor. When one of the two moved the alias last and
   the other publishes last, that publication retires the generation the alias
   names, and the alias stays on it.
3. `preparation_shared`: a recorded revision the gate accepted keeps its
   acceptance when a later import finds its source reference shared; the
   documentation of import says it is held.
4. `serving_ask`: an ask does not compare the scopes it was admitted with to
   those its kernel opened with, as a search does; a scope granted in between
   and taken back before the final check is answered from.

Behaviours met while modelling that no run is about:

- After two missed heartbeats the third coincides with the lease's expiry, and a
  competitor may take the job: `WorkerKeepsItsJob` is violated with
  `MaxMissed = 2`, which `RenewsInTime` therefore excludes. The comment on
  `TIMING` says two missed heartbeats still leave the job to its process.
- A document an import touches between the two reads of a preparation is listed
  as left out while its older revision is in the chunk set; `left_out.rs` says
  that no older revision stands in.
- A prepare job builds the chunk set of the revisions eligible when it runs, not
  of those its key froze, so a job may have succeeded whose chunk set was never
  built.
- After a suspension *and* a loss in Qdrant, `PublishedIsComplete` would be
  violated without its exception: of two processes building one generation, one
  publishes it and the other creates its lost collection anew, empty.
- `ladder.rs:10` says that dropping a question never moves a floor. The citation
  and literal floors are shares of the delivered answers, so a scorer given one
  row less can pass a floor it failed. The runner never drops one.
- `fit_prefix` halves towards a shorter piece and gives up when the halves all
  land inside a delimiter, although a longer piece may fit; its documentation
  says that it gives up when not even a single character fits.
- `config set` checks one value at a time; two accepted sets may leave a reranker
  depth above the fusion pool, which every knowledge command then refuses. A
  failed sync after the rename of an edit leaves the file replaced, where
  `publish` (`file/edit.rs:144`) says it is as it was.
- An answerer card whose reasoning is `not_applicable` is valid, and every chat
  with it is refused.
- Groups of a unit graph that start together, the parent's id sorting after the
  child's, can be listed in no order the validation accepts.
- The identifier route counts how common an identifier is before it filters by
  scope, so whether it is refused as too common depends on what a caller may not
  see; the hits do not.

## 7. What is not modelled, and why

- Text: parsing and normalization, tokenizing, BM25 weights, query analysis,
  intent words, prompts, near-duplicate signatures, table values. String and
  floating-point computation without state; out of TLC's reach. Where a model
  needs their result it is any value, or given by the instance.
- The tokenizer's qualification against the router and the counts of tokens and
  chrome in a manifest.
- The model router, the model servers and Qdrant: external; modelled from how
  the code uses them. The HTTP client, JSON-RPC and SQLite are libraries.
- Warm-up of the models, telemetry, capabilities of the host: no state another
  part reads.
- Bootstrap intervals, judges and the layout of reports.
- Formatting, argument parsing and queries that only read.
- Vendored specifications, schemas, conventions and test helpers: not part of
  the program.
- The manifest file of a corpus is read three times by an import; the model reads
  it once. A corpus release is a directory of its own, replaced as a whole.

## 8. Plan

Modelled, in this order: Artifacts, Jobs with LeasedLog, Foreground,
Generations, Publication, Documents, Preparation; then Serving with Deadlines
and Ranking, the server's and the kernel's edges (Stdio, Mcp, Gateway, Cards,
Registry, Settings, Opening, Backup), evidence, retrieval, representations,
answers, evaluation and the chunk packer. Proved, in this order: the kernel's
modules; Serving and the kernel's parts; Foreground, Publication and Preparation
with their refinements; the parts of the server and of search, ranking and the
exact lookup. What could follow:

1. `ConflictsAreWhole`, with the parser's guarantees as named assumptions.
2. `DraftsAreWhole`: each turn of the loop keeps the scalars of what is drafted,
   open and pending, and the replay decides the rest.
3. `AcceptedGraphsAccount`, from what each of the four validators establishes.
