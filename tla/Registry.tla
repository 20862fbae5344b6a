------------------------------- MODULE Registry ------------------------------
(***************************************************************************)
(* The model registry of one collection (maestro-kernel, model) and the    *)
(* commands over it (maestro, cli/model.rs; maestro-knowledge,             *)
(* eval/reranker_health.rs): cards registered with their evidence, health  *)
(* evaluations of them, and selections of a card for its role.             *)
(*                                                                         *)
(* Commands of several processes interleave between their reads and their  *)
(* writes, each may stop anywhere, and a garbage collection removes what   *)
(* no record pins.  Rows are kept in the order of their rowid.  A card is  *)
(* a model value whose artifact carries its name.                          *)
(***************************************************************************)
EXTENDS Integers, Sequences, FiniteSets, SequencesExt

CONSTANTS Processes,
          CardSet,       \* card -> its role, evidence and qualification method
          MaxEvaluations, MaxSelections \* bounds on the rows

VARIABLES recorded, pins,  \* the artifacts table
          cards, evaluations, selections,
          stream,          \* what the journal tells of them
          command
registryVars == <<recorded, pins, cards, evaluations, selections, stream, command>>
rows == <<cards, evaluations, selections, stream>>

AllCards == DOMAIN CardSet
Receipts == {"manifest", "report"}
ArtifactNames == AllCards \cup Receipts \cup UNION {CardSet[c].evidence : c \in AllCards}

Ready == [at |-> "ready", card |-> {}, todo |-> {}, disposition |-> "none",
          evaluation |-> 0, read |-> 0]

RegistryInit ==
    /\ recorded = {} /\ pins = [a \in ArtifactNames |-> 0]
    /\ cards = << >> /\ evaluations = << >> /\ selections = << >> /\ stream = << >>
    /\ command = [p \in Processes |-> Ready]

Registered == ToSet(cards)
CardOf(p) == CHOOSE c \in command[p].card : TRUE
Goes(p, to) == command' = [command EXCEPT ![p] = to]
Finish(p) == Goes(p, Ready)

(* What a transaction pins must still be recorded, or all of it is undone. *)
Pinnable(artifacts) == artifacts \subseteq recorded
PinAll(artifacts) == pins' = [a \in ArtifactNames |-> IF a \in artifacts THEN pins[a] + 1 ELSE pins[a]]

Stop(p) ==
    /\ command[p].at # "ready" /\ Finish(p)
    /\ UNCHANGED <<recorded, pins, rows>>

CollectGarbage ==
    /\ \E a \in recorded : pins[a] = 0 /\ recorded' = recorded \ {a}
    /\ UNCHANGED <<pins, rows, command>>

-----------------------------------------------------------------------------
(* register_model_card: the card, its weights and the evidence directory are
   verified before anything is stored, and a card that is registered by then
   is left alone. *)
Register(p) ==
    /\ command[p].at = "ready"
    /\ \E c \in AllCards :
         /\ CardSet[c].valid /\ c \notin Registered
         /\ Goes(p, [Ready EXCEPT !.at = "evidence", !.card = {c},
                                  !.todo = CardSet[c].evidence])
    /\ UNCHANGED <<recorded, pins, rows>>

PutEvidence(p) ==
    /\ command[p].at = "evidence"
    /\ IF command[p].todo = {}
       THEN /\ recorded' = IF CardOf(p) \in Registered THEN recorded ELSE recorded \cup {CardOf(p)}
            /\ IF CardOf(p) \in Registered THEN Finish(p)
               ELSE Goes(p, [command[p] EXCEPT !.at = "card"])
       ELSE \E a \in command[p].todo :
              /\ recorded' = recorded \cup {a}
              /\ Goes(p, [command[p] EXCEPT !.todo = @ \ {a}])
    /\ UNCHANGED <<pins, rows>>

(* The write of record_model_card, which looks for the row again. *)
RecordModelCard(p) ==
    /\ command[p].at = "card"
    /\ LET c == CardOf(p)
           needed == {c} \cup CardSet[c].evidence IN
       IF c \in Registered \/ ~Pinnable(needed) THEN UNCHANGED <<pins, cards, stream>>
       ELSE /\ PinAll(needed)
            /\ cards' = Append(cards, c)
            /\ stream' = Append(stream, <<"card", c>>)
    /\ Finish(p)
    /\ UNCHANGED <<recorded, evaluations, selections>>

-----------------------------------------------------------------------------
(* One fixture pair: two finite scores, the positive one above the negative
   one by at least a tenth. *)
PairFails(pair) == pair \in {"not finite", "not above", "too close", "not two"}

(* check_reranker_health: the first pair that fails or errs decides. *)
Health(card, first, second) ==
    IF CardSet[card].method # "native_runtime" THEN "blocked"
    ELSE IF first = "error" THEN "failed"
    ELSE IF PairFails(first) THEN "ineligible"
    ELSE IF second = "error" THEN "failed"
    ELSE IF PairFails(second) THEN "ineligible"
    ELSE "eligible"

(* maestro model check: a registered reranker is asked, then what it came to
   is recorded, whatever it came to. *)
Check(p) ==
    /\ command[p].at = "ready"
    /\ \E c \in Registered, first, second \in {"healthy", "too close", "error"} :
         /\ CardSet[c].role = "reranker"
         /\ Goes(p, [Ready EXCEPT !.at = "receipts", !.card = {c}, !.todo = Receipts,
                                  !.disposition = Health(c, first, second)])
    /\ UNCHANGED <<recorded, pins, rows>>

PutReceipts(p) ==
    /\ command[p].at = "receipts" /\ command[p].todo # {}
    /\ recorded' = recorded \cup command[p].todo
    /\ Goes(p, [command[p] EXCEPT !.todo = {}])
    /\ UNCHANGED <<pins, rows>>

(* record_model_evaluation's write. *)
RecordModelEvaluation(p) ==
    /\ command[p].at = "receipts" /\ command[p].todo = {}
    /\ IF ~Pinnable(Receipts) THEN UNCHANGED <<pins, evaluations, stream>>
       ELSE /\ Len(evaluations) < MaxEvaluations
            /\ PinAll(Receipts)
            /\ evaluations' = Append(evaluations,
                 [card |-> CardOf(p), mode |-> "real", disposition |-> command[p].disposition])
            /\ stream' = Append(stream, <<"evaluation", Len(evaluations) + 1>>)
    /\ Finish(p)
    /\ UNCHANGED <<recorded, cards, selections>>

-----------------------------------------------------------------------------
RealOf(c) == {i \in DOMAIN evaluations : evaluations[i].card = c /\ evaluations[i].mode = "real"}

(* Mutant: an eligible evaluation of the card, not its latest one. *)
MutChosen(c) == {i \in RealOf(c) : evaluations[i].disposition = "eligible"}

(* The latest real evaluation of the card, if it is eligible. *)
Chosen(c) ==
    {i \in RealOf(c) : /\ \A j \in RealOf(c) : j <= i
                       /\ evaluations[i].disposition = "eligible"}

Select(p) ==
    /\ command[p].at = "ready"
    /\ \E c \in Registered : \E i \in Chosen(c) :
         Goes(p, [Ready EXCEPT !.at = "selected", !.card = {c}, !.evaluation = i,
                               !.read = Len(evaluations)])
    /\ UNCHANGED <<recorded, pins, rows>>

(* evaluation_by_id, the card it is about and card_by_id: the receipts and the
   card must be registered, and load again from their artifacts. *)
Verified(i) ==
    /\ Receipts \subseteq recorded
    /\ evaluations[i].card \in Registered /\ evaluations[i].card \in recorded

(* record_model_selection and the trigger behind it. *)
MaySelect(c, i) ==
    /\ c \in Registered /\ Verified(i)
    /\ evaluations[i].card = c /\ evaluations[i].mode = "real"
    /\ evaluations[i].disposition = "eligible"

RecordModelSelection(p) ==
    /\ command[p].at = "selected" /\ Len(selections) < MaxSelections
    /\ LET c == CardOf(p) IN
       IF ~MaySelect(c, command[p].evaluation) THEN UNCHANGED <<selections, stream>>
       ELSE /\ selections' = Append(selections,
                 [role |-> CardSet[c].role, card |-> c, evaluation |-> command[p].evaluation,
                  read |-> command[p].read])
            /\ stream' = Append(stream, <<"selection", Len(selections) + 1>>)
    /\ Finish(p)
    /\ UNCHANGED <<recorded, pins, cards, evaluations>>

(* selected_model_card: the latest selection of the role, whose evaluation,
   receipts and card are all verified again. *)
SelectedModelCard(role) ==
    LET of == {i \in DOMAIN selections : selections[i].role = role} IN
    IF of = {} THEN "none"
    ELSE LET s == selections[CHOOSE i \in of : \A j \in of : j <= i] IN
         IF MaySelect(s.card, s.evaluation) THEN "selected" ELSE "integrity_error"

RegistryNext ==
    \/ CollectGarbage
    \/ \E p \in Processes :
         \/ Stop(p) \/ Register(p) \/ PutEvidence(p) \/ RecordModelCard(p)
         \/ Check(p) \/ PutReceipts(p) \/ RecordModelEvaluation(p)
         \/ Select(p) \/ RecordModelSelection(p)

-----------------------------------------------------------------------------
(* The stream tells the rows of a kind: all of them, each once, in order. *)
Tells(events, kind, told) ==
    /\ \A i \in DOMAIN events : events[i][1] = kind => \E k \in DOMAIN told : events[i] = told[k]
    /\ \A k \in DOMAIN told : \E i \in DOMAIN events : events[i] = told[k]
    /\ \A i, j \in DOMAIN events, k, l \in DOMAIN told :
          events[i] = told[k] /\ events[j] = told[l] => (i < j <=> k < l)

(* A card is selected only for a real and eligible evaluation of that very
   card, the latest one there was when the command looked, and can always be
   loaded again: no garbage collection takes what a card, an evaluation or a
   selection rests on, however commands interleave and stop; every card is
   registered once; and the journal tells each row once, in the order of the
   rows. *)
SelectionsAreEarned ==
    /\ \A k \in DOMAIN selections :
         LET s == selections[k] IN
         /\ MaySelect(s.card, s.evaluation)
         /\ \A j \in RealOf(s.card) : j <= s.evaluation \/ j > s.read
    /\ \A role \in {"embedder", "reranker", "answerer"} :
         SelectedModelCard(role) # "integrity_error"
    /\ \A c \in Registered : {c} \cup CardSet[c].evidence \subseteq recorded
    /\ IsInjective(cards)
    /\ Tells(stream, "card", [k \in DOMAIN cards |-> <<"card", cards[k]>>])
    /\ Tells(stream, "evaluation", [k \in DOMAIN evaluations |-> <<"evaluation", k>>])
    /\ Tells(stream, "selection", [k \in DOMAIN selections |-> <<"selection", k>>])
=============================================================================
