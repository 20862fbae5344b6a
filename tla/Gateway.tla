------------------------------- MODULE Gateway -------------------------------
(***************************************************************************)
(* The router client (maestro-kernel, gateway/router.rs and body.rs): a    *)
(* card is checked once against what its model's server reports, then each *)
(* call is sent, and its answer is bounded, read and put in the order of   *)
(* the inputs.                                                             *)
(*                                                                         *)
(* The router and the model servers are external.  A server may be         *)
(* replaced at any time, may answer its items in any order, and may leave  *)
(* items out or repeat them.  An item is the pair of the index it carries  *)
(* and the input it answers; an answer is a sequence of items.             *)
(***************************************************************************)
EXTENDS Integers, Sequences, FiniteSets, SequencesExt

CONSTANTS Clients,  \* concurrent calls of one process
          Work,     \* card of a call -> kind of call and number of inputs
          Builds    \* builds a server may report

VARIABLES reported, \* what the server of each card reports
          checked,  \* cards that passed their check
          passed,   \* history: cards whose server reported what they record
          calls
gatewayVars == <<reported, checked, passed, calls>>

Cards == DOMAIN Work
Recorded(card) == Work[card].build

(* The role a call needs; any card tokenizes, and prepares. *)
Needs == [embed |-> {"embedder"}, rerank |-> {"reranker"}, chat |-> {"answerer"},
          tokenize |-> {"embedder", "reranker", "answerer"},
          prepare |-> {"embedder", "reranker", "answerer"}]

NoCall == [at |-> "idle", card |-> {}, kind |-> "none", outcome |-> "none", answer |-> << >>]

GatewayInit ==
    /\ reported \in [Cards -> Builds] /\ checked = {}
    /\ passed = {} /\ calls = [c \in Clients |-> NoCall]

ServerReplaced ==
    /\ \E card \in Cards, build \in Builds :
         build # reported[card] /\ reported' = [reported EXCEPT ![card] = build]
    /\ UNCHANGED <<checked, passed, calls>>

Ends(c, outcome, answer) ==
    calls' = [calls EXCEPT ![c] = [@ EXCEPT !.at = "done", !.outcome = outcome, !.answer = answer]]

(* No input needs no call, and a card of the wrong role makes none. *)
StartCall(c) ==
    /\ calls[c].at = "idle"
    /\ \E card \in Cards, kind \in DOMAIN Needs :
         LET call == [NoCall EXCEPT !.card = {card}, !.kind = kind] IN
         calls' = [calls EXCEPT ![c] =
           IF Work[card].role \notin Needs[kind]
           THEN [call EXCEPT !.at = "done", !.outcome = "wrong_role"]
           ELSE IF Work[card].inputs = 0 /\ kind \in {"embed", "rerank"}
           THEN [call EXCEPT !.at = "done", !.outcome = "answer"]
           ELSE [call EXCEPT !.at = IF card \in checked /\ kind # "prepare" THEN "send" ELSE "props"]]
    /\ UNCHANGED <<reported, checked, passed>>

CardOf(c) == CHOOSE card \in calls[c].card : TRUE

(* refusal: what the router's status and code mean to the caller. *)
Refusal(status, code) ==
    CASE status = 503 /\ code = "insufficient_room" -> "unavailable"
      [] status = 400 /\ code = "unknown_room" -> "unknown_room"
      [] OTHER -> "refused"

(* What an exchange may come to instead of a body that can be read: the
   transport breaks off, a redirect is never followed, the router or the
   server refuses, or the body is longer than its limit or no JSON. *)
Broken == {"transport", "redirected", "invalid_answer"}
    \cup {Refusal(status, code) : status \in {400, 500, 503},
          code \in {"insufficient_room", "unknown_room", "other"}}

SendFails(c) ==
    /\ calls[c].at \in {"props", "send"}
    /\ \E error \in Broken : Ends(c, error, << >>)
    /\ UNCHANGED <<reported, checked, passed>>

(* recheck: the build is compared, and a card that passes is remembered for
   the whole life of the client. *)
CheckProps(c) ==
    /\ calls[c].at = "props"
    /\ IF reported[CardOf(c)] = Recorded(CardOf(c))
       THEN /\ checked' = checked \cup {CardOf(c)} /\ passed' = passed \cup {CardOf(c)}
            /\ IF calls[c].kind = "prepare" THEN Ends(c, "answer", << >>)
               ELSE calls' = [calls EXCEPT ![c].at = "send"]
       ELSE Ends(c, "card_mismatch", << >>) /\ UNCHANGED <<checked, passed>>
    /\ UNCHANGED reported

(* Mutant: the answers are taken in the order they come. *)
MutByIndex(count, items) ==
    IF Len(items) # count THEN {} ELSE {[i \in 1 .. count |-> items[i].of]}

(* by_index: one answer for each input, in the order of the inputs. *)
ByIndex(count, items) ==
    LET at(i) == {k \in DOMAIN items : items[k].index = i} IN
    IF /\ \A k \in DOMAIN items : items[k].index \in 1 .. count
       /\ \A i \in 1 .. count : Cardinality(at(i)) = 1
    THEN {[i \in 1 .. count |-> items[CHOOSE k \in at(i) : TRUE].of]}
    ELSE {}

(* What the server may send for the inputs: items that say which input they
   answer, at most one too many. *)
Items(count) ==
    UNION {{[k \in 1 .. n |-> [index |-> f[k], of |-> f[k]]] : f \in [1 .. n -> 1 .. count + 1]} :
               n \in 0 .. count + 1}

(* A vector of other dimensions than the card's is refused. *)
Answer(c) ==
    /\ calls[c].at = "send" /\ calls[c].kind \in {"embed", "rerank"}
    /\ \E items \in Items(Work[CardOf(c)].inputs), wrong \in BOOLEAN :
         LET placed == ByIndex(Work[CardOf(c)].inputs, items) IN
         IF placed = {} \/ (wrong /\ calls[c].kind = "embed")
         THEN Ends(c, "invalid_answer", << >>)
         ELSE Ends(c, "answer", CHOOSE p \in placed : TRUE)
    /\ UNCHANGED <<reported, checked, passed>>

(* completion_content: exactly one choice, stopped by itself, of the
   assistant, with content within its bound and no tool call. *)
PlainReply(choices) ==
    /\ Len(choices) = 1
    /\ choices[1].index = 0 /\ choices[1].finish = "stop"
    /\ choices[1].role = "assistant" /\ ~choices[1].tools /\ choices[1].content = "fits"

Choice == [index |-> 0, finish |-> "stop", role |-> "assistant", tools |-> FALSE, content |-> "fits"]

Completions ==
    {<< >>, <<Choice>>, <<Choice, Choice>>, <<[Choice EXCEPT !.index = 1]>>,
     <<[Choice EXCEPT !.finish = "length"]>>, <<[Choice EXCEPT !.role = "user"]>>,
     <<[Choice EXCEPT !.tools = TRUE]>>, <<[Choice EXCEPT !.content = "empty"]>>}

Reply(c) ==
    /\ calls[c].at = "send" /\ calls[c].kind \in {"chat", "tokenize"}
    /\ IF calls[c].kind = "tokenize" THEN Ends(c, "answer", << >>)
       ELSE \E choices \in Completions :
              IF PlainReply(choices) THEN Ends(c, "answer", << >>)
              ELSE Ends(c, "invalid_answer", << >>)
    /\ UNCHANGED <<reported, checked, passed>>

GatewayNext ==
    \/ ServerReplaced
    \/ \E c \in Clients :
         \/ StartCall(c) \/ SendFails(c) \/ CheckProps(c) \/ Answer(c) \/ Reply(c)

-----------------------------------------------------------------------------
(* However a server orders, repeats or leaves out what it answers, and
   whatever calls run beside it, an answer a call returns holds, for each
   input, the answer to that input; and no model is asked on behalf of a card
   of another role, or of one no server ever matched since the process
   began. *)
AnswersAreInPlace ==
    \A c \in Clients :
      /\ calls[c].outcome = "answer" =>
           \A i \in DOMAIN calls[c].answer : calls[c].answer[i] = i
      /\ calls[c].at = "send" =>
           CardOf(c) \in passed /\ Work[CardOf(c)].role \in Needs[calls[c].kind]
      /\ calls[c].outcome = "answer" /\ calls[c].kind \in {"embed", "rerank"} =>
           Len(calls[c].answer) = Work[CardOf(c)].inputs
=============================================================================
