----------------------------- MODULE Answering -----------------------------
(***************************************************************************)
(* From a bundle to an answer (maestro-knowledge, answer/generate.rs and   *)
(* answer/validate.rs; maestro-kernel, evidence/bundle.rs): the bundle is  *)
(* checked as it is written, the model is asked at most twice, and a reply *)
(* is taken only when it cites the bundle and says no literal that neither *)
(* the question nor a passage has.                                         *)
(*                                                                         *)
(* A reply is a sequence of tokens, [kind, n]: a word, a literal n or a    *)
(* number n, a comma, the brackets and the two thinking marks.  How a      *)
(* literal is recognised in text (escapes, code spans, commands) is data;  *)
(* a literal is taken to hold a letter and a digit.                        *)
(***************************************************************************)
EXTENDS Integers, Sequences, FiniteSets, SequencesExt, Functions

CONSTANTS
    Bundles,      \* [passages, trace, conflicts, held, limit, k, supported]
    Vocabularies, \* the tokens a model may write
    MaxTokens,    \* tokens of a reply: a bound
    MinWords      \* words an answer needs (3 in the code)

VARIABLES
    evidence,    \* the bundle
    vocabulary,  \* what the model knows to write
    asked,       \* chats that were started
    reply,       \* what the model wrote so far
    given        \* what the caller is given, or nothing

answeringVars == <<evidence, vocabulary, asked, reply, given>>

Kinds(text) == {text[i].kind : i \in DOMAIN text}
First(text, kind) == CHOOSE i \in DOMAIN text : text[i].kind = kind /\ \A j \in 1 .. (i - 1) : text[j].kind # kind
From(text, i) == SubSeq(text, i, Len(text))

-----------------------------------------------------------------------------
(* The bundle. *)

Numbers(b) == {b.passages[i].n : i \in DOMAIN b.passages}
RevisionOf(b, n) == (CHOOSE p \in Range(b.passages) : p.n = n).revision

(* numbers *)
Numbered(b) == \A i \in DOMAIN b.passages :
    b.passages[i].n > 0 /\ \A j \in 1 .. (i - 1) : b.passages[j].n # b.passages[i].n

(* check_trace *)
CheckTrace(b) == \A i \in DOMAIN b.trace :
    /\ b.trace[i].n \in Numbers(b) /\ \A j \in 1 .. (i - 1) : b.trace[j].n # b.trace[i].n
    /\ IsInjective(b.trace[i].chunks)

(* What is contained, and in which revision. *)
Contained(b) == UNION {{<<RevisionOf(b, t.n), c>> : c \in Range(t.chunks)} : t \in Range(b.trace)}

(* check_parent_context *)
CheckParentContext(b) == \A t \in Range(b.trace) :
    /\ IsInjective(t.parents) /\ Range(t.parents) \cap Range(t.chunks) = {}
    /\ \A c \in Range(t.parents) : <<RevisionOf(b, t.n), c>> \in Contained(b)

(* check *)
CheckBundle(b) ==
    /\ b.held <= b.limit /\ Len(b.passages) <= b.k
    /\ Numbered(b) /\ CheckTrace(b) /\ CheckParentContext(b)
    /\ \A c \in Range(b.conflicts) : c \subseteq Numbers(b) /\ Cardinality(c) >= 2

-----------------------------------------------------------------------------
(* One reply. *)

Valid(text, citations) == [ok |-> TRUE, text |-> text, citations |-> citations]
Invalid(check) == [ok |-> FALSE, check |-> check]

(* Mutant: only an opening mark left in the text is refused. *)
MutLeaks(text) == "think" \in Kinds(text)

Leaks(text) == Kinds(text) \cap {"think", "unthink"} # {}

(* strip_thinking *)
Stripped(raw) ==
    IF raw # << >> /\ raw[1].kind = "think"
    THEN IF "unthink" \in Kinds(raw) THEN {From(raw, First(raw, "unthink") + 1)} ELSE {}
    ELSE {raw}

(* remove_citations: a bracket with letters and no digit is text, *)
IsText(content) == "word" \in Kinds(content) /\ Kinds(content) \cap {"literal", "number"} = {}

(* marker_numbers: and any other must list distinct numbers from 1. *)
MarkerNumbers(content) ==
    LET numbers == [i \in 1 .. ((Len(content) + 1) \div 2) |-> content[(2 * i) - 1].n] IN
    IF /\ Len(content) % 2 = 1
       /\ \A i \in DOMAIN content : content[i].kind = IF i % 2 = 1 THEN "number" ELSE "comma"
       /\ \A i \in DOMAIN numbers : numbers[i] > 0
       /\ IsInjective(numbers)
    THEN {numbers} ELSE {}

(* The scan for brackets: an open mark that no earlier one still holds starts
   a bracket, which runs to the first close after it. *)
Opens(text) ==
    {i \in DOMAIN text :
        /\ text[i].kind = "open"
        /\ \A j \in 1 .. (i - 1) : text[j].kind = "open" => \E k \in j .. i : text[k].kind = "close"}

CloseOf(text, open) ==
    CHOOSE i \in DOMAIN text :
        i > open /\ text[i].kind = "close" /\ \A k \in open .. (i - 1) : text[k].kind # "close"

Content(text, open) == SubSeq(text, open + 1, CloseOf(text, open) - 1)

CitedIn(content) == IF IsText(content) THEN {<< >>} ELSE MarkerNumbers(content)

(* A close is refused only after the last bracket, and elsewhere it is text;
   plain and prose are the places of the text that is left. *)
RemoveCitations(text) ==
    LET opens == Opens(text)
        closes == {i \in DOMAIN text : text[i].kind = "close"}
        held == UNION {open .. CloseOf(text, open) : open \in opens}
        shown == UNION {(open + 1) .. (CloseOf(text, open) - 1) :
                          open \in {o \in opens : IsText(Content(text, o))}}
    IN  IF \/ \E open \in opens : \A i \in closes : i < open
           \/ \E i \in closes : \A open \in opens : CloseOf(text, open) < i
           \/ \E open \in opens : CitedIn(Content(text, open)) = {}
        THEN {}
        ELSE {[plain |-> (DOMAIN text \ held) \cup shown,
               prose |-> DOMAIN text \ held,
               citations |-> UNION {UNION {Range(numbers) : numbers \in CitedIn(Content(text, open))} :
                                      open \in opens}]}

(* unsupported_literals *)
Unsupported(text, plain) ==
    {i \in plain : text[i].kind \in {"literal", "number"} /\ text[i].n \notin evidence.supported}

Words(text, prose) == Cardinality({i \in prose : text[i].kind \in {"word", "literal"}})

(* Sorted, each once. *)
Ascending(numbers) ==
    [i \in 1 .. Cardinality(numbers) |->
        CHOOSE n \in numbers : Cardinality({m \in numbers : m <= n}) = i]

(* validate_reply *)
ValidateReply(raw) ==
    IF Stripped(raw) = {} \/ (\E t \in Stripped(raw) : Leaks(t)) THEN Invalid("thinking_markup")
    ELSE LET text == CHOOSE t \in Stripped(raw) : TRUE
             found == RemoveCitations(text)
         IN  IF found = {} THEN Invalid("invalid_citation")
             ELSE LET cited == CHOOSE c \in found : TRUE
                      numbers == cited.citations
                  IN  IF numbers = {} \/ ~ numbers \subseteq Numbers(evidence) THEN Invalid("invalid_citation")
                      ELSE IF Words(text, cited.prose) < MinWords THEN Invalid("too_short")
                      ELSE IF Unsupported(text, cited.plain) # {} THEN Invalid("unsupported_literal")
                      ELSE Valid(text, Ascending(numbers))

-----------------------------------------------------------------------------
(* answer_bundle *)

Refused(code) == {[kind |-> "refusal", code |-> code]}
Errs(why) == {[kind |-> "error", code |-> why]}

(* citation_metadata: the chunk a passage is cited by, its own or one whose
   context it is. *)
CitedBy(n) ==
    UNION {LET ids == t.chunks \o t.parents IN IF ids = << >> THEN {} ELSE {ids[1]} :
           t \in {x \in Range(evidence.trace) : x.n = n}}

AnsweringInit ==
    /\ evidence \in {b \in Bundles : CheckBundle(b)}
    /\ vocabulary \in Vocabularies /\ asked = 0 /\ reply = << >>
    /\ given = IF \E n \in Numbers(evidence) : CitedBy(n) = {} THEN Errs("integrity")
               ELSE IF evidence.passages = << >> THEN Refused("no_evidence") ELSE {}

StartChat(answerer) ==
    /\ given = {} /\ asked = 0
    /\ IF answerer THEN asked' = 1 /\ UNCHANGED given
       ELSE given' = Refused("answerer_unavailable") /\ UNCHANGED asked
    /\ UNCHANGED <<evidence, vocabulary, reply>>

Write(token) ==
    /\ given = {} /\ asked > 0 /\ Len(reply) < MaxTokens
    /\ reply' = Append(reply, token)
    /\ UNCHANGED <<evidence, vocabulary, asked, given>>

(* repair: the one more chat, or the end. *)
Repair == IF asked = 2 THEN given' = Refused("unsupported") /\ UNCHANGED asked
          ELSE asked' = asked + 1 /\ UNCHANGED given

EndReply ==
    LET checked == ValidateReply(reply) IN
    /\ given = {} /\ asked > 0
    /\ IF checked.ok
       THEN /\ given' = {[kind |-> "answer", text |-> checked.text, citations |-> checked.citations]}
            /\ UNCHANGED <<asked, reply>>
       ELSE reply' = << >> /\ Repair
    /\ UNCHANGED <<evidence, vocabulary>>

(* The model writes the refusal marker, its answer is incomplete, or the
   backend fails or is late. *)
EndOtherwise(how) ==
    /\ given = {} /\ asked > 0 /\ reply' = << >>
    /\ IF how = "incomplete" THEN Repair
       ELSE /\ given' = IF how = "not_found" THEN Refused("not_found") ELSE Errs(how)
            /\ UNCHANGED asked
    /\ UNCHANGED <<evidence, vocabulary>>

AnsweringNext ==
    \/ (\E answerer \in BOOLEAN : StartChat(answerer)) \/ (\E t \in vocabulary : Write(t)) \/ EndReply
    \/ \E how \in {"not_found", "incomplete", "backend", "timeout"} : EndOtherwise(how)

-----------------------------------------------------------------------------
(* PROPERTIES *)

(* Whether the token at i stands inside a bracket. *)
Bracketed(text, i) ==
    \E j \in 1 .. (i - 1) : text[j].kind = "open" /\ \A k \in j .. i : text[k].kind # "close"

(* Whatever a model writes, with brackets in brackets, after brackets or never
   closed, in its first or its second reply: an answer that is given shows no
   thinking, each number it shows in brackets is one of its citations, each
   citation is a passage of the bundle that resolves to a chunk of that
   passage's own revision, and any other literal has support. *)
AnswerIsSupported ==
    \A a \in given : a.kind = "answer" =>
        /\ Kinds(a.text) \cap {"think", "unthink"} = {} /\ a.citations # << >>
        /\ \A i \in DOMAIN a.citations :
             LET n == a.citations[i] IN
             /\ i > 1 => a.citations[i - 1] < n
             /\ n \in Numbers(evidence) /\ CitedBy(n) # {}
             /\ \A c \in CitedBy(n) : <<RevisionOf(evidence, n), c>> \in Contained(evidence)
        /\ \A i \in DOMAIN a.text : a.text[i].kind \in {"number", "literal"} =>
             IF Bracketed(a.text, i) THEN a.text[i].n \in Range(a.citations)
             ELSE a.text[i].n \in evidence.supported

=============================================================================
