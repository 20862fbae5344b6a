------------------------------ MODULE MCServing ------------------------------
(* Small instances of Serving for TLC: two generations of two profiles, a
   chunk in each of two scopes in the first, one in the second. *)
EXTENDS Serving, TLC

TwoScopes == {"a", "b"}
TwoGenerations == {1, 2}
ThreeChunks == {1, 2, 3}
Generations == (1 :> 1) @@ (2 :> 1) @@ (3 :> 2)
Scopes == (1 :> "a") @@ (2 :> "b") @@ (3 :> "a")
Profiles == (1 :> 1) @@ (2 :> 2)
Lists == {<<1>>, <<3, 2>>}
Scores == (1 :> {1}) @@ (2 :> {0, 2}) @@ (3 :> {1})
Originals == {"dense", "identifier"}
Intents == {"dense_intent"}

NoPrior == [ids |-> {}, multiplier |-> {}]
Plain == [depth |-> 1, pool |-> 2, k |-> 1, additions |-> 1, rerank |-> TRUE,
          intent |-> "low", confidence |-> 2, guard |-> FALSE, penalized |-> {{}},
          threshold |-> {},
          policy |-> [section |-> NoPrior, source |-> NoPrior,
                      blend |-> {}, cap |-> {}, k |-> 1]]
Penalizing == [Plain EXCEPT !.penalized = {{}, {2}}, !.policy.source.multiplier = {40}]
Guarded == [Plain EXCEPT !.intent = "always", !.guard = TRUE, !.rerank = FALSE,
                         !.threshold = {2}]
Thresholded == [Plain EXCEPT !.intent = "off", !.threshold = {2}]

Served == {[op |-> "search", cfg |-> Penalizing], [op |-> "ask", cfg |-> Guarded]}
Asked == {[op |-> "ask", cfg |-> Thresholded]}
=============================================================================
