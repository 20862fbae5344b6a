------------------------------- MODULE Parts --------------------------------
(***************************************************************************)
(* What the groups of parts have in common: `part' names the part a        *)
(* behaviour is of, chosen at the start; the pure algorithms are parts     *)
(* too, whose state is the input, and two of them edit it in steps.        *)
(***************************************************************************)
CONSTANT AlgorithmInputs     \* part -> the inputs of an algorithm

VARIABLES part, input, edits
partVars == <<part, input, edits>>

InputsOf(p) == IF p \in DOMAIN AlgorithmInputs THEN AlgorithmInputs[p] ELSE {0}

StartAs(parts) == part \in parts /\ edits = 0 /\ input \in InputsOf(part)

=============================================================================
