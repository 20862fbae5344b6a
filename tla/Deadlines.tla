------------------------------ MODULE Deadlines ------------------------------
(***************************************************************************)
(* The cutoffs one search derives from its deadline (maestro-knowledge,    *)
(* search/deadline.rs), in microseconds after the request started.  Every  *)
(* division of the code is exact in this unit.                             *)
(***************************************************************************)
EXTENDS Integers

Least(a, b) == IF a <= b THEN a ELSE b
Greatest(a, b) == IF a >= b THEN a ELSE b

MaxDeadlineMs == 30000
MaxAssemblyWindow == 300000
MaxT032Reserve == 50000

Derived == "derived"

Duration(ms) == 1000 * ms

Window(ms) == Least(Duration(ms) \div 4, MaxAssemblyWindow)

Reserve(ms) == Least(Duration(ms) \div 10, MaxT032Reserve)

Expires(ms) == Duration(ms)

Work(ms) == Expires(ms) - Reserve(ms)

Setup(ms) == Work(ms) - Greatest(2 * Window(ms), Duration(ms) \div 10)

(* stage is the configured fixed window in microseconds, a set of at most
   one; without it the routes' end is derived. *)
RoutesEnd(ms, stage) ==
    IF stage = {}
    THEN Setup(ms) - Greatest(Duration(ms) \div 10, Window(ms))
    ELSE Setup(ms)

Fixed(ms, stage) == Least(CHOOSE f \in stage : TRUE, Duration(ms))

(* The cutoff of the routes without a setup of their own. *)
Routes(ms, stage) ==
    IF stage = {} THEN RoutesEnd(ms, stage) ELSE Least(Fixed(ms, stage), Setup(ms))

(* The cutoff of a route whose setup ended at `ready'. *)
RouteAfter(ms, stage, ready) ==
    IF stage = {} THEN RoutesEnd(ms, stage)
    ELSE Least(ready + Fixed(ms, stage), RoutesEnd(ms, stage))

(* The latest that optional enrichment reads sources. *)
Enrichment(ms) == Setup(ms) - Window(ms)

-----------------------------------------------------------------------------
(* Each stage ends no later than the next begins to starve: the routes
   before the enrichment, which leaves the rerank a whole window before the
   setup cutoff, and after it two windows of assembly and the reserve, and
   no cutoff precedes the request.  from_budget subtracts unchecked
   durations, so a negative one would be a panic. *)
InOrder(ms) ==
    /\ 0 <= RoutesEnd(ms, {})
    /\ RoutesEnd(ms, {}) <= Enrichment(ms)
    /\ Enrichment(ms) + Window(ms) = Setup(ms)
    /\ Setup(ms) + 2 * Window(ms) <= Work(ms)
    /\ Work(ms) + Reserve(ms) = Expires(ms)

(* A fixed window moves the routes, never what comes after them. *)
FixedInOrder(ms, stage, ready) ==
    /\ Routes(ms, stage) <= Setup(ms)
    /\ RouteAfter(ms, stage, ready) <= Setup(ms)
=============================================================================
