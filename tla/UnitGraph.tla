----------------------------- MODULE UnitGraph -----------------------------
(***************************************************************************)
(* What the kernel accepts as a delivery graph (maestro-kernel,            *)
(* unit_graph/: coverage.rs, membership.rs, group_parts.rs, hierarchy.rs,  *)
(* validation.rs) and the context it derives from one.  Four validators    *)
(* each read one side of the graph, in arrays; together they must account  *)
(* for every byte of the source and leave one tree.                        *)
(*                                                                         *)
(* A graph is a record: size, parts, ledger, exclusions, units, groups and *)
(* views, the arrays sequences.  Identities are numbers, as they order     *)
(* what starts together; a range is <<start, end>>; an optional identity   *)
(* is a set of at most one.  Left out: digests, family keys, the text of   *)
(* mappings and the ledger's own copy of the exclusions.                   *)
(***************************************************************************)
EXTENDS Integers, Sequences, FiniteSets, FiniteSetsExt, SequencesExt, Functions

Ids(nodes) == {nodes[i].id : i \in DOMAIN nodes}
Of(nodes, id) == nodes[CHOOSE i \in DOMAIN nodes : nodes[i].id = id]
Unique(seq) == IsInjective(seq)

LexLeq(a, b) == a[1] < b[1] \/ (a[1] = b[1] /\ a[2] <= b[2])
Ascending(keys) == \A i \in 1 .. (Len(keys) - 1) : LexLeq(keys[i], keys[i + 1])
Unplaced == 1000   \* u64::MAX

Context(g) == UNION {{r.part : r \in Range(g.groups[i].context)} : i \in DOMAIN g.groups}
Headings(g) == UNION {g.groups[i].heading : i \in DOMAIN g.groups}

-----------------------------------------------------------------------------
(* coverage.rs *)

(* span *)
IsSpan(g, r) == 0 <= r[1] /\ r[1] < r[2] /\ r[2] <= g.size

(* collect_parts *)
CollectParts(g) ==
    /\ Unique([i \in DOMAIN g.parts |-> g.parts[i].id])
    /\ \A i \in DOMAIN g.parts :
         LET ranges == g.parts[i].ranges IN
         /\ ranges # << >>
         /\ \A j \in DOMAIN ranges : IsSpan(g, ranges[j]) /\ (j > 1 => ranges[j][1] >= ranges[j - 1][2])
    /\ Ascending([i \in DOMAIN g.parts |-> <<g.parts[i].ranges[1][1], g.parts[i].id>>])

(* primary_owners *)
PrimaryOwners(g) ==
    LET owned == FoldLeft(LAMBDA acc, u : acc \o u.parts, << >>, g.units) IN
    /\ Range(owned) \subseteq Ids(g.parts) /\ Unique(owned)
    /\ Headings(g) \subseteq Ids(g.parts) \ Range(owned)
    /\ Ids(g.parts) \subseteq Range(owned) \cup Headings(g) \cup Context(g)
    /\ \A i \in DOMAIN g.groups : Range(g.groups[i].parts) \subseteq Ids(g.parts)
    /\ \A i \in DOMAIN g.views : \A m \in Range(g.views[i].members) : Range(m.parts) \subseteq Ids(g.parts)

AllRanges(g) == FoldLeft(LAMBDA acc, p : acc \o p.ranges, << >>, g.parts)

(* validate_mappings: the ledger is the owned ranges, in source order. *)
ValidMappings(g) ==
    /\ Unique(AllRanges(g))
    /\ g.ledger = SortSeq(AllRanges(g), LAMBDA a, b : a # b /\ LexLeq(a, b))

(* validate_partition: parts and exclusions tile the source. *)
ValidPartition(g) ==
    LET sorted == SortSeq(AllRanges(g) \o g.exclusions, LAMBDA a, b : a # b /\ LexLeq(a, b)) IN
    /\ \A i \in DOMAIN g.exclusions :
         IsSpan(g, g.exclusions[i]) /\ (i > 1 => g.exclusions[i][1] >= g.exclusions[i - 1][2])
    /\ \A i \in DOMAIN sorted : sorted[i][1] = IF i = 1 THEN 0 ELSE sorted[i - 1][2]
    /\ g.size = IF sorted = << >> THEN 0 ELSE Last(sorted)[2]

Covered(g) == CollectParts(g) /\ PrimaryOwners(g) /\ ValidMappings(g) /\ ValidPartition(g)

-----------------------------------------------------------------------------
(* hierarchy.rs *)

(* node_indexes *)
NodeIndexes(g) ==
    /\ Unique([i \in DOMAIN g.groups |-> g.groups[i].id]) /\ Unique([i \in DOMAIN g.units |-> g.units[i].id])
    /\ Ids(g.groups) \cap Ids(g.units) = {}

KindOf(g, parent) == {Of(g.groups, p).kind : p \in parent \cap Ids(g.groups)}

(* validate_family *)
ValidParent(g, group) ==
    CASE group.kind = "row" -> KindOf(g, group.parent) = {"table"}
      [] group.kind \in {"table", "section", "code", "procedure"} -> KindOf(g, group.parent) \in {{"section"}, {"page"}}
      [] group.kind = "page" -> group.parent = {}
      [] group.kind = "paragraphs" -> TRUE

ParentOf(g, id) ==
    IF id \in Ids(g.groups) THEN Of(g.groups, id).parent
    ELSE IF id \in Ids(g.units) THEN Of(g.units, id).parent ELSE {}

ListedBy(g, n) == FoldLeft(LAMBDA acc, group : acc \o group.children, << >>, SubSeq(g.groups, 1, n))

(* validate_children, with the children of the groups seen so far: a group
   must be listed by one that comes before it, or by itself. *)
ValidChildren(g, i) ==
    LET group == g.groups[i]
        listed == ListedBy(g, i)
    IN  /\ Unique(listed) /\ \A c \in Range(group.children) : ParentOf(g, c) = {group.id}
        /\ IF group.parent # {} THEN group.parent \subseteq Ids(g.groups) /\ group.id \in Range(listed)
           ELSE group.kind \in {"page", "procedure", "paragraphs"}

PartIndex(g, id) == CHOOSE i \in DOMAIN g.parts : g.parts[i].id = id

(* validate_context, validate_heading and validate_group_parts *)
ValidRoles(g, group) ==
    /\ \A i \in DOMAIN group.context :
         /\ group.context[i].part \in Range(group.parts)
         /\ i > 1 => PartIndex(g, group.context[i - 1].part) < PartIndex(g, group.context[i].part)
         /\ IF group.context[i].kind = "lead_in" THEN group.kind \in {"procedure", "code", "section"}
            ELSE group.kind = "table"
    /\ group.heading # {} => group.kind \in {"page", "section"} /\ group.parts # << >> /\ group.heading = {group.parts[1]}
    /\ Range(group.parts) \subseteq group.heading \cup {r.part : r \in Range(group.context)}

HasCode(g, group) == \E c \in Range(group.children) \cap Ids(g.units) : Of(g.units, c).kind = "code"

(* validate_units *)
ValidUnitParents(g) ==
    \A u \in Range(g.units) :
        /\ u.parent # {} => u.parent \subseteq Ids(g.groups) /\ u.id \in Range(ListedBy(g, Len(g.groups)))
        /\ u.kind = "code" => KindOf(g, u.parent) = {"code"}

(* validate_acyclic: the walk up from every group ends. *)
Walk(g, id, n) ==
    LET up[k \in 0 .. n] == IF k = 0 THEN {id} ELSE UNION {ParentOf(g, x) : x \in up[k - 1]}
    IN  up[n]
Acyclic(g) == \A id \in Ids(g.groups) : Walk(g, id, Len(g.groups) + 1) = {}

Hierarchical(g) ==
    /\ NodeIndexes(g)
    /\ \A i \in DOMAIN g.groups :
         /\ ValidParent(g, g.groups[i]) /\ ValidChildren(g, i) /\ ValidRoles(g, g.groups[i])
         /\ g.groups[i].kind = "code" => HasCode(g, g.groups[i])
    /\ ValidUnitParents(g) /\ Acyclic(g)

-----------------------------------------------------------------------------
(* group_parts.rs *)

(* position, first_start, and group_start through the descendants *)
Position(g, id) == Of(g.parts, id).ranges[1][1]
FirstStart(g, ids) == Min({Unplaced} \cup {Position(g, p) : p \in Range(ids)})
PartsOf(g, id) == IF id \in Ids(g.groups) THEN Of(g.groups, id).parts
                  ELSE IF id \in Ids(g.units) THEN Of(g.units, id).parts ELSE << >>
Below(g, id) ==
    LET down[k \in 0 .. Len(g.groups)] ==
            IF k = 0 THEN {id}
            ELSE down[k - 1] \cup UNION {Range(Of(g.groups, x).children) : x \in down[k - 1] \cap Ids(g.groups)}
    IN  down[Len(g.groups)]
GroupStart(g, id) == Min({FirstStart(g, PartsOf(g, x)) : x \in Below(g, id)})

Ordered(g) ==
    /\ \A node \in Range(g.units) \cup Range(g.groups) :
         /\ Unique(node.parts)
         /\ Ascending([i \in DOMAIN node.parts |-> <<Position(g, node.parts[i]), node.parts[i]>>])
    /\ Ascending([i \in DOMAIN g.units |-> <<FirstStart(g, g.units[i].parts), g.units[i].id>>])
    /\ Ascending([i \in DOMAIN g.groups |-> <<GroupStart(g, g.groups[i].id), g.groups[i].id>>])

-----------------------------------------------------------------------------
(* membership.rs *)

UnitIndex(g, id) == CHOOSE i \in DOMAIN g.units : g.units[i].id = id

(* validate_memberships *)
ValidMemberships(g, view) ==
    \A i \in DOMAIN view.members :
        LET m == view.members[i] IN
        /\ m.unit \in Ids(g.units) /\ m.parts # << >>
        /\ LET own == Of(g.units, m.unit).parts
               at == [j \in DOMAIN m.parts |-> CHOOSE k \in 0 .. Len(own) : IF k = 0 THEN m.parts[j] \notin Range(own)
                                                                             ELSE own[k] = m.parts[j]]
           IN  \A j \in DOMAIN at : at[j] > 0 /\ (j > 1 => at[j - 1] < at[j])
        /\ i > 1 => UnitIndex(g, view.members[i - 1].unit) < UnitIndex(g, m.unit)

(* validate_views *)
ValidViews(g) ==
    /\ Unique([i \in DOMAIN g.views |-> g.views[i].id]) /\ Unique([i \in DOMAIN g.views |-> g.views[i].chunk])
    /\ \A i \in DOMAIN g.views : g.views[i].members # << >> /\ ValidMemberships(g, g.views[i])
    /\ Ascending([i \in DOMAIN g.views |-> <<Position(g, g.views[i].members[1].parts[1]), g.views[i].id>>])

Shown(g) == UNION {UNION {Range(m.parts) : m \in Range(g.views[i].members)} : i \in DOMAIN g.views}

(* validate_units and validate_searchability *)
Searchable(g) ==
    \A u \in Range(g.units) :
        /\ u.parts # << >> /\ (u.split # << >> => u.split[2] > 1 /\ u.split[1] < u.split[2])
        /\ Range(u.parts) \subseteq Shown(g) \cup Context(g) \cup Headings(g)

(* validate_inner, in its order: each validator relies on those before. *)
Validate(g) ==
    IF ~ Covered(g) THEN FALSE ELSE IF ~ Hierarchical(g) THEN FALSE
    ELSE IF ~ Ordered(g) THEN FALSE ELSE ValidViews(g) /\ Searchable(g)

-----------------------------------------------------------------------------
(* required_context: the context of the ancestors, in source order. *)
Ancestors(g, u) == UNION {Walk(g, u, n) : n \in 1 .. (Len(g.groups) + 1)}
RequiredContext(g, u) ==
    SetToSortSeq(UNION {{r.part : r \in Range(Of(g.groups, a).context)} : a \in Ancestors(g, u)},
                 LAMBDA p, q : p # q /\ LexLeq(<<Position(g, p), p>>, <<Position(g, q), q>>))

-----------------------------------------------------------------------------
(* PROPERTIES *)

Holding(ranges, byte) == {i \in DOMAIN ranges : ranges[i][1] <= byte /\ byte < ranges[i][2]}

(* Whatever arrays a graph comes in, one that is accepted accounts for each
   byte of the source once, by one part or one exclusion; what is above a unit
   by the parent edges is what is above it by the child lists, so that its
   required context is one ascending list of parts; and what a unit owns is
   shown by a view, or is what a group carries for it. *)
AcceptedGraphsAccount(g) ==
    Validate(g) =>
        /\ \A byte \in 0 .. (g.size - 1) :
             Cardinality(Holding(AllRanges(g), byte)) + Cardinality(Holding(g.exclusions, byte)) = 1
        /\ \A u \in Ids(g.units) :
             /\ Ancestors(g, u) = {a \in Ids(g.groups) : u \in Below(g, a)}
             /\ LET context == RequiredContext(g, u) IN
                \A i \in 2 .. Len(context) : Position(g, context[i - 1]) < Position(g, context[i])
        /\ \A u \in Range(g.units) : \A p \in Range(u.parts) :
             p \notin Shown(g) => \E group \in Range(g.groups) : p \in Range(group.parts) \cup group.heading

=============================================================================
