------------------------------ MODULE Chunking ------------------------------
(***************************************************************************)
(* How a canonical document becomes chunks (maestro-canonicalization:      *)
(* chunk_split/, chunks/build.rs and chunks/validation.rs).  Units of text *)
(* are packed up to a target: an idea too large for a chunk continues atom *)
(* by atom, an atom too large is refined at its structure, and a unit too  *)
(* large is cut.  A token count is of a whole prepared input, with the     *)
(* context a chunk repeats, so it may shrink when a body grows.  One       *)
(* action is one turn of the loop of build_drafts; the last turns absorb   *)
(* small drafts and replay the result.                                     *)
(*                                                                         *)
(* A text is a sequence of scalars, each told apart only as part of a      *)
(* "word", a "stop" that ends a sentence, a "blank" or a "line" break; an  *)
(* offset is a number of scalars.  Blocks are numbered in document order,  *)
(* 0 is no block, and columns and rows count from 1.  Every unit has text  *)
(* outside its delimiters, and parents are whole: what map_document and    *)
(* the document's own check give.                                          *)
(***************************************************************************)
EXTENDS Integers, Sequences, FiniteSets, SequencesExt, FiniteSetsExt

VARIABLES
    doc,      \* [blocks, units, packing, min, chrome, target, max, weight, merged]
    layout,   \* for each unit, its blocks from the outermost and the range it indexes
    pending,  \* the pieces to place, each a sequence of atoms
    open,     \* the open draft, none or one
    drafts,   \* the drafts that are complete
    outcome   \* "packing", "packed", "accepted", or why the document was refused

chunkingVars == <<doc, layout, pending, open, drafts, outcome>>

Units == 1 .. Len(doc.units)
BlockOf(u) == doc.units[u].block
TypeOf(b) == doc.blocks[b].type
Each(Op(_), s) == FlattenSeq([i \in 1 .. Len(s) |-> Op(s[i])])
InOrder(set, n) == SelectSeq([i \in 1 .. n |-> i], LAMBDA i : i \in set)
UnitsOf(units) == InOrder(units, Len(doc.units))

-----------------------------------------------------------------------------
(* The document's structure. *)

(* A unit's blocks from the outermost to the one that owns it. *)
Ancestry(u) ==
    LET path[b \in DOMAIN doc.blocks] ==
            IF doc.blocks[b].parent = 0 THEN <<b>> ELSE Append(path[doc.blocks[b].parent], b)
    IN  path[BlockOf(u)]
Ancestors(u) == layout.ancestry[u]

OfType(u, types) == SelectSeq(Ancestors(u), LAMBDA b : TypeOf(b) \in types)
Nearest(u, types) == LET found == OfType(u, types) IN IF found = << >> THEN 0 ELSE Last(found)
Item(u) == Nearest(u, {"item"})
ListDepth(u) == Len(OfType(u, {"list"}))

Section(u) ==
    IF TypeOf(BlockOf(u)) = "heading" THEN BlockOf(u) ELSE doc.blocks[BlockOf(u)].section
Key(u) == <<Section(u), OfType(u, {"list", "code", "table", "quote", "footnote", "definitions", "html",
                                 "raw"})>>

ChildrenOf(b, types) == SelectSeq(doc.blocks[b].children, LAMBDA c : TypeOf(c) \in types)
RowCells(r) == ChildrenOf(r, {"cell"})

(* The table window of a unit, with its own column or the whole row. *)
Window(u, wholeRow) ==
    LET table == Nearest(u, {"table"})
        row == Nearest(u, {"head", "row"})
        column == CHOOSE c \in DOMAIN RowCells(row) : RowCells(row)[c] = Nearest(u, {"cell"})
    IN  IF table = 0 THEN << >>
        ELSE <<[table |-> table, row |-> row,
                index |-> CHOOSE i \in DOMAIN ChildrenOf(table, {"head", "row"}) :
                             ChildrenOf(table, {"head", "row"})[i] = row,
                columns |-> IF wholeRow THEN DOMAIN RowCells(row) ELSE {column}]>>

-----------------------------------------------------------------------------
(* Ranges of a unit. *)

(* A range that neither starts nor ends inside an inline delimiter, extended
   over closing ones and holding some text outside them; none otherwise. *)
NormalizedRange(unit, start, end) ==
    LET wraps == {e.opening : e \in unit.envelopes} \cup {e.closing : e \in unit.envelopes}
        past[n \in 0 .. Cardinality(unit.envelopes), at \in 0 .. Len(unit.text)] ==
            LET ends == {e.closing[2] : e \in {e \in unit.envelopes :
                                                 e.closing[1] <= at /\ at < e.closing[2]}}
            IN  IF n = 0 \/ ends = {} THEN at ELSE past[n - 1, Max(ends)]
        stop == past[Cardinality(unit.envelopes), end]
    IN  IF \/ end > Len(unit.text) \/ start = end
           \/ \E w \in wraps : w[1] < start /\ start < w[2]
           \/ \E e \in unit.envelopes : e.opening[1] < end /\ end <= e.opening[2]
           \/ \A at \in start .. stop - 1 : \E w \in wraps : w[1] <= at /\ at < w[2]
        THEN << >> ELSE <<start, stop>>

(* What the profile's chrome rules keep of a unit: nothing of a label or of
   markup alone, the text before a trailing label, else all of it. *)
OwnedPrimary(b) == UnitsOf({u \in Units : BlockOf(u) = b /\ doc.units[u].primary})
WholeChrome(b) ==
    LET later == {n \in DOMAIN doc.blocks : n > b /\ OwnedPrimary(n) # << >>}
    IN  /\ TypeOf(b) \in {"paragraph", "html"}
        /\ \/ doc.blocks[b].says \in {"label", "markup", "image"}
           \/ /\ doc.blocks[b].says = "state" /\ later # {}
              /\ doc.blocks[Min(later)].says = "image"

IndexedRange(u) ==
    LET unit == doc.units[u]
        whole == <<0, Len(unit.text)>>
        b == BlockOf(u)
        labelled == /\ TypeOf(b) \in {"heading", "paragraph"} /\ unit.primary
                    /\ u = Last(OwnedPrimary(b)) /\ unit.before < Len(unit.text)
    IN  IF ~ doc.chrome THEN whole
        ELSE IF unit.primary /\ WholeChrome(b) THEN << >>
        ELSE IF ~ labelled THEN whole
        ELSE IF \A i \in 1 .. unit.before : unit.text[i] \in {"blank", "line"} THEN << >>
        ELSE IF NormalizedRange(unit, 0, unit.before) = <<0, unit.before>> THEN <<0, unit.before>>
        ELSE whole

Kept(u) == layout.kept[u]
Indexed(u) == doc.units[u].primary /\ Kept(u) # << >>

-----------------------------------------------------------------------------
(* Bodies: fragments, and the table windows they fall in. *)

Body(fragments, windows) == [fragments |-> fragments, windows |-> windows]
Fragment(u, range, split) ==
    [unit |-> u, start |-> range[1], end |-> range[2], ordinal |-> 0, split |-> split]
FirstUnit(body) == Head(body.fragments).unit

(* The windows of one row merge; the others follow. *)
Combined(left, right) ==
    LET put(ws, w) ==
            IF ws # << >> /\ Last(ws).row = w.row
            THEN Append(Front(ws), [Last(ws) EXCEPT !.columns = @ \cup w.columns])
            ELSE Append(ws, w)
    IN  Body(left.fragments \o right.fragments, FoldLeft(put, left.windows, right.windows))

BodyOf(piece) == FoldLeft(Combined, Body(<< >>, << >>), piece)

(* Runs of consecutive indexed units of one row, item or block, and one key. *)
Atoms ==
    LET natural(u) ==
            IF Nearest(u, {"table"}) # 0 THEN Nearest(u, {"head", "row"})
            ELSE IF Nearest(u, {"item", "description"}) # 0 THEN Nearest(u, {"item", "description"})
            ELSE BlockOf(u)
        whole(u) == Fragment(u, Kept(u), "whole")
        put(atoms, u) ==
            IF atoms # << >>
               /\ LET p == Last(Last(atoms).fragments).unit
                  IN  natural(p) = natural(u) /\ Key(p) = Key(u)
            THEN Append(Front(atoms), [Last(atoms) EXCEPT !.fragments = Append(@, whole(u))])
            ELSE Append(atoms, Body(<<whole(u)>>, Window(u, TRUE)))
    IN  FoldLeft(put, << >>, UnitsOf({u \in Units : Indexed(u)}))

(* Consecutive atoms under one outermost item of one section are one idea. *)
Step(atom) ==
    LET items == OfType(FirstUnit(atom), {"item"})
    IN  IF doc.packing = "container" \/ items = << >> THEN << >>
        ELSE <<Section(FirstUnit(atom)), Head(items)>>
Pieces ==
    LET put(pieces, atom) ==
            IF pieces # << >> /\ Step(atom) # << >> /\ Step(Last(Last(pieces))) = Step(atom)
            THEN Append(Front(pieces), Append(Last(pieces), atom))
            ELSE Append(pieces, <<atom>>)
    IN  FoldLeft(put, << >>, Atoms)

Compatible(left, right) ==
    /\ IF doc.packing = "section" THEN Section(FirstUnit(left)) = Section(FirstUnit(right))
       ELSE Key(FirstUnit(left)) = Key(FirstUnit(right))
    /\ IF left.windows # << >> /\ right.windows # << >>
       THEN LET last == Last(left.windows)
                first == Head(right.windows)
            IN  last.table = first.table /\ (last.row = first.row \/ last.columns = first.columns)
       ELSE left.windows = right.windows \/ doc.packing = "section"

-----------------------------------------------------------------------------
(* The context a body repeats. *)

Entry(key, role, depth, units) ==
    [key |-> key, role |-> role, depth |-> depth, units |-> units, columns |-> << >>]

HeadingChain(u) ==
    LET chain[b \in DOMAIN doc.blocks \cup {0}] ==
            IF b = 0 THEN << >> ELSE Append(chain[doc.blocks[b].section], b)
    IN  chain[Section(u)]
HeadingEntries(body) ==
    LET above == SelectSeq(HeadingChain(FirstUnit(body)),
                           LAMBDA h : \E f \in Range(body.fragments) : BlockOf(f.unit) # h)
    IN  [i \in DOMAIN above |->
            Entry(<<"heading", above[i]>>, "heading", i,
                  UnitsOf({u \in Units : BlockOf(u) = above[i] /\ Indexed(u)}))]

(* A parent item, the own item's task marker, attributes, and the term a
   definition describes: the last before it. *)
BlockEntries(b, depth, ownItem) ==
    LET owned == UnitsOf({u \in Units : /\ BlockOf(u) = b /\ ~ doc.units[u].primary
                                        /\ doc.units[u].field # "marker"})
        tasks == UnitsOf({u \in Units : Item(u) = b /\ doc.units[u].field = "task"})
        terms == {c \in Range(ChildrenOf(doc.blocks[b].parent, {"term"})) : c < b}
    IN  (IF TypeOf(b) # "item" THEN << >>
         ELSE IF b # ownItem
         THEN <<Entry(<<"parent", b>>, "parent", depth, UnitsOf({u \in Units : Item(u) = b}))>>
         ELSE IF tasks # << >> THEN <<Entry(<<"task", b>>, "structural", depth, tasks)>>
         ELSE << >>)
        \o [i \in DOMAIN owned |->
               Entry(<<"attribute", owned[i]>>, "structural", depth, <<owned[i]>>)]
        \o (IF TypeOf(b) # "description" THEN << >>
            ELSE <<Entry(<<"term", Max(terms)>>, "structural", depth,
                         UnitsOf({u \in Units : BlockOf(u) = Max(terms)}))>>)

AncestorEntries(body) ==
    LET of(f) == LET above == Ancestors(f.unit)
                 IN  FlattenSeq([i \in DOMAIN above |-> BlockEntries(above[i], i, Item(f.unit))])
        put(entries, e) == IF \E x \in Range(entries) : x.key = e.key THEN entries
                           ELSE Append(entries, e)
    IN  FoldLeft(put, << >>, Each(of, body.fragments))

(* The header cells of the columns of the first window. *)
TableHeaderEntry(body) ==
    IF \A w \in Range(body.windows) : w.index = 1 THEN << >>
    ELSE LET window == Head(body.windows)
             cells == RowCells(Head(ChildrenOf(window.table, {"head"})))
             shown == InOrder(window.columns, Len(cells))
             columns == [i \in DOMAIN shown |-> UnitsOf({u \in Units : BlockOf(u) = cells[shown[i]]})]
         IN  <<[Entry(<<"header", window.table>>, "header", Len(Ancestors(FirstUnit(body))) + 1,
                      FlattenSeq(columns)) EXCEPT !.columns = columns]>>

Full(u, body) ==
    \E f \in Range(body.fragments) : f.unit = u /\ <<f.start, f.end>> = Kept(u)

ByDepth(entries) ==
    LET deepest == Max({0} \cup {e.depth : e \in Range(entries)})
    IN  SelectSeq(entries, LAMBDA e : e.role = "heading")
        \o FlattenSeq([d \in 1 .. deepest |->
               SelectSeq(entries, LAMBDA e : e.role # "heading" /\ e.depth = d)])

(* Less what the body holds whole; headings first, then by depth. *)
ContextEntries(body) ==
    LET all == HeadingEntries(body) \o AncestorEntries(body) \o TableHeaderEntry(body)
    IN  ByDepth(SelectSeq(all, LAMBDA e :
            LET primary == {u \in Range(e.units) : Indexed(u)}
            IN  primary = {} \/ \E u \in primary : ~ Full(u, body)))

-----------------------------------------------------------------------------
(* The prepared input. *)

Formatting(text) == IF text = << >> THEN << >> ELSE <<[role |-> "separator", text |-> text]>>
Indent(n) == [i \in 1 .. 2 * n |-> "blank"]

(* A range of a unit, each line break followed by the indentation. *)
Source(u, start, end, role) ==
    LET line(c) == IF c = "line" THEN <<c>> \o Indent(ListDepth(u)) ELSE <<c>>
    IN  <<[role |-> role, text |-> Each(line, SubSeq(doc.units[u].text, start + 1, end)),
           unit |-> u, start |-> start, end |-> end]>>
WholePart(u, role) ==
    <<[role |-> role, text |-> doc.units[u].text,
       unit |-> u, start |-> 0, end |-> Len(doc.units[u].text)]>>

(* A header's columns are separated by tabs; the units of any other entry as
   their blocks need, chrome left out. *)
HeaderParts(columns) ==
    LET whole(u) == WholePart(u, "header")
    IN  FlattenSeq([i \in DOMAIN columns |->
            (IF i > 1 THEN Formatting(<<"blank">>) ELSE << >>) \o Each(whole, columns[i])])
ContextSeparator(previous, u) ==
    LET line == <<"line">> \o Indent(ListDepth(u))
    IN  IF doc.units[previous].field = "marker" THEN << >>
        ELSE IF BlockOf(previous) # BlockOf(u) THEN Formatting(line \o line)
        ELSE IF doc.units[previous].primary THEN << >> ELSE Formatting(line)
ContextParts(e) ==
    LET units == SelectSeq(e.units, LAMBDA u : Kept(u) # << >>)
        lead(i) == CASE i > 1 -> ContextSeparator(units[i - 1], units[i])
                     [] i = 1 /\ e.role = "parent" -> Formatting(Indent(ListDepth(units[i]) - 1))
                     [] OTHER -> << >>
    IN  IF e.role = "header" THEN HeaderParts(e.columns)
        ELSE FlattenSeq([i \in DOMAIN units |->
                 lead(i) \o Source(units[i], Kept(units[i])[1], Kept(units[i])[2], e.role)])

(* A fragment, with the delimiters of the envelopes it starts or ends inside. *)
FragmentParts(f) ==
    LET wraps == SetToSortSeq(
                     {e \in doc.units[f.unit].envelopes :
                         f.start < e.closing[1] /\ f.end > e.opening[2]},
                     LAMBDA x, y : x.opening[1] < y.opening[1])
        opened(e) == IF f.start > e.opening[1]
                     THEN Source(f.unit, e.opening[1], e.opening[2], "structural") ELSE << >>
        closed(e) == IF f.end < e.closing[2]
                     THEN Source(f.unit, e.closing[1], e.closing[2], "structural") ELSE << >>
    IN  Each(opened, wraps) \o Source(f.unit, f.start, f.end, "source")
        \o Each(closed, Reverse(wraps))

Marker(u) == Head(UnitsOf({m \in Units : BlockOf(m) = Item(u) /\ doc.units[m].field = "marker"}))
ItemPrefix(u) ==
    Formatting(Indent(ListDepth(u) - 1)) \o WholePart(Marker(u), "structural")

BodySeparator(previous, u) ==
    LET line == <<"line">> \o Indent(ListDepth(u))
    IN  IF Item(previous) # Item(u) THEN Formatting(<<"line">>)
        ELSE IF BlockOf(previous) # BlockOf(u) THEN Formatting(line \o line)
        ELSE << >>

(* Each window's cells separated by tabs, and its rows by line breaks. *)
Rows(body, u) ==
    LET cell(w, c) == Each(FragmentParts, SelectSeq(body.fragments, LAMBDA f :
                                              BlockOf(f.unit) = RowCells(w.row)[c]))
        row(w) == LET columns == InOrder(w.columns, Len(RowCells(w.row)))
                  IN  FlattenSeq([i \in DOMAIN columns |->
                          (IF i > 1 THEN Formatting(<<"blank">>) ELSE << >>)
                          \o cell(w, columns[i])])
    IN  FlattenSeq([i \in DOMAIN body.windows |->
            (IF i > 1 THEN Formatting(<<"line">> \o Indent(ListDepth(u))) ELSE << >>)
            \o row(body.windows[i])])

(* The fragments of a table are laid out together, where the first stands. *)
BodyParts(body) ==
    LET InTable(f) == Nearest(f.unit, {"table"}) # 0
        fs == body.fragments
        laid == SelectSeq([i \in DOMAIN fs |-> i],
                          LAMBDA i : ~ InTable(fs[i]) \/ \A j \in 1 .. i - 1 : ~ InTable(fs[j]))
        lastOf(i) == IF InTable(fs[i]) THEN fs[Max({j \in DOMAIN fs : InTable(fs[j])})].unit
                     ELSE fs[i].unit
        part(n) ==
            LET i == laid[n]
                u == fs[i].unit
            IN  (IF n = 1 THEN << >> ELSE BodySeparator(lastOf(laid[n - 1]), u))
                \o (IF Item(u) # 0 /\ \A m \in 1 .. n - 1 : Item(fs[laid[m]].unit) # Item(u)
                    THEN ItemPrefix(u) ELSE << >>)
                \o (IF InTable(fs[i]) THEN Rows(body, u) ELSE FragmentParts(fs[i]))
    IN  FlattenSeq([n \in DOMAIN laid |-> part(n)])

(* Each entry with text is a line of its own, and a blank one ends them. *)
InputParts(body) ==
    LET then(parts, of) == IF of = << >> \/ parts = << >> THEN parts \o of
                           ELSE parts \o Formatting(<<"line">>) \o of
        laid(entries) ==
            LET upTo[n \in 0 .. Len(entries)] ==
                    IF n = 0 THEN << >> ELSE then(upTo[n - 1], ContextParts(entries[n]))
            IN  upTo[Len(entries)]
        ended(parts) == IF parts = << >> THEN << >> ELSE parts \o Formatting(<<"line", "line">>)
    IN  ended(laid(ContextEntries(body))) \o BodyParts(body)

(* The tokenizer, external: a weight for each scalar, less one wherever two
   neighbours merge, so that a longer text may count less. *)
Tokens(text) ==
    LET weighs(class) == doc.weight[class] * Cardinality({i \in DOMAIN text : text[i] = class}) IN
    weighs("word") + weighs("stop") + weighs("blank") + weighs("line")
    - Cardinality({i \in 1 .. Len(text) - 1 : <<text[i], text[i + 1]>> \in doc.merged})

Prepare(body) ==
    [body |-> body, tokens |-> LET text(p) == p.text IN Tokens(Each(text, InputParts(body)))]
Fits(body) == Prepare(body).tokens <= doc.max

(* Mutant: two bodies are taken to cost together what each costs alone. *)
MutGrown(left, right) ==
    IF ~ Compatible(left, right) THEN << >>
    ELSE LET apart == Prepare(left).tokens + Prepare(right).tokens
             candidate == [Prepare(Combined(left, right)) EXCEPT !.tokens = apart]
         IN  IF candidate.tokens <= doc.max THEN <<candidate>> ELSE << >>

Grown(left, right) ==
    IF ~ Compatible(left, right) THEN << >>
    ELSE LET candidate == Prepare(Combined(left, right))
         IN  IF candidate.tokens <= doc.max THEN <<candidate>> ELSE << >>

-----------------------------------------------------------------------------
(* An atom that is too large. *)

(* One body for each column that holds fragments, else one for each
   fragment; none for a single fragment. *)
Refine(body) ==
    LET cells == RowCells(Head(body.windows).row)
        inCell(c) == SelectSeq(body.fragments, LAMBDA f : BlockOf(f.unit) = cells[c])
        as(kind, f) == [f EXCEPT !.split = kind]
        column(c) ==
            IF inCell(c) = << >> THEN << >>
            ELSE <<Body([i \in DOMAIN inCell(c) |-> as("structural", inCell(c)[i])],
                        <<[Head(body.windows) EXCEPT !.columns = {c}]>>)>>
        alone(f) == Body(<<as(IF Nearest(f.unit, {"code"}) # 0 THEN "code_line" ELSE "structural",
                              f)>>,
                         Window(f.unit, FALSE))
        columns == IF body.windows = << >> \/ Cardinality(Head(body.windows).columns) <= 1
                   THEN << >> ELSE Each(column, InOrder(Head(body.windows).columns, Len(cells)))
    IN  IF columns # << >> THEN columns
        ELSE IF Len(body.fragments) > 1
        THEN [i \in DOMAIN body.fragments |-> alone(body.fragments[i])]
        ELSE << >>

(* Cut points after white space; after a line of code or a sentence if any. *)
Whitespace(text) == {i \in DOMAIN text : text[i] \in {"blank", "line"}}
Meaningful(text, code) ==
    {i \in Whitespace(text) : IF code THEN text[i] = "line" ELSE i > 1 /\ text[i - 1] = "stop"}

(* The whole text or the first half that fits, by halving; a half moves back
   to the last preferred cut if that fits too.  0 when nothing fits. *)
FitPrefix(length, preferred, held) ==
    LET fit[end \in 0 .. length] ==
            LET before == {c \in preferred : c < end}
            IN  IF end \in held
                THEN IF end < length /\ before # {} /\ Max(before) \in held
                     THEN Max(before) ELSE end
                ELSE IF end <= 1 THEN 0 ELSE fit[end \div 2]
    IN  fit[length]

CodeSplit(text, start, end) ==
    IF /\ start = 0 \/ text[start] = "line"
       /\ end = Len(text) \/ text[end] = "line" THEN "code_line" ELSE "code_line_fragment"

(* The lengths at which a piece of an atom of one fragment may end and fits. *)
CanHold(atom, start) ==
    LET f == Head(atom.fragments)
        fits(end) == Fits(Body(<<[f EXCEPT !.start = start, !.end = end]>>, atom.windows))
    IN  {n \in 1 .. f.end - start :
            \E range \in {NormalizedRange(doc.units[f.unit], start, start + n)} :
                range # << >> /\ fits(range[2])}

(* The next piece of an atom of one fragment, or none when nothing fits. *)
NextPiece(atom, start, held) ==
    LET f == Head(atom.fragments)
        unit == doc.units[f.unit]
        code == Nearest(f.unit, {"code"}) # 0
        text == SubSeq(unit.text, start + 1, f.end)
        blanks == Whitespace(text)
        meaningful == Meaningful(text, code)
        length == FitPrefix(Len(text), IF meaningful = {} THEN blanks ELSE meaningful, held)
        shorter == {c \in blanks : c < length}
        cut == IF /\ ~ code /\ length < Len(text) /\ length \notin blanks
                  /\ shorter # {} /\ Max(shorter) \in held
               THEN Max(shorter) ELSE length
        piece(end) ==
            [f EXCEPT !.start = start, !.end = end,
                !.split = IF code THEN CodeSplit(unit.text, start, end)
                          ELSE IF Nearest(f.unit, {"cell"}) # 0 THEN "cell_fragment"
                          ELSE IF end - start \in meaningful \/ (end = f.end /\ meaningful # {})
                          THEN "sentence"
                          ELSE IF end - start \in blanks \/ (end = f.end /\ blanks # {})
                          THEN "whitespace" ELSE "scalar"]
    IN  IF length = 0 THEN {}
        ELSE {Body(<<piece(NormalizedRange(unit, start, start + cut)[2])>>, atom.windows)}

(* The ways to cut an atom of one fragment: one, or none when a piece of it
   is refused. *)
SplitUnit(atom) ==
    LET f == Head(atom.fragments)
        from[start \in f.start .. f.end] ==
            IF start = f.end THEN {<< >>}
            ELSE UNION {IF piece.tokens > doc.max THEN {}
                        ELSE {<<piece>> \o rest : rest \in from[Head(piece.body.fragments).end]} :
                           piece \in {Prepare(b) : b \in NextPiece(atom, start, CanHold(atom, start))}}
    IN  from[f.start]

-----------------------------------------------------------------------------
(* build_drafts: one action for each way a turn of its loop ends. *)

Complete == drafts \o open
Settle(done, prepared) ==
    IF prepared.tokens >= doc.target
    THEN drafts' = Append(done, prepared) /\ open' = << >>
    ELSE drafts' = done /\ open' = <<prepared>>

Requeue(atoms) == [i \in DOMAIN atoms |-> <<atoms[i]>>] \o Tail(pending)

Incoming == BodyOf(Head(pending))
Growth == IF open = << >> THEN << >> ELSE Grown(Head(open).body, Incoming)
Stays == outcome = "packing" /\ pending # << >> /\ Growth = << >>

(* The open draft grows. *)
Join ==
    /\ outcome = "packing" /\ pending # << >>
    /\ \E grown \in Range(Growth) : Settle(drafts, grown)
    /\ pending' = Tail(pending) /\ UNCHANGED <<doc, layout, outcome>>

(* An idea too large for any chunk: its atoms may still join the open draft. *)
BreakIdea ==
    /\ Stays /\ Len(Head(pending)) > 1 /\ ~ Fits(Incoming)
    /\ pending' = Requeue(Head(pending))
    /\ UNCHANGED <<doc, layout, open, drafts, outcome>>

(* A draft of its own; the open one is complete. *)
Start ==
    /\ Stays
    /\ \E prepared \in {Prepare(Incoming)} :
          prepared.tokens <= doc.max /\ Settle(Complete, prepared)
    /\ pending' = Tail(pending) /\ UNCHANGED <<doc, layout, outcome>>

(* An atom over the maximum is refined at its structure or cut. *)
RefineAtom ==
    /\ Stays /\ Len(Head(pending)) = 1 /\ ~ Fits(Incoming) /\ Refine(Incoming) # << >>
    /\ drafts' = Complete /\ open' = << >>
    /\ pending' = Requeue(Refine(Incoming)) /\ UNCHANGED <<doc, layout, outcome>>

SplitAtom ==
    /\ Stays /\ Len(Head(pending)) = 1 /\ ~ Fits(Incoming) /\ Refine(Incoming) = << >>
    /\ \E ways \in {SplitUnit(Incoming)} :
          \/ ways = {} /\ outcome' = "oversized" /\ UNCHANGED drafts
          \/ \E pieces \in ways : drafts' = Complete \o pieces /\ UNCHANGED outcome
    /\ open' = << >> /\ pending' = Tail(pending) /\ UNCHANGED <<doc, layout>>

(* A draft under the minimum joins the one before it, when the two fit. *)
AbsorbSmall(all) ==
    LET joined(done, draft, grown) ==
            IF grown = << >> THEN Append(done, draft) ELSE Front(done) \o grown
        put(done, draft) ==
            joined(done, draft, IF done = << >> \/ draft.tokens >= doc.min THEN << >>
                                ELSE Grown(Last(done).body, draft.body))
        upTo[n \in 0 .. Len(all)] == IF n = 0 THEN << >> ELSE put(upTo[n - 1], all[n])
    IN  upTo[Len(all)]

FragmentsOf(all) == LET of(draft) == draft.body.fragments IN Each(of, all)

(* The parts of each unit are numbered from 0. *)
Numbered(all) ==
    LET before(i, k) == FragmentsOf(SubSeq(all, 1, i - 1)) \o SubSeq(all[i].body.fragments, 1, k - 1)
        numbered(i, k, f) ==
            [f EXCEPT !.ordinal = Len(SelectSeq(before(i, k), LAMBDA g : g.unit = f.unit))]
    IN  [i \in DOMAIN all |->
            [all[i] EXCEPT !.body.fragments = [k \in DOMAIN @ |-> numbered(i, k, @[k])]]]

FinishDrafts ==
    /\ outcome = "packing" /\ pending = << >>
    /\ drafts' = Numbered(IF doc.min = 0 THEN Complete ELSE AbsorbSmall(Complete))
    /\ open' = << >> /\ outcome' = "packed" /\ UNCHANGED <<doc, layout, pending>>

-----------------------------------------------------------------------------
(* The replay that decides whether the drafts are accepted. *)

Fragments == FragmentsOf(drafts)
RangesOf(u) ==
    LET of == SelectSeq(Fragments, LAMBDA f : f.unit = u)
    IN  [i \in DOMAIN of |-> <<of[i].start, of[i].end>>]

ValidateCoverage ==
    LET all == Fragments IN
    /\ \A i \in DOMAIN all :
          LET f == all[i]
          IN  /\ doc.units[f.unit].primary /\ f.start < f.end
              /\ f.end <= Len(doc.units[f.unit].text)
              /\ f.ordinal = Cardinality({j \in 1 .. i - 1 : all[j].unit = f.unit})
              /\ i > 1 => all[i - 1].unit <= f.unit
    /\ \A u \in Units : doc.units[u].primary =>
          LET ranges == SortSeq(RangesOf(u), LAMBDA r, s : r[1] < s[1])
              bounds == IF Kept(u) = << >> THEN <<0, 0>> ELSE Kept(u)
          IN  /\ \A i \in DOMAIN ranges :
                    ranges[i][1] = (IF i = 1 THEN bounds[1] ELSE ranges[i - 1][2])
              /\ (IF ranges = << >> THEN bounds[1] ELSE Last(ranges)[2]) = bounds[2]

(* Each fragment in a table is in one window, each window holds one. *)
WitnessWindows(body) ==
    LET holds(w, f) == LET own == Window(f.unit, FALSE)[1]
                       IN  w.row = own.row /\ own.columns \subseteq w.columns
        inTable == {f \in Range(body.fragments) : Window(f.unit, FALSE) # << >>}
    IN  /\ \A f \in inTable : Cardinality({i \in DOMAIN body.windows : holds(body.windows[i], f)}) = 1
        /\ \A i \in DOMAIN body.windows : \E f \in inTable : holds(body.windows[i], f)
        /\ doc.packing = "container" /\ body.windows # << >> => inTable = Range(body.fragments)

(* Windows follow the rows of one table over the same columns. *)
OrderWindows(body) ==
    \A i \in 1 .. Len(body.windows) - 1 :
        LET left == body.windows[i]
            right == body.windows[i + 1]
        IN  /\ left.table = right.table /\ left.index < right.index
            /\ left.columns = right.columns

(* The parts that are source walk the fragments in order, each normalized. *)
CheckFragmentOrder(body) ==
    LET source == SelectSeq(InputParts(body), LAMBDA p : p.role = "source")
    IN  /\ [i \in DOMAIN source |-> <<source[i].unit, source[i].start, source[i].end>>]
           = [i \in DOMAIN body.fragments |->
                 <<body.fragments[i].unit, body.fragments[i].start, body.fragments[i].end>>]
        /\ \A f \in Range(body.fragments) :
              NormalizedRange(doc.units[f.unit], f.start, f.end) = <<f.start, f.end>>

ValidateChunks ==
    \A draft \in Range(drafts) :
        /\ draft.tokens <= doc.max /\ Prepare(draft.body).tokens = draft.tokens
        /\ CheckFragmentOrder(draft.body)
        /\ WitnessWindows(draft.body) /\ OrderWindows(draft.body)

Replay ==
    /\ outcome = "packed"
    /\ outcome' = IF ValidateCoverage /\ ValidateChunks THEN "accepted" ELSE "invalid"
    /\ UNCHANGED <<doc, layout, pending, open, drafts>>

-----------------------------------------------------------------------------
ChunkingInit(documents) ==
    /\ doc \in documents
    /\ layout = [ancestry |-> [u \in Units |-> Ancestry(u)],
                 kept |-> [u \in Units |-> IndexedRange(u)]]
    /\ pending = Pieces
    /\ open = << >> /\ drafts = << >> /\ outcome = "packing"

ChunkingNext ==
    \/ Join \/ BreakIdea \/ Start \/ RefineAtom \/ SplitAtom \/ FinishDrafts \/ Replay

-----------------------------------------------------------------------------
Scalars(u, range) == [i \in 1 .. range[2] - range[1] |-> <<u, range[1] + i>>]
HeldWhole(piece) ==
    \E draft \in Range(drafts) : \A f \in Range(BodyOf(piece).fragments) :
        \E g \in Range(draft.body.fragments) :
            g.unit = f.unit /\ g.start = f.start /\ g.end = f.end

(* Every scalar the profile indexes is in exactly one accepted draft, and in
   document order, whatever was joined, refined and cut on the way; a step or
   a row that fits a chunk is in one; the replay never refuses what packing
   made; and a document is refused as too large only for a unit of which one
   scalar does not fit with its context, or whose delimiters no half avoids. *)
DraftsAreWhole ==
    /\ outcome = "accepted" =>
          /\ Each(LAMBDA f : Scalars(f.unit, <<f.start, f.end>>), Fragments)
             = Each(LAMBDA u : Scalars(u, Kept(u)), UnitsOf({u \in Units : Indexed(u)}))
          /\ \A piece \in Range(Pieces) \cup {<<a>> : a \in Range(Atoms)} :
                Fits(BodyOf(piece)) => HeldWhole(piece)
          /\ \A draft \in Range(drafts) : \A f, g \in Range(draft.body.fragments) :
                Section(f.unit) = Section(g.unit)
    /\ outcome = "oversized" =>
          \E u \in {u \in Units : Indexed(u)} :
              \/ doc.units[u].envelopes # {}
              \/ \E at \in Kept(u)[1] .. Kept(u)[2] - 1 :
                    ~ Fits(Body(<<Fragment(u, <<at, at + 1>>, "scalar")>>, Window(u, FALSE)))
    /\ outcome # "invalid"

=============================================================================
