------------------------------ MODULE Snapshot ------------------------------
(***************************************************************************)
(* The list of interactive elements a page is presented by                 *)
(* (crates/bouncy-browse/src/snapshot.rs), the selector each of them gets, *)
(* and how a selector is read back and matched (crates/bouncy-dom).        *)
(*                                                                         *)
(* A page is the sequence of its elements in document order.  An element   *)
(* has a node, a tag, the attributes selectors look at, its classes,       *)
(* whether it has an href, its text, and the form it is inside, if any.    *)
(* Forms are not nested, so the markup a page is dumped to reads back as   *)
(* the same page.  Labels, values, headings, meta and the text summary are *)
(* left out: nothing below depends on them.  What the code collects in     *)
(* vectors of NodeIds are here sequences of positions in the page.         *)
(***************************************************************************)
EXTENDS Integers, Sequences, FiniteSets, SequencesExt

CONSTANTS
    Nodes,
    Trimmed,      \* what is left of an attribute value read from a selector
    Holding,      \* the texts that contain a text
    Absent,       \* an attribute that is missing or empty
    NoNode

ASSUME SnapshotAssumption ==
    /\ NoNode \notin Nodes
    /\ \A v \in DOMAIN Trimmed : Trimmed[Trimmed[v]] = Trimmed[v]
    /\ \A t \in DOMAIN Holding : t \in Holding[t]

Attributes == {"id", "name", "data-testid", "role"}

Element ==
    [node : Nodes, tag : STRING, attr : [Attributes -> STRING],
     classes : Seq(STRING), href : BOOLEAN, text : STRING, inside : SUBSET Nodes]

----------------------------------------------------------------------------
(* Selectors.  One clause: the tag, an attribute, or a class. *)

\* Positions, in document order.
InOrder(I) ==
    [k \in 1..Cardinality(I) |->
        CHOOSE i \in I : Cardinality({j \in I : j <= i}) = k]

Selector(by, is) == [by |-> by, is |-> is]

\* SimpleSelector::parse trims the whole selector and what follows the "=".
Parsed(sel) ==
    IF sel.by = "tag" THEN sel ELSE [sel EXCEPT !.is = Trimmed[@]]

Matches(sel, e) ==
    CASE sel.by = "tag"   -> e.tag = sel.is
      [] sel.by = "class" -> \E k \in DOMAIN e.classes : e.classes[k] = sel.is
      [] OTHER            -> e.attr[sel.by] = sel.is

QueryAll(p, sel) == {k \in DOMAIN p : Matches(Parsed(sel), p[k])}

\* document.querySelector: the first match.
QueryFirst(p, sel) ==
    LET all == QueryAll(p, sel) IN IF all = {} THEN NoNode ELSE p[Min(all)].node

IsUnique(p, sel) == Cardinality(QueryAll(p, sel)) = 1

\* The strategies of unique_selector, in its order.
Strategies == <<"id", "tag", "name", "data-testid", "role">>

Candidates(e) ==
    LET plain == [k \in DOMAIN Strategies |->
                    IF Strategies[k] = "tag" THEN Selector("tag", e.tag)
                    ELSE Selector(Strategies[k], e.attr[Strategies[k]])]
        ofClass == [k \in DOMAIN e.classes |-> Selector("class", e.classes[k])]
    IN  plain \o ofClass

\* The first that is unique; otherwise the tag, which is not.
UniqueSelector(p, e) ==
    LET all == Candidates(e)
        good == {k \in DOMAIN all : all[k].is # Absent /\ IsUnique(p, all[k])}
    IN  IF good = {} THEN Selector("tag", e.tag) ELSE all[Min(good)]

----------------------------------------------------------------------------
(* The list *)

Tagged(p, I, tag) == InOrder({k \in I : p[k].tag = tag})

FieldTags == <<"input", "textarea", "select">>

\* The fields among the elements at I: one pass per tag.
Fields(p, I) == FlattenSeq([k \in DOMAIN FieldTags |-> Tagged(p, I, FieldTags[k])])

Within(p, form) == {k \in DOMAIN p : form \in p[k].inside}

\* Each form takes an index and then its fields do.
FormsAndFields(p) ==
    LET forms == Tagged(p, DOMAIN p, "form")
    IN  FlattenSeq([k \in DOMAIN forms |->
            <<forms[k]>> \o Fields(p, Within(p, p[forms[k]].node))])

\* Seeded bug for the runs: fields of forms are not taken out.
StraysAll(p) == Fields(p, DOMAIN p)

Strays(p) ==
    LET listed == {p[FormsAndFields(p)[k]].node : k \in DOMAIN FormsAndFields(p)}
    IN  Fields(p, {k \in DOMAIN p : p[k].node \notin listed})

Links(p) == InOrder({k \in DOMAIN p : p[k].tag = "a" /\ p[k].href})

\* In the order in which indexes are given out: entry k + 1 has index k.
Interactive(p) ==
    FormsAndFields(p) \o Strays(p) \o Links(p) \o Tagged(p, DOMAIN p, "button")

Listing(p) ==
    LET all == Interactive(p)
    IN  [k \in DOMAIN all |->
            [node |-> p[all[k]].node, selector |-> UniqueSelector(p, p[all[k]])]]

\* selector_for_index: at most one selector.
SelectorsForIndex(list, i) ==
    {list[k].selector : k \in {k \in DOMAIN list : k = i + 1}}

----------------------------------------------------------------------------
(* run_click_text: the links and buttons whose text is t, or else contains it;
   the first of them is named by its selector. *)

TextMatches(p, t) ==
    LET all == Tagged(p, DOMAIN p, "a") \o Tagged(p, DOMAIN p, "button")
        exact == SelectSeq(all, LAMBDA k : p[k].text = t)
    IN  IF exact # <<>> THEN exact
        ELSE SelectSeq(all, LAMBDA k : p[k].text \in Holding[t])

----------------------------------------------------------------------------
(* Properties of a page's list *)

NodesOf(list) == {list[k].node : k \in DOMAIN list}

Occurrences(list, n) == Cardinality({k \in DOMAIN list : list[k].node = n})

IsField(e) == \E k \in DOMAIN FieldTags : FieldTags[k] = e.tag

IsInteractive(e) ==
    IsField(e) \/ e.tag \in {"form", "button"} \/ (e.tag = "a" /\ e.href)

\* The list holds every interactive element once, and nothing else.
ListsEach(p, list) ==
    \A k \in DOMAIN p :
        Occurrences(list, p[k].node) = IF IsInteractive(p[k]) THEN 1 ELSE 0
============================================================================
