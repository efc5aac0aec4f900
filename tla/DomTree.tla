------------------------------ MODULE DomTree ------------------------------
(***************************************************************************)
(* The document a page's scripts change (crates/bouncy-dom/src/lib.rs)     *)
(* through the callbacks of crates/bouncy-js/src/bridge.rs: rcdom's nodes, *)
(* owned by the lists and table slots that hold them, and the table of     *)
(* NodeIds, the only names scripts have for them.                          *)
(*                                                                         *)
(* A cell is an allocation: its address is the key of by_ptr and is used   *)
(* again once the node in it is gone.  What nodes contain, the order of    *)
(* siblings and parsing are left out.  Scripts may make any call;          *)
(* "illegal" counts those a browser refuses and the callbacks do not.      *)
(***************************************************************************)
EXTENDS Integers, Sequences, FiniteSets, Functions

CONSTANTS
    Cells,
    Root,          \* the cell of the Document node
    None,          \* no parent
    Gone,          \* the slot of a forgotten node
    MaxIds,        \* bound on the NodeIds ever given out
    MaxFragment,   \* bound on the nodes innerHTML brings in at once
    MaxIllegal     \* bound on the illegal calls

ASSUME DomAssumption ==
    /\ Root \in Cells
    /\ None \notin Cells
    /\ Gone \notin Cells
    /\ MaxIds \in Nat
    /\ MaxFragment \in Nat
    /\ MaxIllegal \in Nat

VARIABLES
    live,      \* the cells that hold a node
    kids,      \* its children
    up,        \* its weak link to its parent
    nodes,     \* Document::nodes; NodeId n is entry n + 1
    by_ptr,    \* Document::by_ptr; 0 where there is no entry
    illegal,
    status     \* "running", or "overflowed" the stack

vars == <<live, kids, up, nodes, by_ptr, illegal, status>>

NoIndex == 0

TypeOK ==
    /\ live \in SUBSET Cells
    /\ kids \in [Cells -> SUBSET live]
    /\ \A x \in Cells \ live : kids[x] = {}
    /\ up \in [Cells -> Cells \cup {None}]
    /\ nodes \in Seq(Cells \cup {Gone})
    /\ by_ptr \in [Cells -> 0..Len(nodes)]
    /\ illegal \in 0..MaxIllegal
    /\ status \in {"running", "overflowed"}

----------------------------------------------------------------------------
(* Trees *)

\* What a recursive walk down the lists from X visits: the smallest set that
\* contains X and the children of its members.
Below(alive, list, X) ==
    LET closed == {S \in SUBSET alive : X \subseteq S /\ \A x \in S : list[x] \subseteq S}
    IN  {y \in alive : \A S \in closed : y \in S}

Subtree(X) == Below(live, kids, X)

\* A walk from X comes back to a node it is still in, and never ends.
Loops(X) == \E y \in Subtree(X) : y \in Subtree(kids[y])

\* Document::parent: the weak link, if it still leads to a node with an id.
Parent(x) ==
    IF up[x] \in live /\ by_ptr[up[x]] # NoIndex THEN up[x] ELSE None

\* x and what parentNode leads to from it.
SelfAndAncestors(x) ==
    LET closed == {S \in SUBSET live :
                      x \in S /\ \A z \in S : Parent(z) \in S \cup {None}}
    IN  {y \in live : \A S \in closed : y \in S}

\* A cell can be used again when its node was dropped and no weak link to it
\* is left.
Free(alive) == {x \in Cells \ alive : \A y \in alive : up[y] # x}

----------------------------------------------------------------------------
(* The table *)

Known(n) == n \in DOMAIN nodes /\ nodes[n] # Gone

Orderings(S) ==
    {order \in UNION {[1..k -> S] : k \in 0..MaxIds} :
        IsInjective(order) /\ Range(order) = S}

\* intern, for the nodes of N one after the other: a pointer that has an
\* entry keeps it, another gets the next id.
Intern(ptrs, slots, N) ==
    LET new == {x \in N : ptrs[x] = NoIndex}
    IN  \E order \in Orderings(new) :
           /\ Len(slots) + Len(order) <= MaxIds
           /\ nodes' = slots \o order
           /\ by_ptr' = [x \in Cells |->
                 IF x \in new
                 THEN Len(slots) + (CHOOSE k \in DOMAIN order : order[k] = x)
                 ELSE ptrs[x]]

\* Seeded bugs for the runs: forget_subtree clears the slots only, and it is
\* called on the node whose content is replaced.
PtrsWithoutKept(S) == by_ptr
ForgottenSelf(h) == Subtree({h})

\* forget_subtree on every child of h, and what it leaves of the table.
Forgotten(h) == Subtree(kids[h])

PtrsWithout(S) == [x \in Cells |-> IF x \in S THEN NoIndex ELSE by_ptr[x]]

SlotsWithout(S) ==
    [n \in DOMAIN nodes |->
        IF \E x \in S : by_ptr[x] = n THEN Gone ELSE nodes[n]]

----------------------------------------------------------------------------
(* Calls.  A NodeId that is not in the table is an error in each of them, *)
(* and the callbacks ignore errors.                                       *)

Counted(legal) ==
    /\ legal \/ illegal < MaxIllegal
    /\ illegal' = IF legal THEN illegal ELSE illegal + 1

\* parse: the document, its html element and the body; other nodes of the
\* page are left out until a call makes them.
Init ==
    /\ \E html, body \in Cells \ {Root} :
          /\ html # body
          /\ live = {Root, html, body}
          /\ kids = [x \in Cells |-> CASE x = Root -> {html}
                                       [] x = html -> {body}
                                       [] OTHER -> {}]
          /\ up = [x \in Cells |-> CASE x = html -> Root
                                     [] x = body -> html
                                     [] OTHER -> None]
          /\ nodes = <<Root, html, body>>
          /\ by_ptr = [x \in Cells |-> CASE x = Root -> 1
                                         [] x = html -> 2
                                         [] x = body -> 3
                                         [] OTHER -> NoIndex]
    /\ illegal = 0
    /\ status = "running"

\* create_element, create_text_node
Create ==
    /\ status = "running"
    /\ \E x \in Free(live) :
          /\ live' = live \cup {x}
          /\ kids' = [kids EXCEPT ![x] = {}]
          /\ up' = [up EXCEPT ![x] = None]
          /\ Intern(by_ptr, nodes, {x})
    /\ UNCHANGED <<illegal, status>>

\* Seeded bug for the runs: detach only clears the link.
DetachedKept(c) == kids

\* The lists once detach has taken c out of its parent's.
Detached(c) ==
    IF up[c] \in live THEN [kids EXCEPT ![up[c]] = @ \ {c}] ELSE kids

\* append_child, with no look at where the parent is.
AppendChild(m, n) ==
    /\ status = "running"
    /\ Known(m) /\ Known(n)
    /\ LET p == nodes[m]  c == nodes[n]
       IN  /\ kids' = [Detached(c) EXCEPT ![p] = @ \cup {c}]
           /\ up' = [up EXCEPT ![c] = p]
           /\ Counted(c # Root /\ c \notin SelfAndAncestors(p))
    /\ UNCHANGED <<live, nodes, by_ptr, status>>

\* Seeded bug for the runs: only the link is cleared.
UnlistedKept(p, c) == kids

Unlisted(p, c) == [kids EXCEPT ![p] = @ \ {c}]

\* remove_child: the link is cleared whether or not c was in the list.
RemoveChild(m, n) ==
    /\ status = "running"
    /\ Known(m) /\ Known(n)
    /\ LET p == nodes[m]  c == nodes[n]
       IN  /\ kids' = Unlisted(p, c)
           /\ up' = [up EXCEPT ![c] = None]
           /\ Counted(c \in kids[p])
    /\ UNCHANGED <<live, nodes, by_ptr, status>>

\* The nodes whose lists are emptied when h drops its children: those below
\* a child that nothing else owns (rcdom's Drop walks down from the dropped
\* node and takes every list it meets).  The smallest set with that property.
Drained(h) ==
    LET below == [c \in kids[h] |-> Subtree({c})]
        owners == [c \in kids[h] |-> {y \in live : c \in kids[y]}]
        emptied == {S \in SUBSET live :
                       \A c \in kids[h] \ {Root} :
                          owners[c] \subseteq S \cup {h} => below[c] \subseteq S}
    IN  {y \in live : \A S \in emptied : y \in S}

\* Of those, the ones no list holds any more.
Dead(h, drained) ==
    {x \in drained \ {Root} : \A y \in live \ (drained \cup {h}) : x \notin kids[y]}

\* Every way the nodes of N can hang from h and from each other.
Fragments(N, h) ==
    {hang \in [N -> N \cup {h}] :
        \A S \in (SUBSET N) \ {{}} : \E x \in S : hang[x] \notin S}

\* What a setter on h leaves once its fragment N hangs there.
Replaced(h, forgotten, drained, dead, N, hang) ==
    /\ live' = (live \ dead) \cup N
    /\ kids' = [x \in Cells |->
          IF x \in N \cup {h} THEN {y \in N : hang[y] = x}
          ELSE IF x \in drained THEN {} ELSE kids[x]]
    /\ up' = [x \in Cells |->
          IF x \in N THEN hang[x] ELSE IF x \in dead THEN None ELSE up[x]]
    /\ Intern(PtrsWithout(forgotten), SlotsWithout(forgotten), N)

\* set_inner_html with a fragment of any shape; set_text_content does the same
\* with one node.  (The sets are bound by \E so that they are computed once.)
ReplaceChildren(m) ==
    /\ status = "running"
    /\ Known(m)
    /\ ~Loops(kids[nodes[m]])
    /\ \E h \in {nodes[m]} :
       \E forgotten \in {Forgotten(h)}, drained \in {Drained(h)} :
       \E dead \in {Dead(h, drained)} :
       \E N \in SUBSET Free(live \ dead) :
       /\ Cardinality(N) <= MaxFragment
       /\ \E hang \in Fragments(N, h) :
             Replaced(h, forgotten, drained, dead, N, hang)
    /\ UNCHANGED <<illegal, status>>

\* A walk down from a node that never ends: forget_subtree in the setters, or
\* one that only reads (text, selectors, serialisation).  The process aborts.
Overflow(m) ==
    /\ status = "running"
    /\ Known(m)
    /\ Loops({nodes[m]})
    /\ status' = "overflowed"
    /\ UNCHANGED <<live, kids, up, nodes, by_ptr, illegal>>

Next ==
    \/ Create
    \/ \E m, n \in DOMAIN nodes : AppendChild(m, n) \/ RemoveChild(m, n)
    \/ \E m \in DOMAIN nodes : ReplaceChildren(m) \/ Overflow(m)

Spec == Init /\ [][Next]_vars

----------------------------------------------------------------------------
(* Properties *)

\* Whatever scripts do, a NodeId in the table and the pointer of its node name
\* each other, and the node is in memory: an address used again can never
\* bring an old id back to life.
TableCoherent ==
    /\ \A n \in DOMAIN nodes, x \in Cells : nodes[n] = x <=> by_ptr[x] = n
    /\ \A x \in Cells : by_ptr[x] # NoIndex => x \in live

\* After legal calls only, the two representations of the tree agree: a node
\* is in the list of the parent its link names, and in no other.
LinksAgree ==
    illegal = 0 =>
        \A c \in live : /\ up[c] \in live \cup {None}
                        /\ \A p \in live : up[c] = p <=> c \in kids[p]

\* After legal calls only, a node is in memory exactly as long as its id is in
\* the table: nothing in the tree is out of the scripts' reach, nothing
\* forgotten stays behind, and the document itself is never forgotten.
AllNamed ==
    illegal = 0 => /\ \A x \in live : by_ptr[x] # NoIndex
                   /\ nodes[1] = Root

\* Only scripts that make illegal calls can send a walk round in circles.
NoOverflow == status = "overflowed" => illegal > 0
============================================================================
