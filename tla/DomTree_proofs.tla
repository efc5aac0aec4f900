--------------------------- MODULE DomTree_proofs ---------------------------
(***************************************************************************)
(* Theorems about DomTree, for every set of cells and every bound: what    *)
(* the NodeId table keeps whatever scripts do, and what the tree keeps as  *)
(* long as they make only legal calls.                                     *)
(***************************************************************************)
EXTENDS DomTree, SequenceTheorems, TLAPS

----------------------------------------------------------------------------
(* Walks down the lists *)

LEMMA BelowFacts ==
    ASSUME NEW alive, NEW list, \A x \in alive : list[x] \subseteq alive,
           NEW X \in SUBSET alive
    PROVE  /\ X \subseteq Below(alive, list, X)
           /\ Below(alive, list, X) \subseteq alive
           /\ \A x \in Below(alive, list, X) :
                 list[x] \subseteq Below(alive, list, X)
           /\ \A S \in SUBSET alive :
                 X \subseteq S /\ (\A x \in S : list[x] \subseteq S)
                    => Below(alive, list, X) \subseteq S
BY DEF Below

\* No node is below itself.
Acyclic(alive, list) == \A x \in alive : x \notin Below(alive, list, list[x])

\* Taking nodes out of lists makes no cycle.
LEMMA AcyclicLess ==
    ASSUME NEW alive, NEW list, NEW list2,
           \A x \in alive : list[x] \subseteq alive /\ list2[x] \subseteq list[x]
    PROVE  /\ \A X \in SUBSET alive :
                 Below(alive, list2, X) \subseteq Below(alive, list, X)
           /\ Acyclic(alive, list) => Acyclic(alive, list2)
<1>1. ASSUME NEW X \in SUBSET alive
      PROVE  Below(alive, list2, X) \subseteq Below(alive, list, X)
  <2> DEFINE S == Below(alive, list, X)
  <2>1. S \in SUBSET alive /\ X \subseteq S /\ \A x \in S : list[x] \subseteq S
    BY BelowFacts
  <2>2. \A x \in S : list2[x] \subseteq S
    BY <2>1
  <2>3. \A x \in alive : list2[x] \subseteq alive
    OBVIOUS
  <2> HIDE DEF S
  <2>4. Below(alive, list2, X) \subseteq S
    BY <2>1, <2>2, <2>3, BelowFacts
  <2>5. QED
    BY <2>4 DEF S
<1>2. ASSUME Acyclic(alive, list), NEW x \in alive
      PROVE  x \notin Below(alive, list2, list2[x])
  <2> DEFINE S == Below(alive, list, list[x])
  <2>1. S \in SUBSET alive /\ list[x] \subseteq S /\ \A y \in S : list[y] \subseteq S
    BY BelowFacts
  <2>2. x \notin S
    BY <1>2 DEF Acyclic
  <2>3. list2[x] \subseteq S /\ \A y \in S : list2[y] \subseteq S
    BY <2>1
  <2>4. list2[x] \in SUBSET alive /\ \A y \in alive : list2[y] \subseteq alive
    OBVIOUS
  <2> HIDE DEF S
  <2>5. Below(alive, list2, list2[x]) \subseteq S
    BY <2>1, <2>3, <2>4, BelowFacts
  <2>6. QED
    BY <2>2, <2>5
<1>3. QED
  BY <1>1, <1>2 DEF Acyclic

\* Nor does hanging c under a node that is not below c.
LEMMA AcyclicMore ==
    ASSUME NEW alive, NEW list, NEW list2, NEW p \in alive, NEW c \in alive,
           \A x \in alive : list[x] \subseteq alive,
           \A x \in alive : list2[x] = IF x = p THEN list[p] \cup {c} ELSE list[x],
           Acyclic(alive, list), p \notin Below(alive, list, {c})
    PROVE  Acyclic(alive, list2)
<1> SUFFICES ASSUME NEW x \in alive PROVE x \notin Below(alive, list2, list2[x])
  BY DEF Acyclic
<1> DEFINE S == Below(alive, list, list[x])
           C == Below(alive, list, {c})
<1>1. S \in SUBSET alive /\ list[x] \subseteq S /\ \A y \in S : list[y] \subseteq S
  BY BelowFacts
<1>2. C \in SUBSET alive /\ c \in C /\ \A y \in C : list[y] \subseteq C
  BY BelowFacts
<1>3. x \notin S /\ p \notin C
  BY DEF Acyclic
<1>4. \A T \in SUBSET alive :
         list[x] \subseteq T /\ (\A y \in T : list[y] \subseteq T) => S \subseteq T
  BY BelowFacts
<1>5. \A y \in alive : list2[y] \subseteq alive
  OBVIOUS
<1>6. \A T \in SUBSET alive :
         list2[x] \subseteq T /\ (\A y \in T : list2[y] \subseteq T)
            => Below(alive, list2, list2[x]) \subseteq T
  BY <1>5, BelowFacts
<1> HIDE DEF S, C
<1>7. CASE x # p /\ p \notin S
  <2>1. list2[x] \subseteq S /\ \A y \in S : list2[y] \subseteq S
    BY <1>1, <1>7
  <2>2. QED
    BY <1>1, <1>3, <1>6, <2>1
<1>8. CASE x = p \/ p \in S
  <2>1. list2[x] \subseteq S \cup C /\ \A y \in S \cup C : list2[y] \subseteq S \cup C
    BY <1>1, <1>2, <1>3, <1>8
  <2>2. x \notin C
    <3>1. SUFFICES ASSUME x \in C, x # p PROVE FALSE
      BY <1>3
    <3>2. list[x] \subseteq C
      BY <1>2, <3>1
    <3>3. S \subseteq C
      BY <1>2, <1>4, <3>2
    <3>4. QED
      BY <1>3, <1>8, <3>1, <3>3
  <2>3. QED
    BY <1>1, <1>2, <1>3, <1>6, <2>1, <2>2
<1>9. QED
  BY <1>7, <1>8

\* Nor does replacing what is below h by the nodes N of a fragment.  In a
\* tree, nothing else leads to a node that is below h.
LEMMA AcyclicReplace ==
    ASSUME NEW alive, NEW list, NEW list2, NEW h \in alive, NEW N,
           NEW hang \in Fragments(N, h),
           \A x \in alive : list[x] \subseteq alive,
           Acyclic(alive, list),
           NEW S, S = Below(alive, list, list[h]),
           \A x \in alive, y \in S : y \in list[x] => x \in S \cup {h},
           N \cap (alive \ S) = {},
           \A x \in N \cup {h} : list2[x] \subseteq N,
           \A x \in N \cup {h}, y \in N : y \in list2[x] <=> hang[y] = x,
           \A x \in alive \ (S \cup N \cup {h}) : list2[x] = list[x]
    PROVE  /\ \A x \in (alive \ S) \cup N : list2[x] \subseteq (alive \ S) \cup N
           /\ Acyclic((alive \ S) \cup N, list2)
<1> DEFINE A == (alive \ S) \cup N
<1>1. S \in SUBSET alive /\ h \notin S /\ h \notin N
  BY BelowFacts DEF Acyclic
<1>2. \A x \in A \ (N \cup {h}) : list2[x] = list[x] /\ list[x] \subseteq alive \ S
  BY <1>1
<1>3. /\ \A x \in N \cup {h} : list2[x] \subseteq N
      /\ \A x \in N \cup {h}, y \in N : y \in list2[x] <=> hang[y] = x
  OBVIOUS
<1>4. \A x \in A : list2[x] \subseteq A
  BY <1>2, <1>3
<1>5. /\ N \in SUBSET A /\ S \cap A \subseteq N
      /\ A \subseteq alive \cup N
  BY <1>1
<1> HIDE DEF A
<1>6. ASSUME NEW x \in A PROVE x \notin Below(A, list2, list2[x])
  <2> DEFINE B == Below(A, list2, list2[x])
  <2> SUFFICES x \notin B
    OBVIOUS
  <2>0. list2[x] \in SUBSET A
    BY <1>4
  <2>1. /\ B \in SUBSET A /\ list2[x] \subseteq B
        /\ \A y \in B : list2[y] \subseteq B
    BY <1>4, <2>0, BelowFacts
  <2>2. \A T \in SUBSET A :
           list2[x] \subseteq T /\ (\A y \in T : list2[y] \subseteq T) => B \subseteq T
    BY <1>4, <2>0, BelowFacts
  <2> HIDE DEF B
  <2>3. CASE x = h
    <3>1. list2[x] \subseteq N /\ \A y \in N : list2[y] \subseteq N
      BY <1>3, <2>3
    <3>2. B \subseteq N
      BY <1>5, <2>2, <3>1
    <3>3. QED
      BY <1>1, <2>3, <3>2
  <2>4. CASE x \in N
    <3> SUFFICES ASSUME x \in B PROVE FALSE
      OBVIOUS
    <3> DEFINE T == {y \in B \cap N : hang[y] \in B}
    <3>1. T \in SUBSET A
      BY <2>1
    <3>2. list2[x] \subseteq T
      BY <1>3, <2>1, <2>4
    <3>3. \A y \in T : list2[y] \subseteq T
      BY <1>3, <2>1
    <3>4. B \subseteq T
      BY <2>2, <3>1, <3>2, <3>3
    <3>5. T \in SUBSET N /\ x \in T /\ \A y \in T : hang[y] \in T
      BY <3>4
    <3> HIDE DEF T
    <3>6. QED
      BY <3>5 DEF Fragments
  <2>5. CASE x \notin N \cup {h}
    <3> DEFINE C == Below(alive, list, list[x])
               T == (C \ S) \cup N
    <3>0. x \in alive \ S
      BY <1>5, <2>5
    <3>1. /\ C \in SUBSET alive /\ list[x] \subseteq C
          /\ \A y \in C : list[y] \subseteq C
          /\ x \notin C
      BY <3>0, BelowFacts DEF Acyclic
    <3> HIDE DEF C
    <3>2. T \in SUBSET A
      BY <1>5, <3>1 DEF A
    <3>3. list2[x] \subseteq T
      BY <1>2, <2>5, <3>1
    <3>4. ASSUME NEW y \in T PROVE list2[y] \subseteq T
      <4>1. CASE y \in N \cup {h}
        BY <1>3, <4>1
      <4>2. CASE y \notin N \cup {h}
        BY <1>2, <3>1, <3>2, <4>2
      <4>3. QED
        BY <4>1, <4>2
    <3>5. B \subseteq T
      BY <2>2, <3>2, <3>3, <3>4
    <3>6. QED
      BY <2>5, <3>1, <3>5
  <2>6. QED
    BY <2>3, <2>4, <2>5
<1>7. QED
  BY <1>4, <1>6 DEF A, Acyclic

----------------------------------------------------------------------------
(* The table *)

\* TableCoherent, of a table that is being edited.
Coherent(slots, ptrs) ==
    \A n \in DOMAIN slots, x \in Cells : slots[n] = x <=> ptrs[x] = n

\* intern names every node it is given, and only those.
LEMMA InternFacts ==
    ASSUME NEW slots \in Seq(Cells \cup {Gone}),
           NEW ptrs \in [Cells -> 0..Len(slots)], Coherent(slots, ptrs),
           NEW N \in SUBSET Cells, Intern(ptrs, slots, N)
    PROVE  /\ nodes' \in Seq(Cells \cup {Gone})
           /\ by_ptr' \in [Cells -> 0..Len(nodes')]
           /\ Coherent(nodes', by_ptr')
           /\ \A x \in N : by_ptr'[x] # NoIndex
           /\ \A x \in Cells \ N : by_ptr'[x] = ptrs[x]
           /\ DOMAIN slots \subseteq DOMAIN nodes'
           /\ \A n \in DOMAIN slots : nodes'[n] = slots[n]
<1> DEFINE new == {x \in N : ptrs[x] = NoIndex}
<1>1. PICK order \in Orderings(new) :
         /\ nodes' = slots \o order
         /\ by_ptr' = [x \in Cells |->
               IF x \in new
               THEN Len(slots) + (CHOOSE k \in DOMAIN order : order[k] = x)
               ELSE ptrs[x]]
  BY DEF Intern
<1> DEFINE At(x) == CHOOSE k \in DOMAIN order : order[k] = x
<1>2. PICK k \in 0..MaxIds : order \in [1..k -> new]
  BY <1>1 DEF Orderings
<1>3. k \in Nat
  BY <1>2, DomAssumption
<1>4. order \in Seq(new) /\ Len(order) = k /\ DOMAIN order = 1..k
  BY <1>2, <1>3
<1>5. order \in Seq(Cells \cup {Gone})
  BY <1>2, <1>3
<1>6. IsInjective(order) /\ Range(order) = new
  BY <1>1 DEF Orderings
<1>7. \A x \in new : At(x) \in 1..k /\ order[At(x)] = x
  BY <1>4, <1>6 DEF Range
<1>8. \A i \in 1..k : order[i] \in new /\ At(order[i]) = i
  BY <1>2, <1>4, <1>6, <1>7 DEF IsInjective
<1>9. /\ nodes' \in Seq(Cells \cup {Gone})
      /\ Len(nodes') = Len(slots) + k
      /\ DOMAIN nodes' = 1..(Len(slots) + k)
      /\ DOMAIN slots = 1..Len(slots) /\ Len(slots) \in Nat
      /\ \A i \in 1..Len(slots) : nodes'[i] = slots[i]
      /\ \A i \in 1..k : nodes'[Len(slots) + i] = order[i]
  <2>1. /\ nodes' \in Seq(Cells \cup {Gone})
        /\ Len(nodes') = Len(slots) + k
        /\ \A i \in 1..Len(slots) + k :
              nodes'[i] = IF i <= Len(slots) THEN slots[i] ELSE order[i - Len(slots)]
    BY <1>1, <1>4, <1>5, ConcatProperties
  <2>2. DOMAIN nodes' = 1..(Len(slots) + k)
    BY <2>1, LenProperties
  <2>3. DOMAIN slots = 1..Len(slots) /\ Len(slots) \in Nat
    BY LenProperties
  <2>4. ASSUME NEW i \in 1..k PROVE nodes'[Len(slots) + i] = order[i]
    <3>1. /\ Len(slots) + i \in 1..Len(slots) + k
          /\ ~(Len(slots) + i <= Len(slots))
          /\ Len(slots) + i - Len(slots) = i
      BY <1>3, <2>3
    <3>2. QED
      BY <2>1, <3>1
  <2>5. QED
    BY <1>3, <2>1, <2>2, <2>3, <2>4
<1>10. /\ \A x \in new : by_ptr'[x] = Len(slots) + At(x)
       /\ \A x \in Cells \ new : by_ptr'[x] = ptrs[x]
  BY <1>1
<1> HIDE DEF At
<1>11. by_ptr' \in [Cells -> 0..Len(nodes')]
  <2>1. \A x \in new : Len(slots) + At(x) \in 0..Len(nodes')
    BY <1>3, <1>7, <1>9
  <2>2. \A x \in Cells : ptrs[x] \in 0..Len(nodes')
    BY <1>3, <1>9
  <2>3. QED
    BY <1>1, <2>1, <2>2 DEF At
<1>12. ASSUME NEW n \in DOMAIN nodes', NEW x \in Cells
       PROVE  nodes'[n] = x <=> by_ptr'[x] = n
  <2>1. CASE n \in 1..Len(slots)
    <3>1. nodes'[n] = x <=> ptrs[x] = n
      BY <1>9, <2>1 DEF Coherent
    <3>2. x \in new => ptrs[x] # n /\ by_ptr'[x] # n
      BY <1>3, <1>7, <1>9, <1>10, <2>1 DEF NoIndex
    <3>3. QED
      BY <1>10, <3>1, <3>2
  <2>2. CASE n \notin 1..Len(slots)
    <3>0. n - Len(slots) \in 1..k /\ n = Len(slots) + (n - Len(slots))
      BY <1>3, <1>9, <2>2
    <3>1. PICK i \in 1..k : n = Len(slots) + i
      BY <3>0
    <3>2. nodes'[n] = order[i]
      BY <1>9, <3>1
    <3>3. CASE x \in new
      BY <1>3, <1>7, <1>8, <1>9, <1>10, <3>1, <3>2, <3>3
    <3>4. CASE x \notin new
      <4>1. by_ptr'[x] \in 0..Len(slots)
        BY <1>10, <3>4
      <4>2. QED
        BY <1>3, <1>8, <1>9, <3>1, <3>2, <3>4, <4>1
    <3>5. QED
      BY <3>3, <3>4
  <2>3. QED
    BY <2>1, <2>2
<1>13. \A x \in N : by_ptr'[x] # NoIndex
  BY <1>3, <1>7, <1>9, <1>10 DEF NoIndex
<1>14. QED
  BY <1>3, <1>9, <1>10, <1>11, <1>12, <1>13 DEF Coherent, NoIndex

\* What forget_subtree leaves of a coherent table is coherent.
LEMMA ForgetFacts ==
    ASSUME TypeOK, TableCoherent, NEW S \in SUBSET Cells
    PROVE  /\ SlotsWithout(S) \in Seq(Cells \cup {Gone})
           /\ Len(SlotsWithout(S)) = Len(nodes)
           /\ PtrsWithout(S) \in [Cells -> 0..Len(SlotsWithout(S))]
           /\ Coherent(SlotsWithout(S), PtrsWithout(S))
<1>1. Len(nodes) \in Nat /\ DOMAIN nodes = 1..Len(nodes)
  BY DEF TypeOK
<1>2. \A n \in DOMAIN nodes : nodes[n] \in Cells \cup {Gone}
  BY <1>1 DEF TypeOK
<1>3. SlotsWithout(S) \in [1..Len(nodes) -> Cells \cup {Gone}]
  BY <1>1, <1>2 DEF SlotsWithout
<1>4. /\ SlotsWithout(S) \in Seq(Cells \cup {Gone})
      /\ Len(SlotsWithout(S)) = Len(nodes)
      /\ DOMAIN SlotsWithout(S) = 1..Len(nodes)
  BY <1>1, <1>3
<1>5. PtrsWithout(S) \in [Cells -> 0..Len(nodes)]
  BY <1>1 DEF PtrsWithout, TypeOK, NoIndex
<1>6. ASSUME NEW n \in 1..Len(nodes), NEW x \in Cells
      PROVE  SlotsWithout(S)[n] = x <=> PtrsWithout(S)[x] = n
  <2>1. nodes[n] = x <=> by_ptr[x] = n
    BY <1>1 DEF TableCoherent
  <2>2. SlotsWithout(S)[n] = IF \E y \in S : by_ptr[y] = n THEN Gone ELSE nodes[n]
    BY <1>1 DEF SlotsWithout
  <2>3. PtrsWithout(S)[x] = IF x \in S THEN NoIndex ELSE by_ptr[x]
    BY DEF PtrsWithout
  <2>4. n # NoIndex /\ x # Gone
    BY DomAssumption, <1>1 DEF NoIndex
  <2>5. \A y \in S \cap Cells : by_ptr[y] = n => nodes[n] = y
    BY <1>1 DEF TableCoherent
  <2>6. CASE \E y \in S : by_ptr[y] = n
    BY <2>1, <2>2, <2>3, <2>4, <2>5, <2>6
  <2>7. CASE ~ \E y \in S : by_ptr[y] = n
    BY <2>1, <2>2, <2>3, <2>4, <2>7
  <2>8. QED
    BY <2>6, <2>7
<1>7. QED
  BY <1>4, <1>5, <1>6 DEF Coherent

----------------------------------------------------------------------------
(* Whatever scripts do *)

\* A NodeId that is not an error names a node in memory.
LEMMA KnownIsLive ==
    ASSUME TypeOK, TableCoherent, NEW n \in DOMAIN nodes, Known(n)
    PROVE  nodes[n] \in live
<1>1. nodes[n] \in Cells
  BY DEF TypeOK, Known
<1>2. by_ptr[nodes[n]] = n /\ n # NoIndex
  BY <1>1 DEF TableCoherent, TypeOK, NoIndex
<1>3. QED
  BY <1>1, <1>2 DEF TableCoherent

\* The setters drop the nodes of a subtree that does not hold their own node.
LEMMA ForgottenFacts ==
    ASSUME TypeOK, NEW h \in live, ~Loops(kids[h])
    PROVE  /\ Forgotten(h) \in SUBSET live
           /\ kids[h] \subseteq Forgotten(h)
           /\ \A x \in Forgotten(h) : kids[x] \subseteq Forgotten(h)
           /\ h \notin Forgotten(h)
           /\ Drained(h) \subseteq Forgotten(h)
           /\ Dead(h, Drained(h)) \subseteq Forgotten(h)
<1>0. (\A x \in live : kids[x] \in SUBSET live) /\ live \subseteq Cells
  BY DEF TypeOK
<1>1. /\ Forgotten(h) \in SUBSET live
      /\ kids[h] \subseteq Forgotten(h)
      /\ \A x \in Forgotten(h) : kids[x] \subseteq Forgotten(h)
  BY <1>0, BelowFacts DEF Forgotten, Subtree
<1>2. h \notin Forgotten(h)
  BY DEF Loops, Forgotten
<1>3. \A c \in kids[h] : Subtree({c}) \subseteq Forgotten(h)
  <2> SUFFICES ASSUME NEW c \in kids[h] PROVE Subtree({c}) \subseteq Forgotten(h)
    OBVIOUS
  <2>1. {c} \in SUBSET live /\ {c} \subseteq Forgotten(h)
    BY <1>1
  <2> HIDE DEF Forgotten
  <2>2. QED
    BY <1>0, <1>1, <2>1, BelowFacts DEF Subtree
<1>4. Drained(h) \subseteq Forgotten(h)
  <2> DEFINE below == [c \in kids[h] |-> Subtree({c})]
             owners == [c \in kids[h] |-> {y \in live : c \in kids[y]}]
             emptied == {S \in SUBSET live :
                           \A c \in kids[h] \ {Root} :
                              owners[c] \subseteq S \cup {h} => below[c] \subseteq S}
  <2>1. \A c \in kids[h] : below[c] \subseteq Forgotten(h)
    BY <1>3
  <2>2. Forgotten(h) \in emptied
    BY <1>1, <2>1
  <2>3. QED
    BY <2>2 DEF Drained
<1>5. QED
  BY <1>1, <1>2, <1>4 DEF Dead

\* The part of the invariant that illegal calls cannot break.
Memory == TypeOK /\ TableCoherent

LEMMA CreateMemory ==
    ASSUME Memory, Create
    PROVE  Memory'
<1>1. PICK x \in Free(live) :
         /\ live' = live \cup {x}
         /\ kids' = [kids EXCEPT ![x] = {}]
         /\ up' = [up EXCEPT ![x] = None]
         /\ Intern(by_ptr, nodes, {x})
  BY DEF Create
<1>2. x \in Cells \ live
  BY <1>1 DEF Free
<1>3. /\ nodes' \in Seq(Cells \cup {Gone})
      /\ by_ptr' \in [Cells -> 0..Len(nodes')]
      /\ Coherent(nodes', by_ptr')
      /\ \A y \in Cells \ {x} : by_ptr'[y] = by_ptr[y]
  <2>1. /\ nodes \in Seq(Cells \cup {Gone})
        /\ by_ptr \in [Cells -> 0..Len(nodes)]
        /\ Coherent(nodes, by_ptr)
    BY DEF Memory, TypeOK, TableCoherent, Coherent
  <2>2. {x} \in SUBSET Cells
    BY <1>2
  <2>3. Intern(by_ptr, nodes, {x})
    BY <1>1
  <2>4. QED
    BY <2>1, <2>2, <2>3, InternFacts
<1>4. TypeOK'
  <2>1. live' \in SUBSET Cells /\ up' \in [Cells -> Cells \cup {None}]
    BY <1>1, <1>2 DEF Memory, TypeOK
  <2>2. kids' \in [Cells -> SUBSET live'] /\ \A y \in Cells \ live' : kids'[y] = {}
    BY <1>1, <1>2 DEF Memory, TypeOK
  <2>3. illegal' \in 0..MaxIllegal /\ status' \in {"running", "overflowed"}
    BY DEF Create, Memory, TypeOK
  <2>4. QED
    BY <1>3, <2>1, <2>2, <2>3 DEF TypeOK
<1>5. TableCoherent'
  BY <1>1, <1>3 DEF Memory, TableCoherent, Coherent
<1>6. QED
  BY <1>4, <1>5 DEF Memory

LEMMA AppendMemory ==
    ASSUME Memory, NEW m \in DOMAIN nodes, NEW n \in DOMAIN nodes, AppendChild(m, n)
    PROVE  Memory'
<1> DEFINE p == nodes[m]
           c == nodes[n]
<1>1. p \in live /\ c \in live
  BY KnownIsLive DEF AppendChild, Memory
<1>2. /\ kids' = [Detached(c) EXCEPT ![p] = @ \cup {c}]
      /\ up' = [up EXCEPT ![c] = p]
      /\ Counted(c # Root /\ c \notin SelfAndAncestors(p))
      /\ UNCHANGED <<live, nodes, by_ptr, status>>
  BY DEF AppendChild
<1> HIDE DEF p, c
<1>3. /\ Detached(c) \in [Cells -> SUBSET live]
      /\ \A y \in Cells \ live : Detached(c)[y] = {}
  BY DEF Detached, Memory, TypeOK
<1>4. illegal' \in 0..MaxIllegal
  BY <1>2, DomAssumption DEF Counted, Memory, TypeOK
<1>5. /\ kids' \in [Cells -> SUBSET live]
      /\ \A y \in Cells \ live : kids'[y] = {}
      /\ up' \in [Cells -> Cells \cup {None}]
  BY <1>1, <1>2, <1>3 DEF Memory, TypeOK
<1>6. QED
  BY <1>2, <1>4, <1>5 DEF Memory, TypeOK, TableCoherent

LEMMA RemoveMemory ==
    ASSUME Memory, NEW m \in DOMAIN nodes, NEW n \in DOMAIN nodes, RemoveChild(m, n)
    PROVE  Memory'
<1> DEFINE p == nodes[m]
           c == nodes[n]
<1>1. p \in live /\ c \in live
  BY KnownIsLive DEF RemoveChild, Memory
<1>2. /\ kids' = [kids EXCEPT ![p] = @ \ {c}]
      /\ up' = [up EXCEPT ![c] = None]
      /\ Counted(c \in kids[p])
      /\ UNCHANGED <<live, nodes, by_ptr, status>>
  BY DEF RemoveChild, Unlisted
<1> HIDE DEF p, c
<1>3. illegal' \in 0..MaxIllegal
  BY <1>2, DomAssumption DEF Counted, Memory, TypeOK
<1>4. /\ kids' \in [Cells -> SUBSET live]
      /\ \A y \in Cells \ live : kids'[y] = {}
      /\ up' \in [Cells -> Cells \cup {None}]
  BY <1>1, <1>2 DEF Memory, TypeOK
<1>5. QED
  BY <1>2, <1>3, <1>4 DEF Memory, TypeOK, TableCoherent

\* A setter call, with its choices named.
LEMMA ReplaceStep ==
    ASSUME NEW m \in DOMAIN nodes, ReplaceChildren(m)
    PROVE  LET h == nodes[m]
               D == Drained(h)
               X == Dead(h, D)
           IN  /\ status = "running" /\ Known(m) /\ ~Loops(kids[h])
               /\ UNCHANGED <<illegal, status>>
               /\ \E N \in SUBSET Free(live \ X) : \E hang \in Fragments(N, h) :
                     Replaced(h, Forgotten(h), D, X, N, hang)
BY Zenon DEF ReplaceChildren

LEMMA ReplaceMemory ==
    ASSUME Memory, NEW m \in DOMAIN nodes, ReplaceChildren(m)
    PROVE  Memory'
<1> DEFINE h == nodes[m]
           F == Forgotten(h)
           D == Drained(h)
           X == Dead(h, D)
<1>1. h \in live /\ ~Loops(kids[h])
  BY ReplaceStep, KnownIsLive DEF Memory
<1>2. PICK N \in SUBSET Free(live \ X) :
         \E hang \in Fragments(N, h) : Replaced(h, F, D, X, N, hang)
  BY Zenon, ReplaceStep
<1>3. /\ F \in SUBSET live /\ h \notin F /\ D \subseteq F /\ X \subseteq D
      /\ \A x \in X, y \in live \ (D \cup {h}) : x \notin kids[y]
  BY <1>1, ForgottenFacts DEF Memory, Dead
<1>hang. PICK hang \in Fragments(N, h) : Replaced(h, F, D, X, N, hang)
  BY <1>2
<1>4. /\ live' = (live \ X) \cup N
      /\ kids' = [x \in Cells |->
            IF x \in N \cup {h} THEN {y \in N : hang[y] = x}
            ELSE IF x \in D THEN {} ELSE kids[x]]
      /\ up' = [x \in Cells |->
            IF x \in N THEN hang[x] ELSE IF x \in X THEN None ELSE up[x]]
      /\ Intern(PtrsWithout(F), SlotsWithout(F), N)
      /\ UNCHANGED <<illegal, status>>
  BY Zenon, <1>hang, ReplaceStep DEF Replaced
<1> HIDE DEF h, F, D, X
<1>5. N \in SUBSET Cells /\ N \cap (live \ X) = {} /\ live \subseteq Cells
  BY <1>4 DEF Free, Memory, TypeOK
<1>6. hang \in [N -> N \cup {h}]
  BY <1>4 DEF Fragments
<1>7. /\ nodes' \in Seq(Cells \cup {Gone})
      /\ by_ptr' \in [Cells -> 0..Len(nodes')]
      /\ Coherent(nodes', by_ptr')
      /\ \A x \in Cells \ N : by_ptr'[x] = PtrsWithout(F)[x]
  <2>1. F \in SUBSET Cells
    BY <1>3, <1>5
  <2>2. /\ SlotsWithout(F) \in Seq(Cells \cup {Gone})
        /\ PtrsWithout(F) \in [Cells -> 0..Len(SlotsWithout(F))]
        /\ Coherent(SlotsWithout(F), PtrsWithout(F))
    BY <2>1, ForgetFacts DEF Memory
  <2>3. QED
    BY <1>4, <1>5, <2>2, InternFacts
<1>8. kids' \in [Cells -> SUBSET live'] /\ \A x \in Cells \ live' : kids'[x] = {}
  <2>1. kids \in [Cells -> SUBSET live] /\ \A x \in Cells \ live : kids[x] = {}
    BY DEF Memory, TypeOK
  <2>2. ASSUME NEW x \in Cells PROVE kids'[x] \in SUBSET live'
    <3>1. CASE x \in N \cup {h} \cup D
      BY <1>4, <3>1
    <3>2. CASE x \in live \ (N \cup {h} \cup D)
      BY <1>3, <1>4, <2>1, <3>2
    <3>3. CASE x \notin live /\ x \notin N \cup {h} \cup D
      BY <1>4, <2>1, <3>3
    <3>4. QED
      BY <3>1, <3>2, <3>3
  <2>3. ASSUME NEW x \in Cells \ live' PROVE kids'[x] = {}
    <3>1. x \notin N \cup {h} /\ (x \in live => x \in X)
      BY <1>1, <1>3, <1>4
    <3>2. QED
      BY <1>3, <1>4, <2>1, <3>1
  <2>4. kids' = [x \in Cells |-> kids'[x]]
    BY <1>4
  <2>5. QED
    BY <2>2, <2>3, <2>4
<1>9. up' \in [Cells -> Cells \cup {None}]
  BY <1>1, <1>4, <1>5, <1>6 DEF Memory, TypeOK
<1>10. TypeOK'
  BY <1>4, <1>5, <1>7, <1>8, <1>9 DEF Memory, TypeOK
<1>11. TableCoherent'
  <2>1. \A x \in Cells : by_ptr'[x] # NoIndex => x \in live'
    BY <1>3, <1>4, <1>7 DEF PtrsWithout, Memory, TableCoherent
  <2>2. QED
    BY <1>7, <2>1 DEF TableCoherent, Coherent
<1>12. QED
  BY <1>10, <1>11 DEF Memory

----------------------------------------------------------------------------
(* While scripts make only legal calls *)

\* The lists and the links describe one forest of named nodes, in which the
\* document is a root.
Tree ==
    /\ status = "running"
    /\ by_ptr[Root] = 1
    /\ up[Root] = None
    /\ \A x \in live : by_ptr[x] # NoIndex
    /\ \A c \in live : /\ up[c] \in live \cup {None}
                       /\ \A p \in live : up[c] = p <=> c \in kids[p]
    /\ Acyclic(live, kids)

\* A legal appendChild does not hang a node below itself.
LEMMA LegalParent ==
    ASSUME Memory, Tree, NEW p \in live, NEW c \in live, c \notin SelfAndAncestors(p)
    PROVE  p \notin Below(live, kids, {c})
<1> DEFINE A == SelfAndAncestors(p)
<1>1. p \in A /\ A \subseteq live /\ c \notin A
  BY DEF SelfAndAncestors
<1>2. ASSUME NEW z \in A, Parent(z) \in live PROVE Parent(z) \in A
  <2>1. None \notin live
    BY DomAssumption DEF Memory, TypeOK
  <2>2. QED
    BY <1>2, <2>1 DEF SelfAndAncestors
<1>3. \A z, k \in live : k \in kids[z] => Parent(k) = z
  BY DEF Tree, Parent
<1> HIDE DEF A
<1>4. \A z \in live \ A : kids[z] \subseteq live \ A
  BY <1>2, <1>3 DEF Memory, TypeOK
<1>5. (\A x \in live : kids[x] \subseteq live) /\ {c} \in SUBSET live
  BY DEF Memory, TypeOK
<1>6. Below(live, kids, {c}) \subseteq live \ A
  <2> DEFINE K == live \ A
  <2>1. K \in SUBSET live /\ {c} \subseteq K /\ \A z \in K : kids[z] \subseteq K
    BY <1>1, <1>4
  <2> HIDE DEF K
  <2>2. Below(live, kids, {c}) \subseteq K
    BY <1>5, <2>1, BelowFacts
  <2>3. QED
    BY <2>2 DEF K
<1>7. QED
  BY <1>1, <1>6

\* Below the children of h is nothing that is held from elsewhere, nor the
\* document; so all of it is dropped when h drops its children.
LEMMA TreeDrops ==
    ASSUME Memory, Tree, NEW h \in live
    PROVE  /\ ~Loops(kids[h])
           /\ Root \notin Forgotten(h)
           /\ \A y \in live, x \in Forgotten(h) : x \in kids[y] => y \in Forgotten(h) \cup {h}
           /\ Drained(h) = Forgotten(h)
           /\ Dead(h, Drained(h)) = Forgotten(h)
<1> DEFINE F == Forgotten(h)
<1>0. /\ \A x \in live : kids[x] \in SUBSET live
      /\ kids[h] \in SUBSET live
  BY DEF Memory, TypeOK
<1>1. /\ F \in SUBSET live /\ kids[h] \subseteq F
      /\ \A x \in F : kids[x] \subseteq F
      /\ \A T \in SUBSET live :
            kids[h] \subseteq T /\ (\A x \in T : kids[x] \subseteq T) => F \subseteq T
  BY <1>0, BelowFacts DEF Forgotten, Subtree
<1>2. ~Loops(kids[h])
  <2>1. Subtree(kids[h]) \subseteq live
    BY <1>1 DEF Forgotten
  <2>2. QED
    BY <2>1 DEF Loops, Tree, Acyclic, Subtree
<1> HIDE DEF F
<1>3. \A x, y, z \in live : x \in kids[y] /\ x \in kids[z] => y = z
  BY DEF Tree
<1>4. \A y \in live : Root \notin kids[y]
  BY <1>0, DomAssumption DEF Tree, Memory, TypeOK
<1>5. Root \notin F
  <2>1. (F \ {Root}) \in SUBSET live /\ kids[h] \subseteq F \ {Root}
    BY <1>1, <1>4
  <2>2. \A x \in F \ {Root} : kids[x] \subseteq F \ {Root}
    BY <1>1, <1>4
  <2>3. QED
    BY <1>1, <2>1, <2>2
<1>6. ASSUME NEW y \in live, NEW x \in F, x \in kids[y], y \notin F \cup {h}
      PROVE  FALSE
  <2>1. (F \ {x}) \in SUBSET live /\ kids[h] \subseteq F \ {x}
    BY <1>1, <1>3, <1>6
  <2>2. \A z \in F \ {x} : kids[z] \subseteq F \ {x}
    BY <1>1, <1>3, <1>6
  <2>3. QED
    BY <1>1, <2>1, <2>2
<1>7. Drained(h) = F
  <2>1. Drained(h) \subseteq F
    BY <1>2, ForgottenFacts DEF Memory, F
  <2> DEFINE below == [c \in kids[h] |-> Subtree({c})]
             owners == [c \in kids[h] |-> {y \in live : c \in kids[y]}]
             emptied == {S \in SUBSET live :
                           \A c \in kids[h] \ {Root} :
                              owners[c] \subseteq S \cup {h} => below[c] \subseteq S}
             U == {y \in live : \E c \in kids[h] : y \in Subtree({c})}
  <2>2. \A c \in kids[h] : /\ c \in Subtree({c})
                           /\ Subtree({c}) \subseteq live
                           /\ \A x \in Subtree({c}) : kids[x] \subseteq Subtree({c})
    <3> SUFFICES ASSUME NEW c \in kids[h]
                 PROVE  /\ c \in Subtree({c})
                        /\ Subtree({c}) \subseteq live
                        /\ \A x \in Subtree({c}) : kids[x] \subseteq Subtree({c})
      OBVIOUS
    <3>1. {c} \in SUBSET live
      BY <1>0
    <3>2. QED
      BY <1>0, <3>1, BelowFacts DEF Subtree
  <2>3. F \subseteq U
    <3> HIDE DEF Subtree
    <3>1. U \in SUBSET live /\ kids[h] \subseteq U
      BY <1>0, <2>2
    <3>2. \A x \in U : kids[x] \subseteq U
      BY <1>0, <2>2
    <3>3. QED
      BY <1>1, <3>1, <3>2
  <2>4. ASSUME NEW S \in emptied PROVE U \subseteq S
    <3>1. \A c \in kids[h] : owners[c] \subseteq {h} /\ c # Root
      BY <1>0, <1>3, <1>4
    <3>2. \A c \in kids[h] : below[c] \subseteq S
      BY <3>1
    <3>3. QED
      BY <3>2
  <2>5. F \subseteq Drained(h)
    BY <1>1, <2>3, <2>4 DEF Drained
  <2>6. QED
    BY <2>1, <2>5
<1>8. Dead(h, F) = F
  BY <1>5, <1>6 DEF Dead
<1>9. QED
  BY <1>2, <1>5, <1>6, <1>7, <1>8 DEF F

LEMMA CreateTree ==
    ASSUME Memory, Tree, Create
    PROVE  Tree'
<1>1. PICK x \in Free(live) :
         /\ live' = live \cup {x}
         /\ kids' = [kids EXCEPT ![x] = {}]
         /\ up' = [up EXCEPT ![x] = None]
         /\ Intern(by_ptr, nodes, {x})
  BY DEF Create
<1>2. x \in Cells \ live /\ (\A y \in live : up[y] # x) /\ x # Root
  BY <1>1 DEF Free, Tree, Memory, TableCoherent, NoIndex, DomAssumption
<1>3. /\ \A y \in Cells \ {x} : by_ptr'[y] = by_ptr[y]
      /\ by_ptr'[x] # NoIndex
  <2>1. /\ nodes \in Seq(Cells \cup {Gone})
        /\ by_ptr \in [Cells -> 0..Len(nodes)]
        /\ Coherent(nodes, by_ptr)
    BY DEF Memory, TypeOK, TableCoherent, Coherent
  <2>2. {x} \in SUBSET Cells /\ Intern(by_ptr, nodes, {x})
    BY <1>1, <1>2
  <2>3. QED
    BY <2>1, <2>2, InternFacts
<1>4. /\ \A y \in live : kids'[y] = kids[y] /\ up'[y] = up[y]
      /\ kids'[x] = {} /\ up'[x] = None
      /\ \A y \in live : kids[y] \in SUBSET live
  BY <1>1, <1>2 DEF Memory, TypeOK
<1>5. Acyclic(live', kids')
  <2> SUFFICES ASSUME NEW y \in live' PROVE y \notin Below(live', kids', kids'[y])
    BY DEF Acyclic
  <2>1. \A z \in live' : kids'[z] \subseteq live'
    BY <1>1, <1>4
  <2>2. \A T \in SUBSET live' :
           kids'[y] \subseteq T /\ (\A z \in T : kids'[z] \subseteq T)
              => Below(live', kids', kids'[y]) \subseteq T
    BY <2>1, BelowFacts
  <2>3. CASE y = x
    <3>1. Below(live', kids', kids'[y]) \subseteq {}
      BY <1>4, <2>2, <2>3
    <3>2. QED
      BY <3>1
  <2>4. CASE y \in live
    <3> DEFINE T == Below(live, kids, kids[y])
    <3>0. kids[y] \in SUBSET live
      BY <1>4, <2>4
    <3>1. T \in SUBSET live /\ kids[y] \subseteq T /\ \A z \in T : kids[z] \subseteq T
      BY <1>4, <3>0, BelowFacts
    <3>2. y \notin T
      BY <2>4 DEF Tree, Acyclic
    <3> HIDE DEF T
    <3>3. T \in SUBSET live' /\ kids'[y] \subseteq T /\ \A z \in T : kids'[z] \subseteq T
      BY <1>1, <1>4, <2>4, <3>1
    <3>4. QED
      BY <2>2, <3>2, <3>3
  <2>5. QED
    BY <1>1, <2>3, <2>4
<1>6. \A c \in live' : /\ up'[c] \in live' \cup {None}
                       /\ \A p \in live' : up'[c] = p <=> c \in kids'[p]
  BY <1>1, <1>2, <1>4, DomAssumption DEF Tree, Memory, TypeOK
<1>7. status' = "running" /\ by_ptr'[Root] = 1 /\ up'[Root] = None
  BY <1>1, <1>2, <1>3, DomAssumption DEF Tree, Create, Memory, TypeOK
<1>8. \A y \in live' : by_ptr'[y] # NoIndex
  BY <1>1, <1>2, <1>3 DEF Tree, Memory, TypeOK
<1>9. QED
  BY <1>5, <1>6, <1>7, <1>8 DEF Tree

LEMMA AppendTree ==
    ASSUME Memory, Tree, NEW m \in DOMAIN nodes, NEW n \in DOMAIN nodes,
           AppendChild(m, n), illegal' = 0, illegal \in Nat
    PROVE  Tree'
<1> DEFINE p == nodes[m]
           c == nodes[n]
           less == Detached(c)
<1>1. p \in live /\ c \in live
  BY KnownIsLive DEF AppendChild, Memory
<1>2. /\ kids' = [less EXCEPT ![p] = @ \cup {c}]
      /\ up' = [up EXCEPT ![c] = p]
      /\ c # Root /\ c \notin SelfAndAncestors(p)
      /\ UNCHANGED <<live, nodes, by_ptr, status>>
  BY DEF AppendChild, Counted
<1> HIDE DEF p, c, less
<1>3. /\ \A x \in live : kids[x] \in SUBSET live
      /\ live \subseteq Cells /\ None \notin live
  BY DomAssumption DEF Memory, TypeOK
<1>4. \A x \in live : less[x] = kids[x] \ {c}
  BY <1>1, <1>3 DEF less, Detached, Tree, Memory, TypeOK
<1>5. /\ \A x \in live : kids'[x] = IF x = p THEN less[p] \cup {c} ELSE less[x]
      /\ \A x \in live : up'[x] = IF x = c THEN p ELSE up[x]
  <2>1. less \in [Cells -> SUBSET live] /\ up \in [Cells -> Cells \cup {None}]
    BY DEF less, Detached, Memory, TypeOK
  <2>2. QED
    BY <1>1, <1>2, <1>3, <2>1
<1>6. Acyclic(live, kids')
  <2>1. p \notin Below(live, kids, {c}) /\ Acyclic(live, kids)
    BY <1>1, <1>2, LegalParent DEF Tree
  <2>2. \A x \in live : kids[x] \subseteq live /\ less[x] \subseteq kids[x]
    BY <1>3, <1>4
  <2>3. {c} \in SUBSET live
    BY <1>1
  <2>4. Below(live, less, {c}) \subseteq Below(live, kids, {c}) /\ Acyclic(live, less)
    BY <2>1, <2>2, <2>3, AcyclicLess
  <2>5. p \notin Below(live, less, {c}) /\ \A x \in live : less[x] \subseteq live
    BY <2>1, <2>2, <2>4
  <2>6. QED
    BY <1>1, <1>5, <2>4, <2>5, AcyclicMore
<1>7. \A d \in live : /\ up'[d] \in live \cup {None}
                      /\ \A q \in live : up'[d] = q <=> d \in kids'[q]
  BY <1>1, <1>4, <1>5 DEF Tree
<1>8. up'[Root] = None
  <2>1. Root \in live
    BY DomAssumption DEF Tree, Memory, TableCoherent, NoIndex
  <2>2. QED
    BY <1>2, <1>5, <2>1 DEF Tree
<1>9. QED
  BY <1>2, <1>6, <1>7, <1>8 DEF Tree

LEMMA RemoveTree ==
    ASSUME Memory, Tree, NEW m \in DOMAIN nodes, NEW n \in DOMAIN nodes,
           RemoveChild(m, n), illegal' = 0, illegal \in Nat
    PROVE  Tree'
<1> DEFINE p == nodes[m]
           c == nodes[n]
<1>1. p \in live /\ c \in live
  BY KnownIsLive DEF RemoveChild, Memory
<1>2. /\ kids' = [kids EXCEPT ![p] = @ \ {c}]
      /\ up' = [up EXCEPT ![c] = None]
      /\ c \in kids[p]
      /\ UNCHANGED <<live, nodes, by_ptr, status>>
  BY DEF RemoveChild, Counted, Unlisted
<1> HIDE DEF p, c
<1>3. /\ \A x \in live : kids[x] \in SUBSET live
      /\ live \subseteq Cells /\ None \notin live
  BY DomAssumption DEF Memory, TypeOK
<1>4. /\ \A x \in live : kids'[x] = IF x = p THEN kids[p] \ {c} ELSE kids[x]
      /\ \A x \in live : up'[x] = IF x = c THEN None ELSE up[x]
      /\ up[Root] = None => up'[Root] = None
  BY <1>1, <1>2, <1>3, DomAssumption DEF Memory, TypeOK
<1>5. Acyclic(live, kids')
  <2>1. \A x \in live : kids[x] \subseteq live /\ kids'[x] \subseteq kids[x]
    BY <1>3, <1>4
  <2>2. QED
    BY <2>1, AcyclicLess DEF Tree
<1>6. \A d \in live : /\ up'[d] \in live \cup {None}
                      /\ \A q \in live : up'[d] = q <=> d \in kids'[q]
  BY <1>1, <1>2, <1>3, <1>4 DEF Tree
<1>7. QED
  BY <1>2, <1>4, <1>5, <1>6 DEF Tree

LEMMA ReplaceTree ==
    ASSUME Memory, Tree, NEW m \in DOMAIN nodes, ReplaceChildren(m)
    PROVE  Tree'
<1> DEFINE h == nodes[m]
           F == Forgotten(h)
<1>1. h \in live
  BY ReplaceStep, KnownIsLive DEF Memory
<1>2. /\ F \in SUBSET live /\ h \notin F /\ Root \notin F
      /\ kids[h] \subseteq F /\ \A x \in F : kids[x] \subseteq F
      /\ \A y \in live, x \in F : x \in kids[y] => y \in F \cup {h}
      /\ Drained(h) = F /\ Dead(h, F) = F
  <2>1. ~Loops(kids[h])
    BY <1>1, TreeDrops
  <2>2. QED
    BY <1>1, <2>1, TreeDrops, ForgottenFacts DEF Memory
<1>3. PICK N \in SUBSET Free(live \ F) :
         \E hang \in Fragments(N, h) : Replaced(h, F, F, F, N, hang)
  BY Zenon, <1>2, ReplaceStep
<1>4. PICK hang \in Fragments(N, h) : Replaced(h, F, F, F, N, hang)
  BY <1>3
<1>5. /\ live' = (live \ F) \cup N
      /\ kids' = [x \in Cells |->
            IF x \in N \cup {h} THEN {y \in N : hang[y] = x}
            ELSE IF x \in F THEN {} ELSE kids[x]]
      /\ up' = [x \in Cells |->
            IF x \in N THEN hang[x] ELSE IF x \in F THEN None ELSE up[x]]
      /\ Intern(PtrsWithout(F), SlotsWithout(F), N)
      /\ UNCHANGED <<illegal, status>>
  BY Zenon, <1>4, ReplaceStep DEF Replaced
<1>6. F = Below(live, kids, kids[h])
  BY DEF Forgotten, Subtree
<1> HIDE DEF h, F
<1>7. /\ N \in SUBSET Cells /\ N \cap (live \ F) = {}
      /\ \A y \in live \ F : up[y] \notin N
      /\ live \subseteq Cells /\ None \notin live \cup N
      /\ \A x \in live : kids[x] \in SUBSET live
  BY DomAssumption DEF Free, Memory, TypeOK
<1>8. hang \in [N -> N \cup {h}]
  BY DEF Fragments
<1>9. Root \in live
  BY DomAssumption DEF Tree, Memory, TableCoherent, NoIndex
<1>10. /\ \A x \in N \cup {h} : kids'[x] = {y \in N : hang[y] = x}
       /\ \A x \in live \ (N \cup F \cup {h}) : kids'[x] = kids[x]
       /\ \A x \in N : up'[x] = hang[x]
       /\ \A x \in live \ (N \cup F) : up'[x] = up[x]
  BY <1>1, <1>5, <1>7
<1>11. Acyclic(live', kids')
  <2>1. /\ \A x \in N \cup {h} : kids'[x] \subseteq N
        /\ \A x \in N \cup {h}, y \in N : y \in kids'[x] <=> hang[y] = x
        /\ \A x \in live \ (F \cup N \cup {h}) : kids'[x] = kids[x]
    BY <1>10
  <2>2. (\A x \in live : kids[x] \subseteq live) /\ Acyclic(live, kids)
    BY <1>7 DEF Tree
  <2>3. \A x \in live, y \in F : y \in kids[x] => x \in F \cup {h}
    BY <1>2
  <2>4. F = Below(live, kids, kids[h]) /\ N \cap (live \ F) = {}
    BY <1>6, <1>7
  <2>5. Acyclic((live \ F) \cup N, kids')
    BY <1>1, <2>1, <2>2, <2>3, <2>4, AcyclicReplace
  <2>6. QED
    BY <1>5, <2>5
<1>12. ASSUME NEW d \in live'
       PROVE  /\ up'[d] \in live' \cup {None}
              /\ \A q \in live' : up'[d] = q <=> d \in kids'[q]
  <2>1. CASE d \in N
    <3>1. up'[d] = hang[d] /\ hang[d] \in N \cup {h} /\ h \in live'
      BY <1>1, <1>2, <1>5, <1>8, <1>10, <2>1
    <3>2. ASSUME NEW q \in live' PROVE up'[d] = q <=> d \in kids'[q]
      <4>1. CASE q \in N \cup {h}
        BY <1>10, <2>1, <3>1, <4>1
      <4>2. CASE q \in live \ (N \cup F \cup {h})
        BY <1>2, <1>7, <1>10, <2>1, <3>1, <4>2
      <4>3. QED
        BY <1>5, <4>1, <4>2
    <3>3. QED
      BY <1>5, <3>1, <3>2
  <2>2. CASE d \in live \ (N \cup F)
    <3>1. up'[d] = up[d] /\ up[d] \in live \cup {None}
      BY <1>10, <2>2 DEF Tree
    <3>2. \A q \in live : up[d] = q <=> d \in kids[q]
      BY <2>2 DEF Tree
    <3>3. up[d] \notin F \cup N \cup {h}
      BY <1>1, <1>2, <1>7, <2>2, <3>2
    <3>4. ASSUME NEW q \in live' PROVE up'[d] = q <=> d \in kids'[q]
      <4>1. CASE q \in N \cup {h}
        BY <1>10, <2>2, <3>1, <3>3, <4>1
      <4>2. CASE q \in live \ (N \cup F \cup {h})
        BY <1>10, <3>1, <3>2, <4>2
      <4>3. QED
        BY <1>5, <4>1, <4>2
    <3>5. QED
      BY <1>5, <3>1, <3>3, <3>4
  <2>3. QED
    BY <1>5, <2>1, <2>2
<1>13. /\ \A x \in N : by_ptr'[x] # NoIndex
       /\ \A x \in Cells \ N : by_ptr'[x] = PtrsWithout(F)[x]
  <2>1. F \in SUBSET Cells
    BY <1>2, <1>7
  <2>2. /\ SlotsWithout(F) \in Seq(Cells \cup {Gone})
        /\ PtrsWithout(F) \in [Cells -> 0..Len(SlotsWithout(F))]
        /\ Coherent(SlotsWithout(F), PtrsWithout(F))
    BY <2>1, ForgetFacts DEF Memory
  <2>3. N \in SUBSET Cells /\ Intern(PtrsWithout(F), SlotsWithout(F), N)
    BY <1>5, <1>7
  <2>4. QED
    BY <2>2, <2>3, InternFacts
<1>14. \A x \in live \ (N \cup F) : by_ptr'[x] = by_ptr[x]
  BY <1>7, <1>13 DEF PtrsWithout
<1>15. \A x \in live' : by_ptr'[x] # NoIndex
  BY <1>5, <1>13, <1>14 DEF Tree
<1>16. status' = "running" /\ by_ptr'[Root] = 1 /\ up'[Root] = None
  BY <1>2, <1>5, <1>7, <1>9, <1>10, <1>14 DEF Tree
<1>17. QED
  BY <1>11, <1>12, <1>15, <1>16 DEF Tree

\* A legal script never sends a walk round in circles.
LEMMA TreeWalks ==
    ASSUME Memory, Tree, NEW m \in DOMAIN nodes
    PROVE  ~Overflow(m)
<1> SUFFICES ASSUME Overflow(m) PROVE FALSE
  OBVIOUS
<1>1. nodes[m] \in live
  BY KnownIsLive DEF Overflow, Memory
<1>2. {nodes[m]} \in SUBSET live /\ \A x \in live : kids[x] \subseteq live
  BY <1>1 DEF Memory, TypeOK
<1>3. Subtree({nodes[m]}) \subseteq live
  BY <1>2, BelowFacts DEF Subtree
<1>4. QED
  BY <1>3 DEF Overflow, Loops, Subtree, Tree, Acyclic

----------------------------------------------------------------------------
(* The invariant, and what follows from it *)

IInv == Memory /\ (illegal = 0 => Tree)

LEMMA InitInv == Init => IInv
<1> SUFFICES ASSUME Init PROVE IInv
  OBVIOUS
<1>1. PICK html \in Cells \ {Root}, body \in Cells \ {Root} :
         /\ html # body
         /\ live = {Root, html, body}
         /\ kids = [x \in Cells |-> CASE x = Root -> {html}
                                      [] x = html -> {body}
                                      [] OTHER -> {}]
         /\ up = [x \in Cells |-> CASE x = html -> Root
                                    [] x = body -> html
                                    [] OTHER -> None]
         /\ nodes = <<Root, html, body>>
         /\ by_ptr = [x \in Cells |-> CASE x = Root -> 1
                                        [] x = html -> 2
                                        [] x = body -> 3
                                        [] OTHER -> NoIndex]
  BY DEF Init
<1>2. illegal = 0 /\ status = "running"
  BY DEF Init
<1>3. /\ kids[Root] = {html} /\ kids[html] = {body}
      /\ \A x \in Cells \ {Root, html} : kids[x] = {}
  BY <1>1, DomAssumption
<1>4. /\ up[html] = Root /\ up[body] = html
      /\ \A x \in Cells \ {html, body} : up[x] = None
  BY <1>1, DomAssumption
<1>5. /\ by_ptr[Root] = 1 /\ by_ptr[html] = 2 /\ by_ptr[body] = 3
      /\ \A x \in Cells \ live : by_ptr[x] = NoIndex
  BY <1>1, DomAssumption
<1>6. /\ Len(nodes) = 3 /\ DOMAIN nodes = 1..3
      /\ nodes[1] = Root /\ nodes[2] = html /\ nodes[3] = body
      /\ nodes \in Seq(Cells \cup {Gone})
  BY <1>1, DomAssumption
<1>7. TypeOK
  <2>1. live \in SUBSET Cells /\ up \in [Cells -> Cells \cup {None}]
    BY <1>1, DomAssumption
  <2>2. kids \in [Cells -> SUBSET live] /\ \A x \in Cells \ live : kids[x] = {}
    BY <1>1, DomAssumption
  <2>3. by_ptr \in [Cells -> 0..Len(nodes)]
    BY <1>1, <1>6 DEF NoIndex
  <2>4. illegal \in 0..MaxIllegal
    BY <1>2, DomAssumption
  <2>5. QED
    BY <1>2, <1>6, <2>1, <2>2, <2>3, <2>4 DEF TypeOK
<1>8. TableCoherent
  <2>1. ASSUME NEW n \in 1..3, NEW x \in Cells PROVE nodes[n] = x <=> by_ptr[x] = n
    <3>1. n = 1 \/ n = 2 \/ n = 3
      OBVIOUS
    <3>2. x \in live \/ by_ptr[x] = 0
      BY <1>5 DEF NoIndex
    <3>3. QED
      BY <1>1, <1>5, <1>6, <3>1, <3>2
  <2>2. QED
    BY <1>5, <1>6, <2>1 DEF TableCoherent
<1>9. Acyclic(live, kids)
  <2>1. \A x \in live : kids[x] \in SUBSET live
    BY <1>1, <1>3
  <2>2. \A x \in live, T \in SUBSET live :
           kids[x] \subseteq T /\ (\A y \in T : kids[y] \subseteq T)
              => Below(live, kids, kids[x]) \subseteq T
    BY <2>1, BelowFacts
  <2>3. Root \in live /\ html \in live /\ body \in live
    BY <1>1
  <2>4. Below(live, kids, kids[Root]) \subseteq {html, body}
    <3>1. {html, body} \in SUBSET live /\ kids[Root] \subseteq {html, body}
      BY <1>1, <1>3
    <3>2. \A y \in {html, body} : kids[y] \subseteq {html, body}
      BY <1>1, <1>3
    <3>3. QED
      BY <2>2, <2>3, <3>1, <3>2
  <2>5. Below(live, kids, kids[html]) \subseteq {body}
    <3>1. {body} \in SUBSET live /\ kids[html] \subseteq {body}
      BY <1>1, <1>3
    <3>2. \A y \in {body} : kids[y] \subseteq {body}
      BY <1>1, <1>3
    <3>3. QED
      BY <2>2, <2>3, <3>1, <3>2
  <2>6. Below(live, kids, kids[body]) \subseteq {}
    BY <1>1, <1>3, <2>2, <2>3
  <2>7. QED
    BY <1>1, <2>4, <2>5, <2>6 DEF Acyclic
<1>10. Tree
  <2>1. \A c \in live : /\ up[c] \in live \cup {None}
                        /\ \A p \in live : up[c] = p <=> c \in kids[p]
    BY <1>1, <1>3, <1>4, DomAssumption
  <2>2. \A x \in live : by_ptr[x] # NoIndex
    BY <1>1, <1>5 DEF NoIndex
  <2>3. QED
    BY <1>2, <1>4, <1>5, <1>9, <2>1, <2>2, DomAssumption DEF Tree
<1>11. QED
  BY <1>7, <1>8, <1>10 DEF IInv, Memory

LEMMA StepInv == IInv /\ [Next]_vars => IInv'
<1> SUFFICES ASSUME IInv, [Next]_vars PROVE IInv'
  OBVIOUS
<1>1. illegal \in Nat
  BY DomAssumption DEF IInv, Memory, TypeOK
<1>2. CASE Create
  BY <1>2, CreateMemory, CreateTree DEF IInv, Create
<1>3. ASSUME NEW m \in DOMAIN nodes, NEW n \in DOMAIN nodes, AppendChild(m, n)
      PROVE  IInv'
  <2>1. illegal' = 0 => illegal = 0
    BY <1>1, <1>3 DEF AppendChild, Counted
  <2>2. QED
    BY <1>1, <1>3, <2>1, AppendMemory, AppendTree DEF IInv
<1>4. ASSUME NEW m \in DOMAIN nodes, NEW n \in DOMAIN nodes, RemoveChild(m, n)
      PROVE  IInv'
  <2>1. illegal' = 0 => illegal = 0
    BY <1>1, <1>4 DEF RemoveChild, Counted
  <2>2. QED
    BY <1>1, <1>4, <2>1, RemoveMemory, RemoveTree DEF IInv
<1>5. ASSUME NEW m \in DOMAIN nodes, ReplaceChildren(m)
      PROVE  IInv'
  <2>1. illegal' = illegal
    BY <1>5 DEF ReplaceChildren
  <2>2. QED
    BY <1>5, <2>1, ReplaceMemory, ReplaceTree DEF IInv
<1>6. ASSUME NEW m \in DOMAIN nodes, Overflow(m)
      PROVE  IInv'
  <2>1. illegal' = illegal /\ illegal # 0
    BY <1>6, TreeWalks DEF IInv, Overflow
  <2>2. Memory'
    BY <1>6 DEF IInv, Memory, Overflow, TypeOK, TableCoherent
  <2>3. QED
    BY <2>1, <2>2 DEF IInv
<1>7. CASE UNCHANGED vars
  BY <1>7 DEF IInv, Memory, Tree, TypeOK, TableCoherent, vars
<1>8. QED
  BY <1>2, <1>3, <1>4, <1>5, <1>6, <1>7 DEF Next

LEMMA Invariance == Spec => []IInv
BY InitInv, StepInv, PTL DEF Spec

\* The state of the document and its table is well typed: the code's
\* Document, whatever its scripts call.
THEOREM TypeCorrect == Spec => []TypeOK
<1>1. IInv => TypeOK
  BY DEF IInv, Memory
<1>2. QED
  BY <1>1, Invariance, PTL

\* A NodeId and the address of its node name each other whatever the scripts
\* call, however often an address is used again: forget_subtree leaves no
\* entry that a later node at the address could answer to.
THEOREM TableHolds == Spec => []TableCoherent
<1>1. IInv => TableCoherent
  BY DEF IInv, Memory
<1>2. QED
  BY <1>1, Invariance, PTL

\* The lists of children and the links to the parents agree as long as the
\* calls were legal: append_child's detach keeps a node in one list only.
THEOREM LinksHold == Spec => []LinksAgree
<1>1. IInv => LinksAgree
  BY DEF IInv, Tree, LinksAgree
<1>2. QED
  BY <1>1, Invariance, PTL

\* As long as the calls were legal, the nodes in memory are those with an id:
\* what the setters forget is exactly what rcdom drops.
THEOREM NamedHolds == Spec => []AllNamed
<1>1. IInv => AllNamed
  <2> SUFFICES ASSUME IInv, illegal = 0
               PROVE  (\A x \in live : by_ptr[x] # NoIndex) /\ nodes[1] = Root
    BY DEF AllNamed
  <2>1. Tree /\ TableCoherent /\ TypeOK
    BY DEF IInv, Memory
  <2>2. by_ptr[Root] = 1 /\ 1 \in DOMAIN nodes
    BY <2>1, DomAssumption DEF Tree, TypeOK
  <2>3. QED
    BY <2>1, <2>2, DomAssumption DEF Tree, TableCoherent
<1>2. QED
  BY <1>1, Invariance, PTL

\* The recursive walks of the code end as long as the calls were legal.
THEOREM WalksEnd == Spec => []NoOverflow
<1>1. IInv => NoOverflow
  BY DomAssumption DEF IInv, Tree, NoOverflow, Memory, TypeOK
<1>2. QED
  BY <1>1, Invariance, PTL
=============================================================================
