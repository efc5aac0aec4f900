----------------------- MODULE BrowseClients_proofs -----------------------
(***************************************************************************)
(* Theorems about the two programs that keep browse sessions for a         *)
(* language model: the MCP server's store (BrowseStore), for every number  *)
(* of clients, cap, timeout and interval, and the benchmark's agent        *)
(* (AgentLoop), for pages of every length and shape, every number of turns *)
(* and of calls in a turn.                                                 *)
(*                                                                         *)
(* What the agent is shown is a list put together from several walks over  *)
(* the page; the first lemmas about it are about sequences that enumerate  *)
(* a set.  Sums over sequences (FlattenSeq) are proved by induction over a *)
(* set of numbers (SetInduction), which needs no operator as a parameter.  *)
(***************************************************************************)
EXTENDS BrowseStore, AgentLoop, SequenceTheorems, FiniteSetTheorems,
        WellFoundedInduction, TLAPS

----------------------------------------------------------------------------
(* Theorems about the store *)

\* Type correctness of the store.
THEOREM TypeCorrect == Spec => []TypeOK
<1> USE StoreAssumption
<1>1. Init => TypeOK
  BY DEF Init, TypeOK, TaskState, ReaperState, Idle
<1>2. TypeOK /\ [Next]_vars => TypeOK'
  <2> SUFFICES ASSUME TypeOK, [Next]_vars
               PROVE  TypeOK'
    OBVIOUS
  <2> USE DEF TypeOK, TaskState, Idle
  <2>1. ASSUME NEW c \in Clients, OpenBegin(c)
        PROVE  TypeOK'
    BY <2>1 DEF OpenBegin
  <2>2. ASSUME NEW c \in Clients, OpenFail(c)
        PROVE  TypeOK'
    BY <2>2 DEF OpenFail
  <2>3. ASSUME NEW c \in Clients, OpenRefused(c)
        PROVE  TypeOK'
    BY <2>3 DEF OpenRefused
  <2>4. ASSUME NEW c \in Clients, OpenInsert(c)
        PROVE  TypeOK'
    <3>1. task[c].s \in Sessions
      BY <2>4 DEF OpenInsert
    <3>2. QED
      BY <2>4, <3>1 DEF OpenInsert
  <2>5. ASSUME NEW c \in Clients, Finish(c)
        PROVE  TypeOK'
    BY <2>5 DEF Finish
  <2>6. ASSUME NEW c \in Clients, NEW s \in Sessions, Touch(c, s)
        PROVE  TypeOK'
    BY <2>6 DEF Touch
  <2>7. ASSUME NEW s \in Sessions, Close(s)
        PROVE  TypeOK'
    BY <2>7 DEF Close
  <2>8. ASSUME NEW s \in Sessions, ActorExit(s)
        PROVE  TypeOK'
    BY <2>8 DEF ActorExit
  <2>9. CASE ReapCutoff
    BY <2>9 DEF ReapCutoff, CutoffWindow, ReaperState
  <2>10. CASE ReapSweep
    BY <2>10 DEF ReapSweep, ReaperState
  <2>11. CASE Tick
    <3>1. reaper' \in ReaperState
      BY <2>11 DEF Tick, ReaperState
    <3>2. uptime' \in 0..IdleTimeout
      BY <2>11 DEF Tick, Later
    <3>3. QED
      BY <2>11, <3>1, <3>2 DEF Tick
  <2>12. CASE UNCHANGED vars
    BY <2>12 DEF vars
  <2>13. QED
    BY <2>1, <2>2, <2>3, <2>4, <2>5, <2>6, <2>7, <2>8, <2>9, <2>10, <2>11,
       <2>12 DEF Next
<1>3. QED
  BY <1>1, <1>2, PTL DEF Spec

----------------------------------------------------------------------------
(* The hard cap *)

\* What each step does to the map: it adds one id while there is room, or it
\* only removes some.
LEMMA StoreStep ==
    ASSUME TypeOK, [Next]_vars
    PROVE  \/ store' \subseteq store
           \/ ~AtCapacity /\ \E s \in Sessions : store' = store \cup {s}
<1>1. ASSUME NEW c \in Clients, OpenInsert(c)
      PROVE  ~AtCapacity /\ \E s \in Sessions : store' = store \cup {s}
  BY <1>1 DEF OpenInsert, WonRace, TypeOK, TaskState, Idle
<1>2. ASSUME NEW c \in Clients,
             \/ OpenBegin(c) \/ OpenFail(c) \/ OpenRefused(c) \/ Finish(c)
             \/ \E s \in Sessions : Touch(c, s)
      PROVE  store' \subseteq store
  BY <1>2 DEF OpenBegin, OpenFail, OpenRefused, Finish, Touch
<1>3. ASSUME NEW s \in Sessions, Close(s) \/ ActorExit(s)
      PROVE  store' \subseteq store
  BY <1>3 DEF Close, ActorExit
<1>4. CASE ReapCutoff \/ ReapSweep \/ Tick \/ UNCHANGED vars
  BY <1>4 DEF ReapCutoff, ReapSweep, Tick, vars
<1>5. QED
  BY <1>1, <1>2, <1>3, <1>4 DEF Next

\* The cap is about cardinalities, so finiteness of the map comes with it.
CapInv == IsFiniteSet(store) /\ Cardinality(store) <= MaxSessions

\* The map never holds more than max_sessions entries, however opens, closes
\* and reaps interleave between the two capacity checks of open_with_secrets.
THEOREM CapHolds == Spec => []CapRespected
<1>1. Init => CapInv
  BY FS_EmptySet, StoreAssumption DEF Init, CapInv
<1>2. TypeOK /\ CapInv /\ [Next]_vars => CapInv'
  <2> SUFFICES ASSUME TypeOK, CapInv, [Next]_vars
               PROVE  CapInv'
    OBVIOUS
  <2>1. Cardinality(store) \in Nat
    BY FS_CardinalityType DEF CapInv
  <2>2. CASE store' \subseteq store
    <3>1. IsFiniteSet(store') /\ Cardinality(store') <= Cardinality(store)
      BY <2>2, FS_Subset DEF CapInv
    <3>2. Cardinality(store') \in Nat
      BY <3>1, FS_CardinalityType
    <3>3. QED
      BY <2>1, <3>1, <3>2, StoreAssumption DEF CapInv
  <2>3. ASSUME NEW s \in Sessions, ~AtCapacity, store' = store \cup {s}
        PROVE  CapInv'
    <3>1. /\ IsFiniteSet(store')
          /\ Cardinality(store') = IF s \in store THEN Cardinality(store)
                                                  ELSE Cardinality(store) + 1
      BY <2>3, FS_AddElement DEF CapInv
    <3>2. QED
      BY <2>1, <2>3, <3>1, StoreAssumption DEF CapInv, AtCapacity
  <2>4. QED
    BY <2>2, <2>3, StoreStep
<1>3. CapInv => CapRespected
  BY DEF CapInv, CapRespected
<1>4. QED
  BY <1>1, <1>2, <1>3, TypeCorrect, PTL DEF Spec

----------------------------------------------------------------------------
(* The reaper *)

\* How stale an entry may be at each point of the reaper's loop: a sweep
\* leaves nothing older than the timeout plus its own wait for the mutex.
AgeInv ==
    /\ \A s \in store :
          age[s] <= IdleTimeout + Slack + reaper.t
                    + (IF reaper.pc = "asleep" THEN 0 ELSE ReapInterval + Slack)
    /\ reaper.t <= (IF reaper.pc = "asleep" THEN ReapInterval + Slack ELSE Slack)

\* AgeInv is inductive over the typed states.
LEMMA AgeInductive == TypeOK /\ AgeInv /\ [Next]_vars => AgeInv'
<1> SUFFICES ASSUME TypeOK, AgeInv, [Next]_vars
             PROVE  AgeInv'
  OBVIOUS
<1> USE StoreAssumption DEF TypeOK, ReaperState
<1>1. ASSUME NEW c \in Clients,
             \/ OpenBegin(c) \/ OpenFail(c) \/ OpenRefused(c) \/ Finish(c)
      PROVE  AgeInv'
  BY <1>1 DEF AgeInv, OpenBegin, OpenFail, OpenRefused, Finish
<1>2. ASSUME NEW c \in Clients, OpenInsert(c)
      PROVE  AgeInv'
  <2>1. task[c].s \in Sessions
    BY <1>2 DEF OpenInsert, TaskState, Idle
  <2>2. \A s \in store' : (age'[s] = age[s] /\ s \in store) \/ age'[s] = 0
    BY <1>2, <2>1 DEF OpenInsert
  <2>3. reaper' = reaper
    BY <1>2 DEF OpenInsert
  <2>4. QED
    BY <2>2, <2>3 DEF AgeInv
<1>3. ASSUME NEW c \in Clients, NEW s \in Sessions, Touch(c, s)
      PROVE  AgeInv'
  BY <1>3 DEF AgeInv, Touch
<1>4. ASSUME NEW s \in Sessions, Close(s) \/ ActorExit(s)
      PROVE  AgeInv'
  BY <1>4 DEF AgeInv, Close, ActorExit
<1>5. CASE ReapCutoff
  <2>1. store' = store /\ age' = age /\ reaper.t <= ReapInterval + Slack
    BY <1>5 DEF ReapCutoff, AgeInv
  <2>2. reaper.pc = "asleep" /\ reaper'.pc = "sweeping" /\ reaper'.t = 0
    BY <1>5 DEF ReapCutoff
  <2>3. ASSUME NEW s \in store
        PROVE  age[s] <= IdleTimeout + Slack + 0 + (ReapInterval + Slack)
    BY <2>1, <2>2 DEF AgeInv
  <2>4. QED
    BY <2>1, <2>2, <2>3 DEF AgeInv
<1>6. CASE ReapSweep
  <2>1. reaper.pc = "sweeping" /\ reaper'.pc = "asleep" /\ reaper'.t = 0
    BY <1>6 DEF ReapSweep
  <2>2. reaper.t <= Slack /\ reaper.window <= IdleTimeout
    BY <2>1 DEF AgeInv
  <2>3. ASSUME NEW s \in store'
        PROVE  age'[s] <= IdleTimeout + Slack
    <3>1. s \in store /\ age[s] <= reaper.t + reaper.window /\ age'[s] = age[s]
      BY <1>6 DEF ReapSweep, Kept
    <3>2. QED
      BY <3>1, <2>2
  <2>4. QED
    BY <2>1, <2>3 DEF AgeInv
<1>7. CASE Tick
  <2>1. reaper'.pc = reaper.pc /\ reaper'.t = reaper.t + 1
    BY <1>7 DEF Tick
  <2>2. \A s \in store' : s \in store /\ age'[s] = age[s] + 1
    BY <1>7 DEF Tick
  <2>3. reaper.t < (IF reaper.pc = "asleep" THEN ReapInterval + Slack ELSE Slack)
    BY <1>7 DEF Tick, ReaperDue
  <2>4. QED
    BY <2>1, <2>2, <2>3 DEF AgeInv
<1>8. CASE UNCHANGED vars
  BY <1>8 DEF vars, AgeInv
<1>9. QED
  BY <1>1, <1>2, <1>3, <1>4, <1>5, <1>6, <1>7, <1>8 DEF Next

\* No entry outlives its last use by more than the timeout, one interval and
\* three slacks, whatever the clients do.
THEOREM DeadlineHolds == Spec => []EvictionDeadline
<1>1. Init => AgeInv
  BY StoreAssumption DEF Init, AgeInv
<1>2. TypeOK /\ AgeInv => EvictionDeadline
  BY StoreAssumption DEF TypeOK, ReaperState, AgeInv, EvictionDeadline
<1>3. QED
  BY <1>1, <1>2, AgeInductive, TypeCorrect, PTL DEF Spec

\* A sweep uses the whole timeout, or the fallback of a clock that cannot go
\* back that far.
WindowInv == reaper.window = IdleTimeout \/ (UnsignedClock /\ reaper.window = 0)

LEMMA WindowInductive == Spec => []WindowInv
<1>1. Init => WindowInv
  BY DEF Init, WindowInv
<1>2. TypeOK /\ WindowInv /\ [Next]_vars => WindowInv'
  BY DEF WindowInv, TypeOK, ReaperState, Next, vars, OpenBegin, OpenFail, OpenRefused,
         OpenInsert, Finish, Touch, Close, ActorExit, ReapCutoff, CutoffWindow,
         ReapSweep, Tick
<1>3. QED
  BY <1>1, <1>2, TypeCorrect, PTL DEF Spec

\* The reaper never removes a session used after it read the clock, and one
\* used within the timeout only where the cutoff fell back to the present.
THEOREM ReaperSparesRecent == Spec => ReapsOnlyIdle
<1>1. TypeOK /\ WindowInv /\ [Next]_vars
         => (reaper.pc = "sweeping" /\ reaper'.pc = "asleep"
               => \A s \in store \ store' :
                     /\ age[s] > reaper.t
                     /\ age[s] > IdleTimeout \/ (UnsignedClock /\ reaper.window = 0))
  <2> SUFFICES ASSUME TypeOK, WindowInv, [Next]_vars,
                      reaper.pc = "sweeping", reaper'.pc = "asleep",
                      NEW s \in store, s \notin store'
               PROVE  /\ age[s] > reaper.t
                      /\ age[s] > IdleTimeout \/ (UnsignedClock /\ reaper.window = 0)
    OBVIOUS
  <2>1. reaper' # reaper
    OBVIOUS
  <2>2. ~ReapCutoff
    BY DEF ReapCutoff
  <2>3. ~Tick
    BY DEF Tick, TypeOK, ReaperState
  <2>4. ReapSweep
    BY <2>1, <2>2, <2>3 DEF Next, vars, OpenBegin, OpenFail, OpenRefused,
       OpenInsert, Finish, Touch, Close, ActorExit
  <2>5. ~(age[s] <= reaper.t + reaper.window)
    BY <2>4 DEF ReapSweep, Kept
  <2>6. age[s] \in Nat /\ reaper.t \in Nat /\ reaper.window \in Nat
    BY StoreAssumption DEF TypeOK, ReaperState
  <2>7. age[s] > reaper.t /\ age[s] > reaper.window
    BY <2>5, <2>6
  <2>8. QED
    BY <2>7 DEF WindowInv
<1>2. QED
  BY <1>1, TypeCorrect, WindowInductive, PTL DEF Spec, ReapsOnlyIdle

----------------------------------------------------------------------------
(* Session handles *)

\* The handles are backed by actors, and a task that is opening holds the
\* only reference to its session.
HandleInv ==
    /\ \A s \in store : actor[s] = "live"
    /\ \A c \in Clients : task[c] # Idle => actor[task[c].s] = "live"

\* A map entry or a handle a tool holds always has a live actor behind it.
THEOREM HandlesStayAlive == Spec => []HandlesAlive
<1>1. Init => HandleInv
  BY DEF Init, HandleInv
<1>2. TypeOK /\ HandleInv /\ [Next]_vars => HandleInv'
  <2> SUFFICES ASSUME TypeOK, HandleInv, [Next]_vars
               PROVE  HandleInv'
    OBVIOUS
  <2> USE DEF TypeOK, TaskState
  <2>1. ASSUME NEW c \in Clients, OpenBegin(c)
        PROVE  HandleInv'
    BY <2>1 DEF HandleInv, OpenBegin, Idle
  <2>2. ASSUME NEW c \in Clients, OpenFail(c) \/ OpenRefused(c) \/ Finish(c)
        PROVE  HandleInv'
    BY <2>2 DEF HandleInv, OpenFail, OpenRefused, Finish
  <2>3. ASSUME NEW c \in Clients, OpenInsert(c)
        PROVE  HandleInv'
    BY <2>3 DEF HandleInv, OpenInsert, Idle
  <2>4. ASSUME NEW c \in Clients, NEW s \in Sessions, Touch(c, s)
        PROVE  HandleInv'
    BY <2>4 DEF HandleInv, Touch
  <2>5. ASSUME NEW s \in Sessions, Close(s)
        PROVE  HandleInv'
    BY <2>5 DEF HandleInv, Close
  <2>6. ASSUME NEW s \in Sessions, ActorExit(s)
        PROVE  HandleInv'
    <3>1. s \notin store /\ \A c \in Clients : task[c].s # s
      BY <2>6 DEF ActorExit, Referenced
    <3>2. \A r \in Sessions : r # s => actor'[r] = actor[r]
      BY <2>6 DEF ActorExit
    <3>3. store' = store /\ task' = task
      BY <2>6 DEF ActorExit
    <3>4. QED
      BY <3>1, <3>2, <3>3 DEF HandleInv, Idle
  <2>7. CASE ReapCutoff \/ ReapSweep \/ Tick \/ UNCHANGED vars
    BY <2>7 DEF HandleInv, ReapCutoff, ReapSweep, Tick, vars
  <2>8. QED
    BY <2>1, <2>2, <2>3, <2>4, <2>5, <2>6, <2>7 DEF Next
<1>3. TypeOK /\ HandleInv => HandlesAlive
  BY StoreAssumption DEF TypeOK, TaskState, HandleInv, HandlesAlive, Idle
<1>4. QED
  BY <1>1, <1>2, <1>3, TypeCorrect, PTL DEF Spec

----------------------------------------------------------------------------
(* Sequences: induction, flattening, enumerations *)

LEMMA NatMinimum ==
    ASSUME NEW T, T \subseteq Nat, T # {}
    PROVE  \E x \in T : \A y \in T : x <= y
<1>1. \E x \in T : \A y \in T : ~(<<y, x>> \in OpToRel(<, Nat))
  BY WFMin, NatLessThanWellFounded
<1>2. \A x, y \in Nat : y < x => <<y, x>> \in OpToRel(<, Nat)
  BY DEF OpToRel
<1>3. \E x \in T : \A y \in T : ~(y < x)
  BY <1>1, <1>2, Zenon
<1>4. QED
  BY <1>3

\* Induction over the numbers, for a set.
LEMMA SetInduction ==
    ASSUME NEW P, 0 \in P, \A n \in Nat : n \in P => n + 1 \in P
    PROVE  Nat \subseteq P
<1> SUFFICES ASSUME Nat \ P # {} PROVE FALSE
  OBVIOUS
<1>1. PICK x \in Nat \ P : \A y \in Nat \ P : x <= y
  BY NatMinimum
<1>2. x # 0
  OBVIOUS
<1>3. x - 1 \in P
  BY <1>1, <1>2
<1>4. QED
  BY <1>2, <1>3

\* What the concatenations of FlattenSeq are, step by step.
Flattens(f, ss) ==
    f = [i \in 1..Len(ss) |-> IF i = 1 THEN ss[i] ELSE f[i - 1] \o ss[i]]

LEMMA FlattensExists ==
    ASSUME NEW ss
    PROVE  \A n \in Nat : \E f :
              f = [i \in 1..n |-> IF i = 1 THEN ss[i] ELSE f[i - 1] \o ss[i]]
<1> DEFINE Upto(f, n) == f = [i \in 1..n |-> IF i = 1 THEN ss[i] ELSE f[i - 1] \o ss[i]]
           P == {n \in Nat : \E f : Upto(f, n)}
<1>1. 0 \in P
  <2>1. Upto(<<>>, 0)
    OBVIOUS
  <2>2. QED
    BY <2>1
<1>2. ASSUME NEW n \in Nat, n \in P
      PROVE  n + 1 \in P
  <2>1. PICK f : Upto(f, n)
    BY <1>2
  <2> DEFINE g == [i \in 1..(n + 1) |->
                      IF i = 1 THEN ss[i] ELSE f[i - 1] \o ss[i]]
  <2>2. \A i \in 1..n : f[i] = IF i = 1 THEN ss[i] ELSE f[i - 1] \o ss[i]
    BY <2>1
  <2>3. \A i \in 1..(n + 1) : g[i] = IF i = 1 THEN ss[i] ELSE f[i - 1] \o ss[i]
    OBVIOUS
  <2>4. \A i \in 1..(n + 1) : i # 1 => i - 1 \in 1..n /\ i - 1 \in 1..(n + 1)
    OBVIOUS
  <2>5. \A i \in 1..(n + 1) : i # 1 => g[i - 1] = f[i - 1]
    <3> HIDE DEF g
    <3>1. \A i \in 1..n : i \in 1..(n + 1)
      OBVIOUS
    <3>2. \A i \in 1..n : g[i] = f[i]
      BY <2>2, <2>3, <3>1
    <3>3. QED
      BY <2>4, <3>2
  <2>6. g = [i \in 1..(n + 1) |-> IF i = 1 THEN ss[i] ELSE g[i - 1] \o ss[i]]
    BY <2>5
  <2> HIDE DEF g
  <2>7. Upto(g, n + 1)
    BY <2>6
  <2> HIDE DEF Upto
  <2>8. QED
    BY <2>7
<1>3. Nat \subseteq P
  <2> HIDE DEF P
  <2>1. QED
    BY <1>1, <1>2, SetInduction
<1>4. QED
  BY <1>3

LEMMA FlattenIs ==
    ASSUME NEW ss, Len(ss) \in Nat, Len(ss) # 0
    PROVE  \E f : Flattens(f, ss) /\ FlattenSeq(ss) = f[Len(ss)]
<1> DEFINE f == CHOOSE f : f = [i \in 1..Len(ss) |-> IF i = 1 THEN ss[i] ELSE f[i - 1] \o ss[i]]
<1>1. f = [i \in 1..Len(ss) |-> IF i = 1 THEN ss[i] ELSE f[i - 1] \o ss[i]]
  BY FlattensExists
<1>2. FlattenSeq(ss) = f[Len(ss)]
  BY DEF FlattenSeq
<1>3. QED
  BY <1>1, <1>2 DEF Flattens

LEMMA FlattenEmpty == FlattenSeq(<<>>) = <<>>
BY DEF FlattenSeq

\* One sequence more: FlattenSeq puts it at the end.
LEMMA FlattenAppend ==
    ASSUME NEW S, NEW ss \in Seq(Seq(S)), NEW t \in Seq(S)
    PROVE  FlattenSeq(Append(ss, t)) = FlattenSeq(ss) \o t
<1> DEFINE n == Len(ss)
           new == Append(ss, t)
<1>1. /\ n \in Nat /\ Len(new) = n + 1 /\ new[n + 1] = t
      /\ \A i \in 1..n : new[i] = ss[i]
  OBVIOUS
<1> HIDE DEF new
<1>2. PICK g : Flattens(g, new) /\ FlattenSeq(new) = g[n + 1]
  BY <1>1, FlattenIs
<1>3. CASE n = 0
  <2>1. ss = <<>> /\ g[n + 1] = t
    BY <1>1, <1>2, <1>3, EmptySeq DEF Flattens
  <2>2. QED
    BY <1>2, <2>1, FlattenEmpty, ConcatEmptySeq DEF new
<1>4. CASE n # 0
  <2>1. PICK f : Flattens(f, ss) /\ FlattenSeq(ss) = f[n]
    BY <1>1, <1>4, FlattenIs
  <2> DEFINE P == {m \in Nat : m \in 1..n => g[m] = f[m]}
  <2>2. 0 \in P
    OBVIOUS
  <2>3. ASSUME NEW m \in Nat, m \in P
        PROVE  m + 1 \in P
    <3> SUFFICES ASSUME m + 1 \in 1..n PROVE g[m + 1] = f[m + 1]
      OBVIOUS
    <3>1. m + 1 \in 1..(n + 1) /\ new[m + 1] = ss[m + 1] /\ (m + 1) - 1 = m
      BY <1>1
    <3>2. g[m + 1] = IF m + 1 = 1 THEN new[m + 1] ELSE g[m] \o new[m + 1]
      BY <1>1, <1>2, <3>1 DEF Flattens
    <3>3. f[m + 1] = IF m + 1 = 1 THEN ss[m + 1] ELSE f[m] \o ss[m + 1]
      BY <2>1, <3>1 DEF Flattens
    <3>4. m + 1 # 1 => g[m] = f[m]
      BY <2>3
    <3>5. QED
      BY <3>1, <3>2, <3>3, <3>4
  <2>4. g[n] = f[n]
    <3>1. Nat \subseteq P
      <4> HIDE DEF P
      <4>1. QED
        BY <2>2, <2>3, SetInduction
    <3>2. QED
      BY <1>1, <1>4, <3>1
  <2>5. g[n + 1] = g[n] \o t
    <3>1. n + 1 \in 1..(n + 1) /\ n + 1 # 1 /\ (n + 1) - 1 = n
      BY <1>1, <1>4
    <3>2. QED
      BY <1>1, <1>2, <3>1 DEF Flattens
  <2>6. QED
    BY <1>2, <2>1, <2>4, <2>5 DEF new
<1>5. QED
  BY <1>3, <1>4

LEMMA FirstOnes ==
    ASSUME NEW S, NEW s \in Seq(S), NEW m \in 0..Len(s)
    PROVE  /\ SubSeq(s, 1, m) \in Seq(S) /\ Len(SubSeq(s, 1, m)) = m
           /\ SubSeq(s, 1, 0) = <<>> /\ SubSeq(s, 1, Len(s)) = s
           /\ m < Len(s) => /\ s[m + 1] \in S
                            /\ SubSeq(s, 1, m + 1) = Append(SubSeq(s, 1, m), s[m + 1])
<1>1. /\ SubSeq(s, 1, m) \in Seq(S) /\ Len(SubSeq(s, 1, m)) = m
  BY SubSeqProperties
<1>2. SubSeq(s, 1, 0) = <<>> /\ SubSeq(s, 1, Len(s)) = s
  BY SubSeqFull, SubSeqEmpty
<1>3. ASSUME m < Len(s)
      PROVE  s[m + 1] \in S /\ SubSeq(s, 1, m + 1) = Append(SubSeq(s, 1, m), s[m + 1])
  <2>1. s[m + 1] \in S /\ m + 1 \in 1..Len(s) /\ (m + 1) - 1 = m
    BY <1>3
  <2>2. 1 \in 1..Len(s) /\ m + 1 \in 1..Len(s)
    BY <1>3
  <2>3. SubSeq(s, 1, m + 1) = SubSeq(s, 1, (m + 1) - 1) \o <<s[m + 1]>>
    BY <2>2, SubSeqRecursiveSecond
  <2>4. QED
    BY <1>1, <2>1, <2>3, AppendIsConcat
<1>4. QED
  BY <1>1, <1>2, <1>3

\* q is the elements of J, each once.
Enumerates(q, J) ==
    /\ q \in Seq(J)
    /\ \A j \in J : \E k \in 1..Len(q) : q[k] = j
    /\ \A k, l \in 1..Len(q) : q[k] = q[l] => k = l

LEMMA EnumEmpty == Enumerates(<<>>, {})
BY DEF Enumerates

LEMMA EnumOne == ASSUME NEW j PROVE Enumerates(<<j>>, {j})
BY DEF Enumerates

LEMMA EnumConcat ==
    ASSUME NEW q, NEW J, Enumerates(q, J), NEW r, NEW K, Enumerates(r, K),
           J \cap K = {}
    PROVE  Enumerates(q \o r, J \cup K)
<1> DEFINE U == J \cup K
           s == q \o r
           m == Len(q)
           n == Len(r)
<1>1. q \in Seq(J) /\ r \in Seq(K) /\ q \in Seq(U) /\ r \in Seq(U) /\ m \in Nat /\ n \in Nat
  BY DEF Enumerates
<1>2. /\ s \in Seq(U) /\ Len(s) = m + n
      /\ \A i \in 1..(m + n) : s[i] = IF i <= m THEN q[i] ELSE r[i - m]
  BY <1>1, ConcatProperties
<1> HIDE DEF s
<1>3. \A i \in 1..(m + n) : i <= m => i \in 1..m /\ s[i] = q[i] /\ s[i] \in J
  BY <1>1, <1>2
<1>4. \A i \in 1..(m + n) : i > m => i - m \in 1..n /\ s[i] = r[i - m] /\ s[i] \in K
  BY <1>1, <1>2
<1>5. ASSUME NEW j \in U
      PROVE  \E k \in 1..Len(s) : s[k] = j
  <2>1. CASE j \in J
    <3>1. PICK k \in 1..m : q[k] = j
      BY <2>1 DEF Enumerates
    <3>2. k \in 1..(m + n) /\ s[k] = j
      BY <1>1, <1>2, <3>1
    <3>3. QED
      BY <1>2, <3>2
  <2>2. CASE j \in K
    <3>1. PICK k \in 1..n : r[k] = j
      BY <2>2 DEF Enumerates
    <3>2. k + m \in 1..(m + n) /\ k + m > m /\ (k + m) - m = k
      BY <1>1, <3>1
    <3>3. QED
      BY <1>2, <1>4, <3>1, <3>2
  <2>3. QED
    BY <2>1, <2>2
<1>6. ASSUME NEW k \in 1..(m + n), NEW l \in 1..(m + n), s[k] = s[l]
      PROVE  k = l
  <2>1. CASE k <= m /\ l <= m
    BY <1>3, <1>6, <2>1 DEF Enumerates
  <2>2. CASE k > m /\ l > m
    <3> DEFINE x == k - m
               y == l - m
    <3>1. /\ x \in 1..n /\ r[x] = s[k] /\ y \in 1..n /\ r[y] = s[l]
          /\ k = m + x /\ l = m + y
      BY <1>1, <1>4, <2>2
    <3> HIDE DEF x, y
    <3>2. \A i, j \in 1..n : r[i] = r[j] => i = j
      BY DEF Enumerates
    <3>3. x = y
      BY <1>6, <3>1, <3>2
    <3>4. QED
      BY <3>1, <3>3
  <2>3. CASE (k <= m /\ l > m) \/ (k > m /\ l <= m)
    BY <1>3, <1>4, <1>6, <2>3
  <2>4. QED
    BY <1>1, <2>1, <2>2, <2>3
<1>7. QED
  BY <1>2, <1>5, <1>6 DEF Enumerates, s

\* The concatenation of enumerations of disjoint sets enumerates their union.
LEMMA EnumFlatten ==
    ASSUME NEW n \in Nat, NEW ss, ss = [i \in 1..n |-> ss[i]], NEW J,
           NEW S, S = UNION {J[i] : i \in 1..n},
           \A i \in 1..n : Enumerates(ss[i], J[i]),
           \A i, j \in 1..n : i # j => J[i] \cap J[j] = {}
    PROVE  Enumerates(FlattenSeq(ss), S)
<1> DEFINE Part(m) == UNION {J[i] : i \in 1..m}
           P == {m \in Nat : m <= n => Enumerates(FlattenSeq(SubSeq(ss, 1, m)), Part(m))}
<1>0. ss \in Seq(Seq(S)) /\ Len(ss) = n
  <2>1. ASSUME NEW i \in 1..n
        PROVE  ss[i] \in Seq(S)
    <3>1. ss[i] \in Seq(J[i]) /\ J[i] \subseteq S
      BY DEF Enumerates
    <3>2. QED
      BY <3>1
  <2>2. ss \in [1..n -> Seq(S)]
    BY <2>1
  <2>3. QED
    BY <2>2
<1>1. 0 \in P
  <2>1. SubSeq(ss, 1, 0) = <<>> /\ Part(0) = {}
    BY <1>0, FirstOnes
  <2>2. QED
    BY <2>1, FlattenEmpty, EnumEmpty
<1>2. ASSUME NEW m \in Nat, m \in P
      PROVE  m + 1 \in P
  <2> SUFFICES ASSUME m + 1 <= n
               PROVE  Enumerates(FlattenSeq(SubSeq(ss, 1, m + 1)), Part(m + 1))
    OBVIOUS
  <2>1. m \in 0..n /\ m < n /\ m + 1 \in 1..n
    BY <1>0
  <2>2. /\ SubSeq(ss, 1, m) \in Seq(Seq(S)) /\ ss[m + 1] \in Seq(S)
        /\ SubSeq(ss, 1, m + 1) = Append(SubSeq(ss, 1, m), ss[m + 1])
    <3>1. m \in 0..Len(ss) /\ m < Len(ss)
      BY <1>0, <2>1
    <3>2. ss \in Seq(Seq(S))
      BY <1>0
    <3> HIDE DEF P, Part
    <3>3. QED
      BY <3>1, <3>2, FirstOnes
  <2>3. FlattenSeq(SubSeq(ss, 1, m + 1)) = FlattenSeq(SubSeq(ss, 1, m)) \o ss[m + 1]
    BY <2>2, FlattenAppend
  <2>4. Enumerates(FlattenSeq(SubSeq(ss, 1, m)), Part(m))
    BY <1>2, <2>1
  <2>5. Enumerates(ss[m + 1], J[m + 1])
    BY <2>1
  <2>6. Part(m) \cap J[m + 1] = {}
    <3>1. \A i \in 1..m : i \in 1..n /\ i # m + 1
      BY <1>0, <2>1
    <3>2. \A i \in 1..m : J[i] \cap J[m + 1] = {}
      BY <2>1, <3>1
    <3>3. QED
      BY <3>2
  <2>7. Part(m + 1) = Part(m) \cup J[m + 1]
    BY <2>1
  <2> DEFINE q == FlattenSeq(SubSeq(ss, 1, m))
             A == Part(m)
  <2>8. Enumerates(q \o ss[m + 1], A \cup J[m + 1])
    <3>1. Enumerates(q, A) /\ A \cap J[m + 1] = {}
      BY <2>4, <2>6
    <3> HIDE DEF q, A
    <3>2. QED
      BY <2>5, <3>1, EnumConcat
  <2>9. QED
    BY <2>3, <2>7, <2>8
<1>3. n \in P
  <2> HIDE DEF P
  <2>1. QED
    BY <1>0, <1>1, <1>2, SetInduction
<1>4. Enumerates(FlattenSeq(SubSeq(ss, 1, n)), S)
  BY <1>3
<1>5. SubSeq(ss, 1, n) = ss
  BY <1>0, SubSeqFull
<1>6. QED
  BY <1>4, <1>5

\* InOrder enumerates its set.
LEMMA InOrderEnum ==
    ASSUME NEW I, I \subseteq Nat, IsFiniteSet(I)
    PROVE  Enumerates(InOrder(I), I)
<1> DEFINE n == Cardinality(I)
           Below(i) == {j \in I : j <= i}
           rank == [i \in I |-> Cardinality(Below(i))]
           q == InOrder(I)
<1>1. n \in Nat /\ IsFiniteSet(1..n) /\ Cardinality(1..n) = n
  BY FS_CardinalityType, FS_Interval
<1>2. ASSUME NEW i \in I
      PROVE  IsFiniteSet(Below(i)) /\ Cardinality(Below(i)) \in 1..n
  <2>1. Below(i) \subseteq I /\ i \in Below(i)
    OBVIOUS
  <2>2. IsFiniteSet(Below(i)) /\ Cardinality(Below(i)) <= n
    BY <2>1, FS_Subset
  <2>3. Cardinality(Below(i)) \in Nat /\ Cardinality(Below(i)) # 0
    BY <2>1, <2>2, FS_CardinalityType, FS_EmptySet
  <2>4. QED
    BY <1>1, <2>2, <2>3
<1>3. rank \in [I -> 1..n]
  BY <1>2
<1>4. ASSUME NEW i \in I, NEW j \in I, rank[i] = rank[j]
      PROVE  i = j
  <2>1. ASSUME NEW a \in I, NEW b \in I, rank[a] = rank[b], a < b
        PROVE  FALSE
    <3>0. a \in Nat /\ b \in Nat /\ a < b
      BY <2>1
    <3>1. Below(a) \subseteq Below(b) /\ b \in Below(b) /\ b \notin Below(a)
      <4> HIDE DEF rank
      <4>1. \A c \in I : c \in Nat
        OBVIOUS
      <4>2. ASSUME NEW c \in Below(a)
            PROVE  c \in Below(b)
        <5>1. c \in I /\ c \in Nat /\ c <= a
          BY <4>1
        <5>2. c <= b
          BY <3>0, <5>1
        <5>3. QED
          BY <5>1, <5>2
      <4>3. b \in Below(b) /\ b \notin Below(a)
        BY <3>0
      <4>4. QED
        BY <4>2, <4>3
    <3>2. Cardinality(Below(b)) = Cardinality(Below(a))
      BY <2>1
    <3> HIDE DEF Below
    <3>3. Below(b) = Below(a)
      BY <1>2, <3>1, <3>2, FS_Subset
    <3>4. QED
      BY <3>1, <3>3
  <2>2. i \in Nat /\ j \in Nat
    OBVIOUS
  <2>3. ~(i < j) /\ ~(j < i)
    BY <1>4, <2>1
  <2>4. QED
    BY <2>2, <2>3
<1>5. \A k \in 1..n : \E i \in I : rank[i] = k
  <2>1. rank \in Injection(I, 1..n)
    BY <1>3, <1>4 DEF Injection, IsInjective
  <2>2. rank \in Surjection(I, 1..n)
    BY <1>1, <2>1, FS_Injection
  <2>3. QED
    BY <2>2 DEF Surjection
<1>6. \A k \in 1..n : q[k] = CHOOSE i \in I : Cardinality(Below(i)) = k
  BY DEF InOrder
<1>7. \A k \in 1..n : q[k] \in I /\ rank[q[k]] = k
  <2>1. \A k \in 1..n : \E i \in I : Cardinality(Below(i)) = k
    BY <1>5
  <2> HIDE DEF q, Below
  <2>2. \A k \in 1..n : q[k] \in I /\ Cardinality(Below(q[k])) = k
    BY <1>6, <2>1
  <2>3. QED
    BY <2>2
<1>8. q \in Seq(I) /\ Len(q) = n
  <2>1. \A k \in 1..n : (CHOOSE i \in I : Cardinality(Below(i)) = k) \in I
    BY <1>6, <1>7
  <2>2. q \in [1..n -> I]
    BY <2>1 DEF InOrder
  <2> HIDE DEF q, rank
  <2>3. QED
    BY <1>1, <2>2
<1> HIDE DEF q, rank
<1>9. \A i \in I : rank[i] \in 1..n /\ q[rank[i]] = i
  BY <1>3, <1>4, <1>7
<1>10. QED
  BY <1>7, <1>8, <1>9 DEF Enumerates, q

----------------------------------------------------------------------------
(* The list of a page *)

\* Distinct elements, each in one form at most.
PageOK(p) ==
    /\ p \in Seq(Element)
    /\ \A j, k \in 1..Len(p) : p[j].node = p[k].node => j = k
    /\ \A k \in 1..Len(p) : \A m, n \in p[k].inside : m = n

LEMMA Positions ==
    ASSUME NEW p \in Seq(Element), NEW I, I \subseteq 1..Len(p)
    PROVE  /\ Len(p) \in Nat /\ DOMAIN p = 1..Len(p)
           /\ I \subseteq Nat /\ IsFiniteSet(I) /\ Enumerates(InOrder(I), I)
<1>1. Len(p) \in Nat /\ DOMAIN p = 1..Len(p)
  OBVIOUS
<1>2. I \subseteq Nat /\ IsFiniteSet(I)
  <2>1. IsFiniteSet(1..Len(p)) /\ 1..Len(p) \subseteq Nat
    BY <1>1, FS_Interval, 1 \in Int, Len(p) \in Int
  <2>2. I \in SUBSET (1..Len(p))
    OBVIOUS
  <2>3. QED
    BY <2>1, <2>2, FS_Subset
<1>3. QED
  BY <1>1, <1>2, InOrderEnum

LEMMA TaggedEnum ==
    ASSUME NEW p \in Seq(Element), NEW I, I \subseteq 1..Len(p), NEW tag
    PROVE  Enumerates(Tagged(p, I, tag), {k \in I : p[k].tag = tag})
<1>1. {k \in I : p[k].tag = tag} \subseteq 1..Len(p)
  OBVIOUS
<1>2. QED
  BY <1>1, Positions DEF Tagged

LEMMA FieldsEnum ==
    ASSUME NEW p \in Seq(Element), NEW I, I \subseteq 1..Len(p)
    PROVE  Enumerates(Fields(p, I), {k \in I : IsField(p[k])})
<1> DEFINE ss == [k \in DOMAIN FieldTags |-> Tagged(p, I, FieldTags[k])]
           J == [k \in 1..3 |-> {i \in I : p[i].tag = FieldTags[k]}]
<1>1. /\ DOMAIN FieldTags = 1..3
      /\ FieldTags[1] = "input" /\ FieldTags[2] = "textarea" /\ FieldTags[3] = "select"
  BY DEF FieldTags
<1>2. ss = [k \in 1..3 |-> ss[k]]
  BY <1>1
<1>3. ASSUME NEW k \in 1..3
      PROVE  Enumerates(ss[k], J[k])
  <2> DEFINE tag == FieldTags[k]
  <2>1. /\ ss[k] = Tagged(p, I, tag)
        /\ J[k] = {i \in I : p[i].tag = tag}
    BY <1>1
  <2> HIDE DEF ss, J, tag
  <2>2. Enumerates(Tagged(p, I, tag), {i \in I : p[i].tag = tag})
    BY TaggedEnum
  <2>3. QED
    BY <2>1, <2>2
<1>4. \A k, l \in 1..3 : k # l => FieldTags[k] # FieldTags[l]
  <2>1. \A k \in 1..3 : k = 1 \/ k = 2 \/ k = 3
    OBVIOUS
  <2>2. QED
    BY <1>1, <2>1
<1>5. \A k, l \in 1..3 : k # l => J[k] \cap J[l] = {}
  BY <1>4
<1> DEFINE S == {k \in I : IsField(p[k])}
<1>6. S = UNION {J[k] : k \in 1..3}
  BY <1>1 DEF IsField
<1>7. FlattenSeq(ss) = Fields(p, I)
  BY DEF Fields
<1>8. Enumerates(FlattenSeq(ss), S)
  <2> DEFINE n == 3
  <2> HIDE DEF ss, J, S
  <2>1. /\ n \in Nat
        /\ \A k \in 1..n : Enumerates(ss[k], J[k])
    BY <1>3
  <2>2. /\ ss = [k \in 1..n |-> ss[k]]
        /\ S = UNION {J[k] : k \in 1..n}
        /\ \A k, l \in 1..n : k # l => J[k] \cap J[l] = {}
    BY <1>2, <1>5, <1>6
  <2> HIDE DEF n
  <2>3. QED
    BY <2>1, <2>2, EnumFlatten, Zenon
<1>9. QED
  BY <1>7, <1>8

FormsOf(p) == {k \in 1..Len(p) : p[k].tag = "form"}

FieldsOf(p) == {k \in 1..Len(p) : IsField(p[k])}

\* The fields of a form.
InForms(p) == {k \in FieldsOf(p) : \E f \in FormsOf(p) : p[f].node \in p[k].inside}

LEMMA NoFieldTag ==
    ASSUME NEW e, IsField(e)
    PROVE  e.tag \in {"input", "textarea", "select"}
BY DEF IsField, FieldTags

LEMMA FormsEnum ==
    ASSUME NEW p, PageOK(p)
    PROVE  Enumerates(FormsAndFields(p), FormsOf(p) \cup InForms(p))
<1> DEFINE forms == Tagged(p, DOMAIN p, "form")
           n == Len(forms)
           Own(k) == {i \in Within(p, p[forms[k]].node) : IsField(p[i])}
           ss == [k \in DOMAIN forms |-> <<forms[k]>> \o Fields(p, Within(p, p[forms[k]].node))]
           J == [k \in 1..n |-> {forms[k]} \cup Own(k)]
<1>1. p \in Seq(Element) /\ Len(p) \in Nat /\ DOMAIN p = 1..Len(p)
  BY DEF PageOK
<1>2. Enumerates(forms, FormsOf(p))
  BY <1>1, TaggedEnum DEF FormsOf
<1> HIDE DEF forms
<1>3. /\ n \in Nat /\ DOMAIN forms = 1..n
      /\ \A k \in 1..n : forms[k] \in FormsOf(p) /\ forms[k] \in 1..Len(p)
      /\ \A f \in FormsOf(p) : \E k \in 1..n : forms[k] = f
      /\ \A k, l \in 1..n : forms[k] = forms[l] => k = l
  BY <1>2 DEF Enumerates, FormsOf
<1>4. ASSUME NEW k \in 1..n
      PROVE  Enumerates(ss[k], J[k])
  <2> DEFINE W == Within(p, p[forms[k]].node)
  <2>1. W \subseteq 1..Len(p)
    BY <1>1 DEF Within
  <2>2. Enumerates(Fields(p, W), Own(k))
    BY <1>1, <2>1, FieldsEnum
  <2>3. Enumerates(<<forms[k]>>, {forms[k]})
    BY EnumOne
  <2>4. {forms[k]} \cap Own(k) = {}
    BY <1>3, NoFieldTag DEF FormsOf
  <2>5. ss[k] = <<forms[k]>> \o Fields(p, W) /\ J[k] = {forms[k]} \cup Own(k)
    BY <1>3
  <2> HIDE DEF ss, J, Own, W
  <2>6. QED
    BY <2>2, <2>3, <2>4, <2>5, EnumConcat
<1>5. ASSUME NEW k \in 1..n, NEW l \in 1..n, k # l
      PROVE  J[k] \cap J[l] = {}
  <2>1. forms[k] # forms[l]
    BY <1>3, <1>5
  <2>2. forms[k] \notin Own(l) /\ forms[l] \notin Own(k)
    BY <1>3, NoFieldTag DEF FormsOf
  <2>3. Own(k) \cap Own(l) = {}
    <3> SUFFICES ASSUME NEW i \in Own(k), i \in Own(l) PROVE FALSE
      OBVIOUS
    <3>1. i \in 1..Len(p) /\ p[forms[k]].node \in p[i].inside /\ p[forms[l]].node \in p[i].inside
      BY <1>1 DEF Within
    <3>2. p[forms[k]].node = p[forms[l]].node
      BY <3>1 DEF PageOK
    <3>3. QED
      BY <1>3, <2>1, <3>2 DEF PageOK
  <2> HIDE DEF Own
  <2>4. QED
    BY <2>1, <2>2, <2>3
<1> DEFINE S == FormsOf(p) \cup InForms(p)
<1>6. S = UNION {J[k] : k \in 1..n}
  <2>1. ASSUME NEW k \in 1..n
        PROVE  Own(k) \subseteq InForms(p)
    BY <1>1, <1>3 DEF Within, InForms, FieldsOf
  <2>2. ASSUME NEW i \in InForms(p)
        PROVE  \E k \in 1..n : i \in Own(k)
    <3>1. PICK f \in FormsOf(p) : p[f].node \in p[i].inside
      BY DEF InForms
    <3>2. PICK k \in 1..n : forms[k] = f
      BY <1>3
    <3>3. i \in 1..Len(p) /\ IsField(p[i])
      BY DEF InForms, FieldsOf
    <3>4. QED
      BY <1>1, <3>1, <3>2, <3>3 DEF Within
  <2>3. \A k \in 1..n : J[k] = {forms[k]} \cup Own(k)
    OBVIOUS
  <2> HIDE DEF Own, J
  <2>4. S \subseteq UNION {J[k] : k \in 1..n}
    BY <1>3, <2>2, <2>3
  <2>5. UNION {J[k] : k \in 1..n} \subseteq S
    BY <1>3, <2>1, <2>3
  <2>6. QED
    BY <2>4, <2>5
<1>7. ss = [k \in 1..n |-> ss[k]]
  BY <1>3
<1>8. FlattenSeq(ss) = FormsAndFields(p)
  BY DEF FormsAndFields, forms
<1>9. Enumerates(FlattenSeq(ss), S)
  <2> HIDE DEF ss, J, S
  <2>1. QED
    BY <1>3, <1>4, <1>5, <1>6, <1>7, EnumFlatten
<1>10. QED
  BY <1>8, <1>9

LEMMA StraysEnum ==
    ASSUME NEW p, PageOK(p)
    PROVE  Enumerates(Strays(p), FieldsOf(p) \ InForms(p))
<1> DEFINE q == FormsAndFields(p)
           L == FormsOf(p) \cup InForms(p)
           listed == {p[q[k]].node : k \in DOMAIN q}
           I == {k \in DOMAIN p : p[k].node \notin listed}
<1>1. p \in Seq(Element) /\ DOMAIN p = 1..Len(p)
  BY DEF PageOK
<1>2. Enumerates(q, L)
  BY FormsEnum
<1>3. L \subseteq 1..Len(p)
  BY DEF FormsOf, InForms, FieldsOf
<1>4. \A k \in 1..Len(p) : p[k].node \in listed <=> k \in L
  <2> HIDE DEF q, L
  <2>1. /\ DOMAIN q = 1..Len(q)
        /\ \A k \in 1..Len(q) : q[k] \in L
        /\ \A j \in L : \E k \in 1..Len(q) : q[k] = j
    BY <1>2 DEF Enumerates
  <2>2. ASSUME NEW k \in 1..Len(p), p[k].node \in listed
        PROVE  k \in L
    <3>1. PICK j \in 1..Len(q) : p[k].node = p[q[j]].node
      BY <2>1, <2>2
    <3>2. q[j] \in L /\ q[j] \in 1..Len(p)
      BY <1>3, <2>1
    <3>3. QED
      BY <3>1, <3>2 DEF PageOK
  <2>3. ASSUME NEW k \in L
        PROVE  p[k].node \in listed
    BY <2>1
  <2>4. QED
    BY <2>2, <2>3
<1>5. {k \in I : IsField(p[k])} = FieldsOf(p) \ InForms(p)
  <2>1. \A k \in FieldsOf(p) : k \notin FormsOf(p)
    BY NoFieldTag DEF FieldsOf, FormsOf
  <2>2. QED
    BY <1>1, <1>4, <2>1 DEF FieldsOf, InForms
<1>6. I \subseteq 1..Len(p)
  BY <1>1
<1>7. Strays(p) = Fields(p, I)
  BY DEF Strays
<1> HIDE DEF I
<1>8. QED
  BY <1>1, <1>5, <1>6, <1>7, FieldsEnum

InteractiveOf(p) == {k \in 1..Len(p) : IsInteractive(p[k])}

\* One numbering for every element a model can act on.
LEMMA InteractiveEnum ==
    ASSUME NEW p, PageOK(p)
    PROVE  Enumerates(Interactive(p), InteractiveOf(p))
<1> DEFINE F == FormsOf(p) \cup InForms(p)
           S == FieldsOf(p) \ InForms(p)
           A == {k \in DOMAIN p : p[k].tag = "a" /\ p[k].href}
           B == {k \in DOMAIN p : p[k].tag = "button"}
<1>1. p \in Seq(Element) /\ DOMAIN p = 1..Len(p)
  BY DEF PageOK
<1>2. Enumerates(FormsAndFields(p), F) /\ Enumerates(Strays(p), S)
  BY FormsEnum, StraysEnum
<1>3. Enumerates(Links(p), A) /\ Enumerates(Tagged(p, DOMAIN p, "button"), B)
  BY <1>1, Positions, TaggedEnum DEF Links
<1>4. /\ \A k \in FieldsOf(p) : p[k].tag \in {"input", "textarea", "select"}
      /\ \A k \in FormsOf(p) : p[k].tag = "form"
      /\ InForms(p) \subseteq FieldsOf(p)
      /\ \A k \in A : p[k].tag = "a"
      /\ \A k \in B : p[k].tag = "button"
  BY NoFieldTag DEF FieldsOf, FormsOf, InForms
<1>5. F \cap S = {} /\ (F \cup S) \cap A = {} /\ (F \cup S \cup A) \cap B = {}
  BY <1>4
<1>6. F \cup S \cup A \cup B = InteractiveOf(p)
  BY <1>1, <1>4 DEF InteractiveOf, IsInteractive, FieldsOf, FormsOf
<1> HIDE DEF F, S, A, B
<1>7. Enumerates(FormsAndFields(p) \o Strays(p), F \cup S)
  BY <1>2, <1>5, EnumConcat
<1>8. Enumerates(FormsAndFields(p) \o Strays(p) \o Links(p), F \cup S \cup A)
  BY <1>3, <1>5, <1>7, EnumConcat
<1>9. Enumerates(Interactive(p), F \cup S \cup A \cup B)
  BY <1>3, <1>5, <1>8, EnumConcat DEF Interactive
<1>10. QED
  BY <1>6, <1>9

LEMMA ListingIs ==
    ASSUME NEW p, PageOK(p)
    PROVE  LET q == Interactive(p)
           IN  /\ Len(q) \in Nat /\ Len(q) <= Len(p)
               /\ Listing(p) \in Seq([node : Nodes, selector : {UniqueSelector(p, p[k]) : k \in 1..Len(p)}])
               /\ Len(Listing(p)) = Len(q) /\ DOMAIN Listing(p) = 1..Len(q)
               /\ \A k \in 1..Len(q) :
                     /\ q[k] \in 1..Len(p) /\ IsInteractive(p[q[k]])
                     /\ Listing(p)[k].node = p[q[k]].node
                     /\ Listing(p)[k].selector = UniqueSelector(p, p[q[k]])
<1> DEFINE q == Interactive(p)
           T == [node : Nodes, selector : {UniqueSelector(p, p[k]) : k \in 1..Len(p)}]
<1>1. Enumerates(q, InteractiveOf(p)) /\ p \in Seq(Element)
  BY InteractiveEnum DEF PageOK
<1>2. /\ q \in Seq(InteractiveOf(p)) /\ Len(q) \in Nat /\ DOMAIN q = 1..Len(q)
      /\ \A k \in 1..Len(q) : q[k] \in 1..Len(p) /\ IsInteractive(p[q[k]])
  BY <1>1 DEF Enumerates, InteractiveOf
<1>3. Len(q) <= Len(p)
  <2>1. q \in Injection(1..Len(q), 1..Len(p))
    BY <1>1, <1>2 DEF Enumerates, Injection, IsInjective
  <2>2. Len(p) \in Nat /\ \A n \in Nat : IsFiniteSet(1..n) /\ Cardinality(1..n) = n
    <3>1. Len(p) \in Nat
      BY <1>1
    <3>2. ASSUME NEW n \in Nat
          PROVE  IsFiniteSet(1..n) /\ Cardinality(1..n) = n
      BY FS_Interval, 1 \in Int, n \in Int
    <3>3. QED
      BY <3>1, <3>2
  <2>3. QED
    BY <1>2, <2>1, <2>2, FS_Injection
<1>4. Listing(p) = [k \in 1..Len(q) |->
                     [node |-> p[q[k]].node, selector |-> UniqueSelector(p, p[q[k]])]]
  BY <1>2 DEF Listing
<1> HIDE DEF q
<1>5. \A k \in 1..Len(q) :
         [node |-> p[q[k]].node, selector |-> UniqueSelector(p, p[q[k]])] \in T
  <2> TAKE k \in 1..Len(q)
  <2>1. q[k] \in 1..Len(p) /\ p[q[k]] \in Element
    BY <1>1, <1>2
  <2>2. p[q[k]].node \in Nodes
    BY <2>1 DEF Element
  <2>3. QED
    BY <2>1, <2>2
<1>6. Listing(p) \in Seq(T) /\ Len(Listing(p)) = Len(q) /\ DOMAIN Listing(p) = 1..Len(q)
  <2> HIDE DEF T
  <2>1. QED
    BY <1>2, <1>4, <1>5
<1>7. QED
  BY <1>2, <1>3, <1>4, <1>6 DEF q

\* The list holds each interactive element once and nothing else.
LEMMA ListingEach == ASSUME NEW p, PageOK(p) PROVE ListsEach(p, Listing(p))
<1> DEFINE q == Interactive(p)
           list == Listing(p)
<1>1. Enumerates(q, InteractiveOf(p)) /\ DOMAIN p = 1..Len(p)
  BY InteractiveEnum DEF PageOK
<1>2. /\ DOMAIN list = 1..Len(q)
      /\ \A k \in 1..Len(q) : q[k] \in 1..Len(p) /\ list[k].node = p[q[k]].node
  BY ListingIs
<1> HIDE DEF q, list
<1>3. ASSUME NEW i \in 1..Len(p)
      PROVE  Occurrences(list, p[i].node) = IF IsInteractive(p[i]) THEN 1 ELSE 0
  <2> DEFINE At == {k \in DOMAIN list : list[k].node = p[i].node}
  <2>1. At = {k \in 1..Len(q) : q[k] = i}
    BY <1>2 DEF PageOK
  <2>2. CASE IsInteractive(p[i])
    <3>1. i \in InteractiveOf(p)
      BY <2>2 DEF InteractiveOf
    <3>2. PICK k \in 1..Len(q) : q[k] = i
      BY <1>1, <3>1 DEF Enumerates
    <3>3. At = {k}
      <4>1. \A l \in 1..Len(q) : q[l] = q[k] => l = k
        BY <1>1 DEF Enumerates
      <4> HIDE DEF At
      <4>2. QED
        BY <2>1, <3>2, <4>1
    <3>4. QED
      BY <2>2, <3>3, FS_Singleton DEF Occurrences
  <2>3. CASE ~IsInteractive(p[i])
    <3>1. \A k \in 1..Len(q) : q[k] \in InteractiveOf(p)
      BY <1>1 DEF Enumerates
    <3>2. At = {}
      BY <2>1, <2>3, <3>1 DEF InteractiveOf
    <3>3. QED
      BY <2>3, <3>2, FS_EmptySet DEF Occurrences
  <2>4. QED
    BY <2>2, <2>3
<1>4. QED
  BY <1>1, <1>3 DEF ListsEach, list

----------------------------------------------------------------------------
(* What a selector leads to *)

LEMMA FunctionIsSeq ==
    ASSUME NEW S, NEW n \in Nat, NEW f \in [1..n -> S]
    PROVE  f \in Seq(S) /\ Len(f) = n /\ DOMAIN f = 1..n
OBVIOUS

\* The selector an element is listed with is one that it matches.
LEMMA OwnSelectorMatches ==
    ASSUME NEW p, NEW e \in Element
    PROVE  Matches(UniqueSelector(p, e), e)
<1> DEFINE all == Candidates(e)
           good == {k \in DOMAIN all : all[k].is # Absent /\ IsUnique(p, all[k])}
           plain == [k \in 1..5 |->
                       IF Strategies[k] = "tag" THEN Selector("tag", e.tag)
                       ELSE Selector(Strategies[k], e.attr[Strategies[k]])]
           n == Len(e.classes)
           ofClass == [k \in 1..n |-> Selector("class", e.classes[k])]
           T == {s \in {plain[k] : k \in 1..5} \cup {ofClass[k] : k \in 1..n} :
                    Matches(s, e)}
<1>1. n \in Nat /\ DOMAIN e.classes = 1..n
  BY DEF Element
<1>2. /\ DOMAIN Strategies = 1..5
      /\ \A k \in 1..5 : Strategies[k] # "class"
  <2>1. \A k \in 1..5 : k = 1 \/ k = 2 \/ k = 3 \/ k = 4 \/ k = 5
    OBVIOUS
  <2>2. /\ DOMAIN Strategies = 1..5
        /\ Strategies[1] = "id" /\ Strategies[2] = "tag" /\ Strategies[3] = "name"
        /\ Strategies[4] = "data-testid" /\ Strategies[5] = "role"
    BY DEF Strategies
  <2>3. QED
    BY <2>1, <2>2
<1>3. ASSUME NEW k \in 1..5
      PROVE  plain[k] \in T
  <2>1. CASE Strategies[k] = "tag"
    <3>1. plain[k] = Selector("tag", e.tag)
      BY <2>1
    <3> HIDE DEF plain
    <3>2. Matches(plain[k], e)
      BY <3>1 DEF Matches, Selector
    <3>3. QED
      BY <3>2
  <2>2. CASE Strategies[k] # "tag"
    <3>1. plain[k] = Selector(Strategies[k], e.attr[Strategies[k]])
      BY <2>2
    <3> HIDE DEF plain
    <3>2. plain[k].by = Strategies[k] /\ plain[k].is = e.attr[Strategies[k]]
      BY <3>1 DEF Selector
    <3>3. Matches(plain[k], e)
      BY <1>2, <2>2, <3>2 DEF Matches
    <3>4. QED
      BY <3>3
  <2>3. QED
    BY <2>1, <2>2
<1>4. ASSUME NEW k \in 1..n
      PROVE  ofClass[k] \in T
  <2>1. ofClass[k] = Selector("class", e.classes[k])
    OBVIOUS
  <2> HIDE DEF ofClass
  <2>2. ofClass[k].by = "class" /\ ofClass[k].is = e.classes[k]
    BY <2>1 DEF Selector
  <2>3. Matches(ofClass[k], e)
    BY <1>1, <2>2 DEF Matches
  <2>4. QED
    BY <2>3
<1>5. all = plain \o ofClass
  BY <1>1, <1>2 DEF Candidates
<1>6. all \in Seq(T)
  <2> HIDE DEF T
  <2>1. plain \in [1..5 -> T] /\ ofClass \in [1..n -> T]
    BY <1>3, <1>4
  <2> HIDE DEF plain, ofClass, n
  <2>2. plain \in Seq(T) /\ ofClass \in Seq(T)
    BY <1>1, <2>1, FunctionIsSeq, 5 \in Nat
  <2> HIDE DEF all
  <2>3. QED
    BY <1>5, <2>2, ConcatProperties
<1>7. CASE good = {}
  BY <1>7 DEF UniqueSelector, Selector, Matches
<1>8. CASE good # {}
  <2>1. good \subseteq Nat
    <3> HIDE DEF all, T
    <3>1. QED
      BY <1>6
  <2>2. Min(good) \in good
    <3> HIDE DEF good
    <3>1. QED
      BY <1>8, <2>1, NatMinimum DEF Min
  <2>3. UniqueSelector(p, e) = all[Min(good)]
    BY <1>8 DEF UniqueSelector
  <2>4. Min(good) \in DOMAIN all
    BY <2>2
  <2>5. all[Min(good)] \in T
    <3> HIDE DEF all, T, good
    <3>1. QED
      BY <1>6, <2>4
  <2>6. QED
    BY <2>3, <2>5
<1>9. QED
  BY <1>7, <1>8

\* A sound selector leads to the element it was listed for.
LEMMA SoundSelector ==
    ASSUME NEW p \in Seq(Element), NEW k \in 1..Len(p),
           NEW sel, sel = UniqueSelector(p, p[k]), IsUnique(p, sel), Parsed(sel) = sel
    PROVE  QueryFirst(p, sel) = p[k].node
<1> DEFINE all == QueryAll(p, sel)
<1>1. k \in all
  BY OwnSelectorMatches DEF QueryAll
<1>2. all \subseteq 1..Len(p)
  BY DEF QueryAll
<1>3. IsFiniteSet(all)
  BY <1>2, Positions
<1>4. Cardinality(all) = 1
  BY DEF IsUnique
<1>5. all = {k}
  <2> HIDE DEF all
  <2>1. QED
    BY <1>1, <1>3, <1>4, FS_Singleton
<1>6. Min({k}) = k
  BY DEF Min
<1> HIDE DEF all
<1>7. QED
  BY <1>5, <1>6 DEF QueryFirst, all

----------------------------------------------------------------------------
(* Pages stay pages *)

PageFits(p) == PageOK(p) /\ Len(p) <= MaxLen

ListFits(list) == Len(list) \in 0..MaxLen /\ DOMAIN list = 1..Len(list)

LEMMA Bounds ==
    /\ MaxLen \in Nat /\ MaxLen # 0
    /\ \A n \in Nat : n <= MaxLen => 1..n \subseteq Nodes
    /\ IsFiniteSet(Nodes) => Cardinality(Nodes) > 2 * MaxLen
<1>1. /\ MaxLen \in Nat /\ MaxLen # 0 /\ 1..MaxLen \subseteq Nodes
      /\ IsFiniteSet(Nodes) => Cardinality(Nodes) > 2 * MaxLen
  <2>1. AgentAssumption!1 /\ AgentAssumption!4 /\ AgentAssumption!5
    BY AgentAssumption
  <2>2. QED
    BY <2>1
<1>2. ASSUME NEW n \in Nat, n <= MaxLen, NEW k \in 1..n
      PROVE  k \in Nodes
  <2>1. k \in 1..MaxLen
    BY <1>1, <1>2
  <2>2. QED
    BY <1>1, <2>1
<1>3. QED
  BY <1>1, <1>2

LEMMA UpTo == ASSUME NEW n \in Nat PROVE IsFiniteSet(1..n) /\ Cardinality(1..n) = n
BY FS_Interval, 1 \in Int, n \in Int

LEMMA ElementOf ==
    ASSUME NEW s \in Shapes \cup Added, NEW n \in Nodes, NEW I \in SUBSET Nodes
    PROVE  /\ s.inside \in BOOLEAN
           /\ Placed(s, n, I) \in Element
           /\ Placed(s, n, I).node = n /\ Placed(s, n, I).inside = I
BY AgentAssumption DEF Element, Placed

LEMMA OpenedFits == ASSUME NEW p \in Opened PROVE PageFits(p)
<1>0. PICK n \in 0..MaxLen : \E s \in [1..n -> Shapes] :
         p = [k \in 1..n |->
                Placed(s[k], k, IF s[k].inside THEN FormBefore(s, k) ELSE {})]
  BY DEF Opened
<1>1. PICK s \in [1..n -> Shapes] :
         p = [k \in 1..n |->
                Placed(s[k], k, IF s[k].inside THEN FormBefore(s, k) ELSE {})]
  BY <1>0
<1>2. n \in Nat /\ n <= MaxLen /\ 1..n \subseteq Nodes
  BY Bounds
<1>3. ASSUME NEW k \in 1..n
      PROVE  /\ p[k] \in Element /\ p[k].node = k
             /\ \A i, j \in p[k].inside : i = j
  <2> DEFINE I == IF s[k].inside THEN FormBefore(s, k) ELSE {}
  <2>1. FormBefore(s, k) \subseteq 1..n /\ \A i, j \in FormBefore(s, k) : i = j
    BY <1>2 DEF FormBefore
  <2>2. I \in SUBSET Nodes /\ \A i, j \in I : i = j
    BY <1>2, <2>1
  <2>3. p[k] = Placed(s[k], k, I)
    BY <1>1
  <2>4. s[k] \in Shapes \cup Added /\ k \in Nodes
    BY <1>2
  <2> HIDE DEF I
  <2>5. /\ Placed(s[k], k, I) \in Element
        /\ Placed(s[k], k, I).node = k /\ Placed(s[k], k, I).inside = I
    BY <2>2, <2>4, ElementOf
  <2>6. QED
    BY <2>2, <2>3, <2>5
<1>4. p \in Seq(Element) /\ Len(p) = n
  <2>1. p \in [1..n -> Element]
    BY <1>1, <1>3
  <2>2. QED
    BY <1>2, <2>1, FunctionIsSeq
<1>5. QED
  BY <1>2, <1>3, <1>4 DEF PageFits, PageOK

LEMMA WithOK ==
    ASSUME NEW p, PageOK(p), NEW k \in 0..Len(p), NEW e \in Element,
           e.inside = {}, e.node \notin NodesOf(p)
    PROVE  PageOK(With(p, k, e))
<1> DEFINE q == With(p, k, e)
           n == Len(p)
<1>1. p \in Seq(Element) /\ n \in Nat /\ DOMAIN p = 1..n
  BY DEF PageOK
<1> DEFINE a == SubSeq(p, 1, k)
           b == SubSeq(p, k + 1, n)
<1>a. /\ a \in Seq(Element) /\ Len(a) = k
      /\ \A i \in 1..k : a[i] = p[i]
  BY <1>1
<1>b. /\ b \in Seq(Element) /\ Len(b) = n - k
      /\ \A i \in 1..(n - k) : b[i] = p[k + i]
  <2>1. k \in Int /\ k + 1 \in Int /\ n \in Int /\ \A i \in (k + 1)..n : p[i] \in Element
    BY <1>1
  <2>2. /\ b \in Seq(Element) /\ Len(b) = IF k + 1 <= n THEN n - (k + 1) + 1 ELSE 0
        /\ \A i \in 1..(n - (k + 1) + 1) : b[i] = p[k + 1 + i - 1]
    BY <2>1, SubSeqProperties
  <2> HIDE DEF b
  <2>3. Len(b) = n - k /\ n - (k + 1) + 1 = n - k
    <3>1. k \in 0..n
      OBVIOUS
    <3> HIDE DEF n
    <3>2. /\ n - (k + 1) + 1 = n - k
          /\ k + 1 <= n \/ (~(k + 1 <= n) /\ n - k = 0)
      BY <1>1, <3>1
    <3>3. QED
      BY <2>2, <3>2
  <2>4. \A i \in 1..(n - k) : k + 1 + i - 1 = k + i
    BY <1>1, <2>1
  <2>5. QED
    BY <2>2, <2>3, <2>4
<1> DEFINE c == a \o <<e>>
<1>c. /\ c \in Seq(Element) /\ Len(c) = k + 1
      /\ \A i \in 1..k : c[i] = p[i]
      /\ c[k + 1] = e
  <2> HIDE DEF a, b
  <2>1. QED
    BY <1>1, <1>a
<1>d. q = c \o b
  BY DEF With
<1> HIDE DEF a, b, c, q
<1>e. /\ q \in Seq(Element) /\ Len(q) = (k + 1) + (n - k)
      /\ \A i \in 1..((k + 1) + (n - k)) : i <= k + 1 => q[i] = c[i]
      /\ \A i \in 1..(n - k) : q[(k + 1) + i] = b[i]
  <2>1. c \in Seq(Element) /\ b \in Seq(Element)
    BY <1>b, <1>c
  <2>2. /\ c \o b \in Seq(Element) /\ Len(c \o b) = Len(c) + Len(b)
        /\ \A i \in 1..(Len(c) + Len(b)) :
              (c \o b)[i] = IF i <= Len(c) THEN c[i] ELSE b[i - Len(c)]
    BY <2>1, ConcatProperties
  <2>3. /\ q \in Seq(Element) /\ Len(q) = (k + 1) + (n - k)
        /\ \A i \in 1..((k + 1) + (n - k)) :
              q[i] = IF i <= k + 1 THEN c[i] ELSE b[i - (k + 1)]
    BY <1>b, <1>c, <1>d, <2>2
  <2>4. ASSUME NEW i \in 1..(n - k)
        PROVE  q[(k + 1) + i] = b[i]
    <3>1. /\ (k + 1) + i \in 1..((k + 1) + (n - k)) /\ ~((k + 1) + i <= k + 1)
          /\ ((k + 1) + i) - (k + 1) = i
      BY <1>1
    <3>2. QED
      BY <2>3, <3>1
  <2>5. QED
    BY <2>3, <2>4
<1>f. Len(q) = n + 1 /\ k \in Nat /\ (k + 1) + (n - k) = n + 1
  BY <1>1, <1>e
<1>2. /\ q \in Seq(Element) /\ Len(q) = n + 1
      /\ \A i \in 1..(n + 1) :
            /\ i <= k => q[i] = p[i]
            /\ i = k + 1 => q[i] = e
            /\ i > k + 1 => q[i] = p[i - 1]
  <2>1. ASSUME NEW i \in 1..(n + 1), i <= k PROVE q[i] = p[i]
    <3>1. i \in 1..k /\ i <= k + 1
      BY <1>1, <1>f, <2>1
    <3>2. QED
      BY <1>c, <1>e, <1>f, <3>1
  <2>2. ASSUME NEW i \in 1..(n + 1), i = k + 1 PROVE q[i] = e
    <3>1. i <= k + 1
      BY <1>f, <2>2
    <3>2. QED
      BY <1>c, <1>e, <1>f, <2>2, <3>1
  <2>3. ASSUME NEW i \in 1..(n + 1), i > k + 1 PROVE q[i] = p[i - 1]
    <3> DEFINE j == i - (k + 1)
    <3>1. j \in 1..(n - k) /\ k + j = i - 1 /\ (k + 1) + j = i
      BY <1>1, <1>f, <2>3
    <3> HIDE DEF j
    <3>2. q[(k + 1) + j] = b[j] /\ b[j] = p[k + j]
      BY <1>b, <1>e, <3>1
    <3>3. QED
      BY <3>1, <3>2
  <2>4. QED
    BY <1>e, <1>f, <2>1, <2>2, <2>3
<1>3. \A j \in 1..n : p[j].node # e.node
  BY <1>1 DEF NodesOf
<1>4. ASSUME NEW i \in 1..(n + 1)
      PROVE  \/ i = k + 1 /\ q[i] = e
             \/ i <= k /\ i \in 1..n /\ q[i] = p[i]
             \/ i > k + 1 /\ i - 1 \in 1..n /\ q[i] = p[i - 1]
  BY <1>1, <1>2
<1>5. ASSUME NEW i \in 1..(n + 1), NEW j \in 1..(n + 1), q[i].node = q[j].node, i < j
      PROVE  FALSE
  BY <1>1, <1>3, <1>4, <1>5 DEF PageOK
<1>6. \A i \in 1..(n + 1) : \A u, w \in q[i].inside : u = w
  BY <1>4 DEF PageOK
<1>7. \A i, j \in 1..(n + 1) : q[i].node = q[j].node => i = j
  <2> SUFFICES ASSUME NEW i \in 1..(n + 1), NEW j \in 1..(n + 1), q[i].node = q[j].node
               PROVE  i = j
    OBVIOUS
  <2>1. ~(i < j) /\ ~(j < i)
    BY <1>5
  <2>2. QED
    BY <1>1, <2>1
<1>8. QED
  BY <1>2, <1>6, <1>7 DEF PageOK, q

LEMMA WithoutFits ==
    ASSUME NEW p, PageFits(p), NEW e
    PROVE  PageFits(Without(p, e))
<1> DEFINE I == {k \in DOMAIN p : p[k] # e /\ e.node \notin p[k].inside}
           kept == InOrder(I)
           n == Len(kept)
<1>1. p \in Seq(Element) /\ Len(p) \in Nat /\ DOMAIN p = 1..Len(p) /\ Len(p) <= MaxLen
  BY DEF PageFits, PageOK
<1>2. Enumerates(kept, I)
  BY <1>1, Positions
<1>3. /\ n \in Nat /\ DOMAIN kept = 1..n
      /\ \A k \in 1..n : kept[k] \in 1..Len(p)
      /\ \A k, l \in 1..n : kept[k] = kept[l] => k = l
  <2>1. I \subseteq 1..Len(p)
    BY <1>1
  <2> HIDE DEF kept, I
  <2>2. kept \in Seq(I) /\ \A k, l \in 1..n : kept[k] = kept[l] => k = l
    BY <1>2 DEF Enumerates
  <2>3. n \in Nat /\ DOMAIN kept = 1..n /\ \A k \in 1..n : kept[k] \in I
    BY <2>2
  <2>4. QED
    BY <2>1, <2>2, <2>3
<1>4. n <= Len(p)
  <2> HIDE DEF kept
  <2>1. kept \in Injection(1..n, 1..Len(p))
    BY <1>2, <1>3 DEF Enumerates, Injection, IsInjective
  <2>2. IsFiniteSet(1..Len(p)) /\ Cardinality(1..Len(p)) = Len(p) /\ Cardinality(1..n) = n
    BY <1>1, <1>3, UpTo
  <2>3. QED
    BY <1>3, <2>1, <2>2, FS_Injection
<1> DEFINE q == Without(p, e)
<1>5. q = [k \in 1..n |-> p[kept[k]]]
  BY <1>3 DEF Without
<1> HIDE DEF kept, q
<1>6. q \in Seq(Element) /\ Len(q) = n
  <2>1. q \in [1..n -> Element]
    BY <1>1, <1>3, <1>5
  <2>2. QED
    BY <1>3, <2>1, FunctionIsSeq
<1>7. \A k \in 1..n : q[k] = p[kept[k]]
  BY <1>5
<1>8. PageOK(q)
  <2>1. \A j, k \in 1..Len(p) : p[j].node = p[k].node => j = k
    BY DEF PageFits, PageOK
  <2>2. ASSUME NEW j \in 1..n, NEW k \in 1..n, q[j].node = q[k].node
        PROVE  j = k
    <3>1. kept[j] \in 1..Len(p) /\ kept[k] \in 1..Len(p)
      BY <1>3
    <3>2. p[kept[j]].node = p[kept[k]].node
      BY <1>7, <2>2
    <3>3. QED
      BY <1>3, <2>1, <3>1, <3>2
  <2>3. \A k \in 1..n : \A a, b \in q[k].inside : a = b
    <3>1. \A j \in 1..Len(p) : \A a, b \in p[j].inside : a = b
      BY DEF PageFits, PageOK
    <3>2. TAKE k \in 1..n
    <3>3. kept[k] \in 1..Len(p) /\ q[k] = p[kept[k]]
      BY <1>3, <1>7
    <3>4. QED
      BY <3>1, <3>3
  <2>4. QED
    BY <1>6, <2>2, <2>3 DEF PageOK
<1>9. QED
  BY <1>1, <1>3, <1>4, <1>6, <1>8, Bounds DEF PageFits, q

LEMMA NodesBound ==
    ASSUME NEW list, Len(list) \in Nat, DOMAIN list = 1..Len(list)
    PROVE  IsFiniteSet(NodesOf(list)) /\ Cardinality(NodesOf(list)) <= Len(list)
<1> DEFINE n == Len(list)
           f == [k \in 1..n |-> list[k].node]
<1>1. f \in Surjection(1..n, NodesOf(list))
  BY DEF NodesOf, Surjection
<1>2. IsFiniteSet(1..n) /\ Cardinality(1..n) = n
  BY UpTo
<1> HIDE DEF f
<1>3. QED
  BY <1>1, <1>2, FS_Surjection

\* The ids of nodes do not run out.
LEMMA FreshIs ==
    ASSUME NEW p, Len(p) \in 0..MaxLen, DOMAIN p = 1..Len(p), ListFits(shown)
    PROVE  Fresh(p) \in Nodes /\ Fresh(p) \notin NodesOf(p)
<1> DEFINE A == NodesOf(p)
           B == NodesOf(shown)
<1>1. MaxLen \in Nat /\ Len(p) \in Nat /\ Len(shown) \in Nat
      /\ Len(p) <= MaxLen /\ Len(shown) <= MaxLen
  BY Bounds DEF ListFits
<1>2. /\ IsFiniteSet(A) /\ Cardinality(A) <= MaxLen
      /\ IsFiniteSet(B) /\ Cardinality(B) <= MaxLen
      /\ Cardinality(A) \in Nat /\ Cardinality(B) \in Nat
  <2>1. IsFiniteSet(A) /\ Cardinality(A) <= Len(p)
    BY <1>1, NodesBound
  <2>2. IsFiniteSet(B) /\ Cardinality(B) <= Len(shown)
    BY <1>1, NodesBound DEF ListFits
  <2>3. QED
    BY <1>1, <2>1, <2>2, FS_CardinalityType
<1> HIDE DEF A, B
<1>3. IsFiniteSet(A \cup B) /\ Cardinality(A \cup B) <= 2 * MaxLen
  <2>1. /\ IsFiniteSet(A \cup B)
        /\ Cardinality(A \cup B) = Cardinality(A) + Cardinality(B) - Cardinality(A \cap B)
    BY <1>2, FS_Union
  <2>2. IsFiniteSet(A \cap B)
    BY <1>2, FS_Intersection
  <2>3. Cardinality(A \cap B) \in Nat
    BY <2>2, FS_CardinalityType
  <2>4. QED
    BY <1>1, <1>2, <2>1, <2>3
<1>4. \E n \in Nodes : n \notin A \cup B
  <2> SUFFICES ASSUME Nodes \subseteq A \cup B PROVE FALSE
    OBVIOUS
  <2>1. Nodes \in SUBSET (A \cup B)
    OBVIOUS
  <2>2. IsFiniteSet(Nodes) /\ Cardinality(Nodes) <= Cardinality(A \cup B)
    BY <1>3, <2>1, FS_Subset
  <2>3. Cardinality(Nodes) > 2 * MaxLen
    BY <2>2, Bounds
  <2>4. Cardinality(Nodes) \in Nat /\ Cardinality(A \cup B) \in Nat
    BY <1>3, <2>2, FS_CardinalityType
  <2>5. QED
    BY <1>1, <1>3, <2>2, <2>3, <2>4
<1>5. Fresh(p) \in Nodes /\ Fresh(p) \notin A \cup B
  BY <1>4 DEF Fresh, A, B
<1>6. QED
  BY <1>5 DEF A

LEMMA EditedFits ==
    ASSUME NEW p, PageFits(p), ListFits(shown), NEW q \in Edited(p)
    PROVE  PageFits(q)
<1>1. p \in Seq(Element) /\ Len(p) \in 0..MaxLen /\ DOMAIN p = 1..Len(p)
  BY Bounds DEF PageFits, PageOK
<1>2. CASE q = p
  BY <1>2
<1>3. CASE \E k \in DOMAIN p : q = Without(p, p[k])
  BY <1>3, WithoutFits
<1>4. ASSUME NEW k \in 0..Len(p), NEW s \in Added,
             q = With(p, k, Placed(s, Fresh(p), {})),
             Len(q) <= MaxLen
      PROVE  PageFits(q)
  <2> DEFINE e == Placed(s, Fresh(p), {})
  <2>1. Fresh(p) \in Nodes /\ Fresh(p) \notin NodesOf(p)
    BY <1>1, FreshIs
  <2>2. e \in Element /\ e.node = Fresh(p) /\ e.inside = {}
    BY <2>1, ElementOf
  <2>3. q = With(p, k, e)
    BY <1>4
  <2> HIDE DEF e
  <2>4. PageOK(q)
    BY <2>1, <2>2, <2>3, WithOK DEF PageFits
  <2>5. QED
    BY <1>4, <2>4 DEF PageFits
<1>5. QED
  BY <1>2, <1>3, <1>4 DEF Edited

LEMMA ElsewhereFits ==
    ASSUME ListFits(shown), NEW q \in Elsewhere
    PROVE  PageFits(q)
<1>1. CASE q = <<>>
  BY <1>1, Bounds DEF PageFits, PageOK
<1>2. ASSUME NEW s \in Added, q = <<Placed(s, Fresh(<<>>), {})>>
      PROVE  PageFits(q)
  <2> DEFINE e == Placed(s, Fresh(<<>>), {})
  <2>1. Len(<<>>) = 0 /\ DOMAIN <<>> = 1..0 /\ 0 \in 0..MaxLen
    BY Bounds
  <2>2. Fresh(<<>>) \in Nodes
    BY <2>1, FreshIs
  <2>3. e \in Element /\ e.inside = {}
    BY <2>2, ElementOf
  <2>4. q = <<e>>
    BY <1>2
  <2> HIDE DEF e
  <2>5. QED
    BY <2>3, <2>4, Bounds DEF PageFits, PageOK
<1>3. QED
  BY <1>1, <1>2 DEF Elsewhere

LEMMA ListingFits == ASSUME NEW p, PageFits(p) PROVE ListFits(Listing(p))
<1>1. Len(p) \in Nat /\ Len(p) <= MaxLen /\ PageOK(p)
  BY DEF PageFits, PageOK
<1>2. /\ Len(Listing(p)) \in Nat /\ Len(Listing(p)) <= Len(p)
      /\ DOMAIN Listing(p) = 1..Len(Listing(p))
  BY <1>1, ListingIs
<1>3. QED
  BY <1>1, <1>2, Bounds DEF ListFits

----------------------------------------------------------------------------
(* The agent's steps, as far as its invariants are concerned *)

\* A call that is not `done`.
Call ==
    /\ Calling
    /\ \E result \in {"ok", "error"} : Answered(result)
    /\ page' \in {page} \cup Edited(page) \cup Elsewhere
    /\ UNCHANGED <<shown, at, step, messages, answer, stop, verdicts>>

LEMMA ActOnCalls ==
    ASSUME NEW sel, ActOn(sel)
    PROVE  /\ \E result \in {"ok", "error"} : Answered(result)
           /\ page' \in {page} \cup Edited(page) \cup Elsewhere
BY DEF ActOn, Refused

LEMMA DispatchIs == ASSUME Dispatch PROVE Call \/ Done
<1>1. CASE ByIndex
  <2>1. PICK i \in Sent :
           IF Resolved(i) = {} THEN Refused ELSE \E s \in Resolved(i) : ActOn(s)
    BY <1>1 DEF ByIndex
  <2>2. CASE Resolved(i) = {}
    BY <1>1, <2>1, <2>2 DEF ByIndex, Refused, Call
  <2>3. CASE Resolved(i) # {}
    BY <1>1, <2>1, <2>3, ActOnCalls DEF ByIndex, Call
  <2>4. QED
    BY <2>2, <2>3
<1>2. CASE ByText
  <2>1. Refused \/ \E sel : ActOn(sel)
    BY <1>2 DEF ByText
  <2>2. QED
    BY <1>2, <2>1, ActOnCalls DEF ByText, Refused, Call
<1>3. CASE BySelector
  <2>1. \/ \E sel : ActOn(sel)
        \/ page' \in {page} \cup Elsewhere /\ \E result \in {"ok", "error"} : Answered(result)
    BY <1>3 DEF BySelector
  <2>2. QED
    BY <1>3, <2>1, ActOnCalls DEF BySelector, Call
<1>4. CASE Look
  BY <1>4 DEF Look, Call
<1>5. QED
  BY <1>1, <1>2, <1>3, <1>4 DEF Dispatch

\* Every step but the stutter of the end.
LEMMA AgentStep ==
    ASSUME AgentNext \/ Ended
    PROVE  \/ Open \/ \E success : NextJob(success)
           \/ OutOfSteps \/ Turn \/ NoCalls \/ Call \/ Done \/ Refresh
           \/ UNCHANGED agentVars
BY DispatchIs DEF AgentNext, Ended, HarnessError, Score

----------------------------------------------------------------------------
(* The page and the list *)

\* What the model was shown is the page, until the first call of a turn is done.
PageInv ==
    /\ PageFits(page) /\ ListFits(shown)
    /\ at = "ask" => shown = Listing(page)
    /\ at = "call" /\ blocks = <<>> => shown = Listing(page)

LEMMA NothingFits == PageFits(<<>>) /\ ListFits(<<>>)
BY Bounds DEF PageFits, PageOK, ListFits

LEMMA PageInvInit == ASSUME AgentInit PROVE PageInv
BY NothingFits DEF AgentInit, PageInv

LEMMA PageInvStep ==
    ASSUME PageInv, blocks \in Seq(Nat \X Nat), [AgentNext \/ Ended]_agentVars
    PROVE  PageInv'
<1>1. CASE Open
  <2>1. PageFits(page') /\ shown' = Listing(page') /\ at' = "ask"
    BY <1>1, OpenedFits DEF Open, Show
  <2>2. QED
    BY <2>1, ListingFits DEF PageInv
<1>2. CASE \E success : NextJob(success)
  BY <1>2, NothingFits DEF NextJob, PageInv
<1>3. CASE OutOfSteps \/ NoCalls
  BY <1>3 DEF OutOfSteps, NoCalls, session, PageInv
<1>4. CASE Turn
  BY <1>4 DEF Turn, session, PageInv
<1>5. CASE Call
  <2>1. PageFits(page')
    <3>1. /\ PageFits(page) /\ ListFits(shown)
          /\ page' \in {page} \cup Edited(page) \cup Elsewhere
      BY <1>5 DEF Call, PageInv
    <3>2. CASE page' \in Edited(page)
      BY <3>1, <3>2, EditedFits
    <3>3. CASE page' \in Elsewhere
      BY <3>1, <3>3, ElsewhereFits
    <3>4. QED
      BY <3>1, <3>2, <3>3
  <2>2. at' = "call" /\ shown' = shown
    BY <1>5 DEF Call, Calling
  <2>3. blocks' # <<>>
    <3>1. blocks' = Append(blocks, Head(calls))
      BY <1>5 DEF Call, Answered
    <3>2. Append(blocks, Head(calls)) # <<>>
      OBVIOUS
    <3>3. QED
      BY <3>1, <3>2
  <2>4. QED
    BY <2>1, <2>2, <2>3 DEF PageInv
<1>6. CASE Done
  BY <1>6 DEF Done, AfterDone, session, PageInv
<1>7. CASE Refresh
  BY <1>7, ListingFits DEF Refresh, Show, PageInv
<1>8. CASE UNCHANGED agentVars
  BY <1>8 DEF agentVars, PageInv
<1>9. QED
  BY <1>1, <1>2, <1>3, <1>4, <1>5, <1>6, <1>7, <1>8, AgentStep

----------------------------------------------------------------------------
(* The conversation *)

Ids == Nat \X Nat

AgentTypeOK ==
    /\ at \in {"open", "ask", "call", "over", "end"}
    /\ step \in Nat
    /\ calls \in Seq(Ids) /\ blocks \in Seq(Ids)
    /\ messages \in Seq([role : {"user", "assistant"}, ids : Seq(Ids)])
    /\ steps \in Seq([id : Ids, result : {"ok", "error", "done"}])

LEMMA NoIds == <<>> \in Seq(Ids)
OBVIOUS

\* The calls of a turn.
LEMMA TurnIs ==
    ASSUME AgentTypeOK, Turn
    PROVE  /\ calls' \in Seq(Ids) /\ calls' # <<>>
           /\ messages' = Append(messages, Message("assistant", calls'))
<1>1. PICK n \in 1..MaxCalls : /\ calls' = [k \in 1..n |-> <<step, k>>]
                               /\ messages' = Append(messages, Message("assistant", calls'))
  BY DEF Turn
<1>2. n \in Nat /\ n # 0
  BY AgentAssumption
<1>3. calls' \in [1..n -> Ids]
  BY <1>1, <1>2 DEF AgentTypeOK, Ids
<1>4. calls' \in Seq(Ids) /\ Len(calls') = n
  BY <1>2, <1>3, FunctionIsSeq
<1>5. QED
  BY <1>1, <1>2, <1>4

LEMMA AnsweredIs ==
    ASSUME AgentTypeOK, Calling, NEW result \in {"ok", "error", "done"}, Answered(result)
    PROVE  /\ Head(calls) \in Ids
           /\ steps' \in Seq([id : Ids, result : {"ok", "error", "done"}])
           /\ blocks' \in Seq(Ids) /\ calls' \in Seq(Ids)
           /\ blocks' \o calls' = blocks \o calls
           /\ calls = <<Head(calls)>> \o calls'
<1>1. calls \in Seq(Ids) /\ blocks \in Seq(Ids) /\ calls # <<>>
  BY DEF AgentTypeOK, Calling
<1>2. calls' = Tail(calls) /\ blocks' = Append(blocks, Head(calls))
      /\ steps' = Append(steps, [id |-> Head(calls), result |-> result])
  BY DEF Answered
<1>3. Head(calls) \in Ids /\ calls' \in Seq(Ids) /\ blocks' \in Seq(Ids)
  BY <1>1, <1>2
<1>4. steps' \in Seq([id : Ids, result : {"ok", "error", "done"}])
  BY <1>2, <1>3 DEF AgentTypeOK
<1>5. calls = <<Head(calls)>> \o calls'
  BY <1>1, <1>2
<1>6. blocks' = blocks \o <<Head(calls)>>
  BY <1>1, <1>2, <1>3
<1>7. (blocks \o <<Head(calls)>>) \o calls' = blocks \o (<<Head(calls)>> \o calls')
  BY <1>1, <1>3, ConcatAssociative
<1>8. QED
  BY <1>3, <1>4, <1>5, <1>6, <1>7

LEMMA AgentTypes ==
    ASSUME AgentTypeOK, [AgentNext \/ Ended]_agentVars
    PROVE  AgentTypeOK'
<1> DEFINE M == [role : {"user", "assistant"}, ids : Seq(Ids)]
<1>0. \A ids \in Seq(Ids) : Message("user", ids) \in M /\ Message("assistant", ids) \in M
  BY DEF Message
<1>a. \A m \in M : Append(messages, m) \in Seq(M)
  <2>1. messages \in Seq(M)
    BY DEF AgentTypeOK
  <2> HIDE DEF M
  <2>2. QED
    BY <2>1
<1>b. \A ids \in Seq(Ids) : /\ Append(messages, Message("user", ids)) \in Seq(M)
                            /\ Append(messages, Message("assistant", ids)) \in Seq(M)
  <2> HIDE DEF M
  <2>1. QED
    BY <1>0, <1>a
<1>1. CASE Open
  <2>1. messages' \in Seq(M)
    BY <1>1, <1>b, NoIds DEF Open, Show
  <2>2. QED
    BY <1>1, <2>1 DEF Open, turn, trajectory, AgentTypeOK
<1>2. CASE \E success : NextJob(success)
  BY <1>2 DEF NextJob, AgentTypeOK
<1>3. CASE OutOfSteps
  BY <1>3 DEF OutOfSteps, turn, trajectory, AgentTypeOK
<1>4. CASE Turn
  <2>1. calls' \in Seq(Ids) /\ messages' \in Seq(M)
    <3> HIDE DEF M
    <3>1. QED
      BY <1>4, <1>b, TurnIs
  <2>2. blocks' = <<>> /\ step' = step + 1 /\ at' = "call" /\ steps' = steps
    BY <1>4 DEF Turn, trajectory
  <2>3. QED
    BY <2>1, <2>2, NoIds DEF AgentTypeOK
<1>5. CASE NoCalls
  <2>1. messages' \in Seq(M)
    BY <1>5, <1>b, NoIds DEF NoCalls, AgentTypeOK
  <2>2. QED
    BY <1>5, <2>1 DEF NoCalls, turn, AgentTypeOK
<1>6. CASE Call
  BY <1>6, AnsweredIs DEF Call, AgentTypeOK
<1>7. CASE Done
  BY <1>7, AnsweredIs DEF Done, AfterDone, AgentTypeOK
<1>8. CASE Refresh
  BY <1>0, <1>8 DEF Refresh, Show, turn, trajectory, AgentTypeOK
<1>9. CASE UNCHANGED agentVars
  BY <1>9 DEF agentVars, AgentTypeOK
<1>10. QED
  BY <1>1, <1>2, <1>3, <1>4, <1>5, <1>6, <1>7, <1>8, <1>9, AgentStep

LEMMA Parity ==
    ASSUME NEW n \in Nat
    PROVE  n % 2 \in {0, 1} /\ (n % 2 = 1 <=> (n + 1) % 2 = 0)
OBVIOUS

\* Odd messages are the user's; each of the model's is answered by the next.
Alternates ==
    \A k \in 1..Len(messages) :
        IF k % 2 = 1 THEN messages[k].role = "user"
        ELSE /\ messages[k].role = "assistant"
             /\ k < Len(messages) => messages[k + 1].ids = messages[k].ids

\* While a turn is dispatched, the last message is answered as far as it is.
ConvInv ==
    /\ Alternates
    /\ at = "open" => messages = <<>> /\ calls = <<>>
    /\ at = "ask" => Len(messages) % 2 = 1 /\ calls = <<>>
    /\ at = "call" => /\ Len(messages) # 0 /\ Len(messages) % 2 = 0
                      /\ messages[Len(messages)].ids = blocks \o calls

LEMMA ConvInvInit == ASSUME AgentInit PROVE AgentTypeOK /\ ConvInv
BY NoIds DEF AgentInit, AgentTypeOK, ConvInv, Alternates

\* A message more: the model's after an odd number, the user's after an even one.
LEMMA Appended ==
    ASSUME AgentTypeOK, Alternates, NEW m,
           messages' = Append(messages, m),
           \/ Len(messages) % 2 = 1 /\ m.role = "assistant"
           \/ /\ Len(messages) % 2 = 0 /\ m.role = "user"
              /\ Len(messages) # 0 => m.ids = messages[Len(messages)].ids
    PROVE  /\ Alternates'
           /\ Len(messages') = Len(messages) + 1 /\ Len(messages') # 0
           /\ Len(messages') % 2 = 1 <=> Len(messages) % 2 = 0
           /\ messages'[Len(messages')] = m
<1> DEFINE n == Len(messages)
<1>1. n \in Nat /\ Len(messages') = n + 1 /\ messages'[n + 1] = m
      /\ \A k \in 1..n : messages'[k] = messages[k]
  BY DEF AgentTypeOK
<1>2. /\ n % 2 \in {0, 1} /\ (n + 1) % 2 \in {0, 1}
      /\ n % 2 = 1 <=> (n + 1) % 2 = 0
  BY <1>1, Parity
<1>3. ASSUME NEW k \in 1..(n + 1)
      PROVE  IF k % 2 = 1 THEN messages'[k].role = "user"
             ELSE /\ messages'[k].role = "assistant"
                  /\ k < n + 1 => messages'[k + 1].ids = messages'[k].ids
  <2>1. CASE k = n + 1
    BY <1>1, <1>2, <2>1
  <2>2. CASE k = n
    <3>1. k \in 1..n /\ messages'[k] = messages[k] /\ messages'[k + 1] = m
      BY <1>1, <2>2
    <3>2. IF k % 2 = 1 THEN messages[k].role = "user" ELSE messages[k].role = "assistant"
      BY <3>1 DEF Alternates
    <3>3. k % 2 # 1 => m.ids = messages[k].ids
      BY <1>1, <1>2, <2>2
    <3>4. QED
      BY <3>1, <3>2, <3>3
  <2>3. CASE k < n
    <3>1. k \in 1..n /\ k + 1 \in 1..n
      BY <1>1, <2>3
    <3>2. messages'[k] = messages[k] /\ messages'[k + 1] = messages[k + 1]
      BY <1>1, <3>1
    <3>3. QED
      BY <2>3, <3>1, <3>2 DEF Alternates
  <2>4. QED
    BY <1>1, <2>1, <2>2, <2>3
<1>4. (n + 1) % 2 = 1 <=> n % 2 = 0
  BY <1>2
<1>5. Alternates'
  BY <1>1, <1>3 DEF Alternates
<1>6. QED
  BY <1>1, <1>4, <1>5

LEMMA ConvInvStep ==
    ASSUME AgentTypeOK, ConvInv, [AgentNext \/ Ended]_agentVars
    PROVE  ConvInv'
<1>1. CASE Open
  <2>1. messages' = Append(messages, Message("user", <<>>)) /\ at' = "ask" /\ calls' = <<>>
    BY <1>1 DEF Open, Show, turn, ConvInv
  <2>2. Len(messages) = 0 /\ 0 % 2 = 0 /\ Alternates
    BY <1>1 DEF Open, ConvInv
  <2>3. QED
    BY <2>1, <2>2, Appended DEF Message, ConvInv
<1>2. CASE \E success : NextJob(success)
  BY <1>2 DEF NextJob, ConvInv, Alternates
<1>3. CASE OutOfSteps
  BY <1>3 DEF OutOfSteps, turn, ConvInv, Alternates
<1>4. CASE Turn
  <2>1. calls' \in Seq(Ids) /\ messages' = Append(messages, Message("assistant", calls'))
    BY <1>4, TurnIs
  <2>2. at' = "call" /\ blocks' = <<>> /\ Len(messages) % 2 = 1 /\ Alternates
    BY <1>4 DEF Turn, ConvInv
  <2>3. /\ Alternates' /\ Len(messages') # 0
        /\ Len(messages') % 2 # 1 /\ Len(messages') \in Nat
        /\ messages'[Len(messages')].ids = calls'
    BY <2>1, <2>2, Appended DEF Message, AgentTypeOK
  <2>4. Len(messages') % 2 = 0
    BY <2>3, Parity
  <2>5. blocks' \o calls' = calls'
    BY <2>1, <2>2
  <2>6. QED
    BY <2>2, <2>3, <2>4, <2>5 DEF ConvInv
<1>5. CASE NoCalls
  <2>1. at' = "over" /\ Len(messages) % 2 = 1 /\ Alternates
    BY <1>5 DEF NoCalls, ConvInv
  <2>2. CASE messages' = Append(messages, Message("assistant", <<>>))
    BY <2>1, <2>2, Appended DEF Message, ConvInv
  <2>3. CASE UNCHANGED messages
    BY <2>1, <2>3 DEF ConvInv, Alternates
  <2>4. QED
    BY <1>5, <2>2, <2>3 DEF NoCalls
<1>6. CASE Call
  <2>1. /\ at = "call" /\ at' = "call" /\ messages' = messages
        /\ blocks' \o calls' = blocks \o calls
    BY <1>6, AnsweredIs DEF Call, Calling
  <2>2. QED
    BY <2>1 DEF ConvInv, Alternates
<1>7. CASE Done
  BY <1>7 DEF Done, AfterDone, ConvInv, Alternates
<1>8. CASE Refresh
  <2>1. messages' = Append(messages, Message("user", blocks)) /\ at' = "ask" /\ calls' = <<>>
    BY <1>8 DEF Refresh, Show, turn
  <2>2. blocks \o calls = blocks
    BY <1>8 DEF Refresh, AgentTypeOK
  <2>3. /\ Len(messages) % 2 = 0 /\ Alternates
        /\ messages[Len(messages)].ids = blocks
    BY <1>8, <2>2 DEF Refresh, ConvInv
  <2>4. QED
    BY <2>1, <2>3, Appended DEF Message, ConvInv
<1>9. CASE UNCHANGED agentVars
  BY <1>9 DEF agentVars, ConvInv, Alternates
<1>10. QED
  BY <1>1, <1>2, <1>3, <1>4, <1>5, <1>6, <1>7, <1>8, <1>9, AgentStep

LEMMA ConversationFrom == ASSUME AgentTypeOK, ConvInv PROVE ConversationValid
<1> SUFFICES ASSUME at = "ask" PROVE ConversationValid
  BY DEF ConversationValid
<1> DEFINE n == Len(messages)
<1>1. n \in Nat /\ DOMAIN messages = 1..n
  BY DEF AgentTypeOK
<1>a. n % 2 = 1
  BY DEF ConvInv
<1>2. \A k \in 1..n : k % 2 # 1 => k < n
  BY <1>1, <1>a
<1>3. QED
  BY <1>1, <1>a, <1>2 DEF ConversationValid, ConvInv, Alternates

----------------------------------------------------------------------------
(* The trajectory *)

Made(m) == IF m.role = "assistant" THEN m.ids ELSE <<>>

\* CallIds of a conversation.
IdsIn(list) == FlattenSeq([k \in DOMAIN list |-> Made(list[k])])

LEMMA CallIdsIs == CallIds = IdsIn(messages)
BY DEF CallIds, IdsIn, Made

LEMMA IdsInAppend ==
    ASSUME NEW list \in Seq([role : {"user", "assistant"}, ids : Seq(Ids)]),
           NEW m \in [role : {"user", "assistant"}, ids : Seq(Ids)]
    PROVE  IdsIn(Append(list, m)) = IdsIn(list) \o Made(m)
<1> DEFINE n == Len(list)
           ss == [k \in 1..n |-> Made(list[k])]
           longer == Append(list, m)
<1>1. n \in Nat /\ DOMAIN list = 1..n
      /\ Len(longer) = n + 1 /\ DOMAIN longer = 1..(n + 1)
      /\ longer[n + 1] = m /\ \A k \in 1..n : longer[k] = list[k]
  OBVIOUS
<1>2. Made(m) \in Seq(Ids) /\ \A k \in 1..n : Made(list[k]) \in Seq(Ids)
  <2> DEFINE M == [role : {"user", "assistant"}, ids : Seq(Ids)]
  <2>1. \A x \in M : Made(x) \in Seq(Ids)
    BY NoIds DEF Made
  <2>2. m \in M /\ \A k \in 1..n : list[k] \in M
    <3> HIDE DEF M
    <3>1. list \in Seq(M) /\ m \in M
      BY DEF M
    <3>2. QED
      BY <3>1
  <2>3. QED
    BY <2>1, <2>2
<1>3. ss \in Seq(Seq(Ids)) /\ Len(ss) = n /\ DOMAIN ss = 1..n
  <2>1. ss \in [1..n -> Seq(Ids)]
    BY <1>2
  <2> HIDE DEF ss
  <2>2. QED
    BY <1>1, <2>1, FunctionIsSeq
<1>4. [k \in DOMAIN longer |-> Made(longer[k])] = Append(ss, Made(m))
  <2> DEFINE t == [k \in 1..(n + 1) |-> Made(longer[k])]
             u == Append(ss, Made(m))
  <2>1. \A k \in 1..n : t[k] = ss[k]
    BY <1>1
  <2>2. t[n + 1] = Made(m)
    BY <1>1
  <2>3. t \in Seq(Seq(Ids)) /\ Len(t) = n + 1
    <3>1. \A k \in 1..(n + 1) : Made(longer[k]) \in Seq(Ids)
      <4>1. \A k \in 1..(n + 1) : k \in 1..n \/ k = n + 1
        BY <1>1
      <4> HIDE DEF longer
      <4>2. QED
        BY <1>1, <1>2, <4>1
    <3>2. t \in [1..(n + 1) -> Seq(Ids)] /\ n + 1 \in Nat
      <4> HIDE DEF longer
      <4>1. QED
        BY <1>1, <3>1
    <3> HIDE DEF t
    <3>3. QED
      BY <3>2, FunctionIsSeq
  <2> HIDE DEF ss, t
  <2>4. u \in Seq(Seq(Ids)) /\ Len(u) = n + 1 /\ u[n + 1] = Made(m)
        /\ \A k \in 1..n : u[k] = ss[k]
    BY <1>2, <1>3
  <2> HIDE DEF u
  <2>5. \A k \in 1..(n + 1) : t[k] = u[k]
    <3>1. \A k \in 1..(n + 1) : k \in 1..n \/ k = n + 1
      BY <1>1
    <3>2. QED
      BY <2>1, <2>2, <2>4, <3>1
  <2>6. t = u
    BY <2>3, <2>4, <2>5
  <2>7. QED
    BY <1>1, <2>6 DEF t, u
<1>5. FlattenSeq(Append(ss, Made(m))) = FlattenSeq(ss) \o Made(m)
  <2> HIDE DEF ss
  <2>1. QED
    BY <1>2, <1>3, FlattenAppend
<1>6. IdsIn(list) = FlattenSeq(ss)
  BY <1>1 DEF IdsIn
<1> HIDE DEF ss
<1>7. QED
  BY <1>4, <1>5, <1>6 DEF IdsIn

StepIds(list) == [k \in DOMAIN list |-> list[k].id]

LEMMA StepIdsAppend ==
    ASSUME NEW R, NEW list \in Seq([id : Ids, result : R]), NEW s \in [id : Ids, result : R]
    PROVE  /\ StepIds(list) \in Seq(Ids)
           /\ StepIds(Append(list, s)) = StepIds(list) \o <<s.id>>
<1> DEFINE n == Len(list)
           longer == Append(list, s)
           t == StepIds(longer)
           old == StepIds(list)
           u == old \o <<s.id>>
<1>1. n \in Nat /\ DOMAIN list = 1..n
      /\ DOMAIN longer = 1..(n + 1) /\ longer[n + 1] = s
      /\ \A k \in 1..n : longer[k] = list[k]
  OBVIOUS
<1>2. s.id \in Ids /\ \A k \in 1..n : list[k].id \in Ids
  <2> DEFINE T == [id : Ids, result : R]
  <2>1. \A x \in T : x.id \in Ids
    OBVIOUS
  <2>2. s \in T /\ list \in Seq(T)
    OBVIOUS
  <2> HIDE DEF T
  <2>3. \A k \in 1..n : list[k] \in T
    BY <2>2
  <2>4. QED
    BY <2>1, <2>2, <2>3
<1>3. old \in [1..n -> Ids] /\ \A k \in 1..n : old[k] = list[k].id
  BY <1>1, <1>2 DEF StepIds
<1> HIDE DEF longer
<1>4. /\ t \in [1..(n + 1) -> Ids] /\ t[n + 1] = s.id
      /\ \A k \in 1..n : t[k] = list[k].id
  <2>1. \A k \in 1..(n + 1) : k \in 1..n \/ k = n + 1
    BY <1>1
  <2>2. \A k \in 1..(n + 1) : longer[k].id \in Ids
    BY <1>1, <1>2, <2>1
  <2>3. t = [k \in 1..(n + 1) |-> longer[k].id]
    BY <1>1 DEF StepIds
  <2>4. /\ n + 1 \in 1..(n + 1)
        /\ \A k \in 1..n : k \in 1..(n + 1)
    BY <1>1
  <2> HIDE DEF t
  <2>5. t \in [1..(n + 1) -> Ids]
    BY <2>2, <2>3
  <2>6. t[n + 1] = longer[n + 1].id /\ \A k \in 1..n : t[k] = longer[k].id
    BY <2>3, <2>4
  <2>7. QED
    BY <1>1, <2>5, <2>6
<1> HIDE DEF old, t
<1>5. old \in Seq(Ids) /\ Len(old) = n /\ t \in Seq(Ids) /\ Len(t) = n + 1
  <2>1. old \in Seq(Ids) /\ Len(old) = n
    BY <1>1, <1>3, FunctionIsSeq
  <2>2. n + 1 \in Nat
    BY <1>1
  <2>3. QED
    BY <1>4, <2>1, <2>2, FunctionIsSeq
<1>6. u \in Seq(Ids) /\ Len(u) = n + 1 /\ u[n + 1] = s.id
      /\ \A k \in 1..n : u[k] = old[k]
  BY <1>2, <1>5
<1> HIDE DEF u
<1>7. \A k \in 1..(n + 1) : t[k] = u[k]
  <2>1. \A k \in 1..(n + 1) : k \in 1..n \/ k = n + 1
    BY <1>1
  <2>2. QED
    BY <1>3, <1>4, <1>6, <2>1
<1>8. t = u
  BY <1>5, <1>6, <1>7
<1>9. QED
  BY <1>5, <1>8 DEF t, u, old, longer

LEMMA StepIdsType == ASSUME AgentTypeOK PROVE StepIds(steps) \in Seq(Ids)
<1>1. <<0, 0>> \in Ids
  BY DEF Ids
<1>2. [id |-> <<0, 0>>, result |-> "ok"] \in [id : Ids, result : {"ok", "error", "done"}]
  BY <1>1
<1>3. QED
  BY <1>2, StepIdsAppend DEF AgentTypeOK

TrajInv ==
    /\ StepIds(steps) \o calls = IdsIn(messages)
    /\ at \in {"open", "ask"} => calls = <<>>
    /\ (answer # NoAnswer) = (stop = "done")
    /\ \A k \in 1..Len(steps) : steps[k].result = "done" <=> stop = "done" /\ k = Len(steps)
    /\ stop = "done" => at = "over" /\ steps # <<>>

LEMMA NoneFlatten == StepIds(<<>>) \o <<>> = IdsIn(<<>>)
<1>1. \A s : s = <<>> => StepIds(s) = <<>> /\ [k \in DOMAIN s |-> Made(s[k])] = <<>>
  BY DEF StepIds
<1>2. StepIds(<<>>) = <<>> /\ IdsIn(<<>>) = FlattenSeq(<<>>)
  BY <1>1 DEF IdsIn
<1>3. <<>> \o <<>> = <<>>
  OBVIOUS
<1>4. QED
  BY <1>2, <1>3, FlattenEmpty

LEMMA TrajInvInit == ASSUME AgentInit PROVE TrajInv
BY NoneFlatten DEF AgentInit, TrajInv

\* A message without calls changes nothing.
LEMMA EmptyMessage ==
    ASSUME AgentTypeOK, TrajInv, NEW m \in [role : {"user", "assistant"}, ids : Seq(Ids)],
           Made(m) = <<>>
    PROVE  IdsIn(Append(messages, m)) = IdsIn(messages)
<1>1. StepIds(steps) \in Seq(Ids) /\ calls \in Seq(Ids)
  BY StepIdsType DEF AgentTypeOK
<1>2. IdsIn(messages) \in Seq(Ids)
  <2>1. StepIds(steps) \o calls \in Seq(Ids)
    BY <1>1, ConcatProperties
  <2>2. QED
    BY <2>1 DEF TrajInv
<1>3. IdsIn(messages) \o <<>> = IdsIn(messages)
  <2> DEFINE s == IdsIn(messages)
  <2> HIDE DEF s
  <2>1. s \in Seq(Ids)
    BY <1>2 DEF s
  <2>2. s \o <<>> = s
    BY <2>1, ConcatEmptySeq
  <2>3. QED
    BY <2>2 DEF s
<1>4. QED
  BY <1>3, IdsInAppend DEF AgentTypeOK

\* A call answered moves from the calls to the steps.
LEMMA AnsweredTrace ==
    ASSUME AgentTypeOK, Calling, NEW result \in {"ok", "error", "done"}, Answered(result)
    PROVE  /\ StepIds(steps') \o calls' = StepIds(steps) \o calls
           /\ Len(steps') = Len(steps) + 1
           /\ steps'[Len(steps')].result = result
           /\ \A k \in 1..Len(steps) : steps'[k] = steps[k]
<1> DEFINE R == {"ok", "error", "done"}
           new == [id |-> Head(calls), result |-> result]
<1>1. /\ Head(calls) \in Ids /\ calls' \in Seq(Ids)
      /\ calls = <<Head(calls)>> \o calls'
  BY AnsweredIs
<1>2. steps' = Append(steps, new) /\ steps \in Seq([id : Ids, result : R])
  BY DEF Answered, AgentTypeOK
<1>3. new \in [id : Ids, result : R] /\ new.id = Head(calls) /\ new.result = result
  BY <1>1
<1> HIDE DEF new, R
<1>4. /\ StepIds(steps) \in Seq(Ids)
      /\ StepIds(steps') = StepIds(steps) \o <<Head(calls)>>
  BY <1>2, <1>3, StepIdsAppend
<1>5. (StepIds(steps) \o <<Head(calls)>>) \o calls'
        = StepIds(steps) \o (<<Head(calls)>> \o calls')
  <2>1. <<Head(calls)>> \in Seq(Ids)
    BY <1>1
  <2>2. QED
    BY <1>1, <1>4, <2>1, ConcatAssociative
<1>6. /\ Len(steps') = Len(steps) + 1 /\ steps'[Len(steps')] = new
      /\ \A k \in 1..Len(steps) : steps'[k] = steps[k]
  BY <1>2, <1>3
<1>7. QED
  BY <1>1, <1>3, <1>4, <1>5, <1>6

LEMMA TrajInvStep ==
    ASSUME AgentTypeOK, TrajInv, [AgentNext \/ Ended]_agentVars
    PROVE  TrajInv'
<1>0. Len(steps) \in Nat
  BY DEF AgentTypeOK
<1> DEFINE M == [role : {"user", "assistant"}, ids : Seq(Ids)]
<1>a. ASSUME NEW ids \in Seq(Ids)
      PROVE  /\ Message("user", ids) \in M /\ Made(Message("user", ids)) = <<>>
             /\ Message("assistant", ids) \in M /\ Made(Message("assistant", ids)) = ids
  BY DEF Message, Made
<1> HIDE DEF M
<1>1. CASE Open
  <2>1. messages' = Append(messages, Message("user", <<>>))
    BY <1>1 DEF Open, Show
  <2>2. IdsIn(messages') = IdsIn(messages)
    BY <1>a, <2>1, NoIds, EmptyMessage DEF M
  <2>3. QED
    BY <1>1, <2>2 DEF Open, turn, trajectory, TrajInv
<1>2. CASE \E success : NextJob(success)
  BY <1>2, NoneFlatten DEF NextJob, TrajInv
<1>3. CASE OutOfSteps
  BY <1>3 DEF OutOfSteps, turn, trajectory, TrajInv
<1>4. CASE Turn
  <2>1. calls' \in Seq(Ids) /\ messages' = Append(messages, Message("assistant", calls'))
    BY <1>4, TurnIs
  <2>2. IdsIn(messages') = IdsIn(messages) \o calls'
    <3>1. Message("assistant", calls') \in M /\ Made(Message("assistant", calls')) = calls'
      BY <1>a, <2>1
    <3>2. QED
      BY <2>1, <3>1, IdsInAppend DEF AgentTypeOK, M
  <2>3. IdsIn(messages) = StepIds(steps)
    <3>1. StepIds(steps) \o <<>> = IdsIn(messages)
      BY <1>4 DEF Turn, TrajInv
    <3>2. StepIds(steps) \in Seq(Ids)
      BY StepIdsType
    <3> DEFINE s == StepIds(steps)
    <3> HIDE DEF s
    <3>3. s \o <<>> = s
      BY <3>2, ConcatEmptySeq DEF s
    <3>4. QED
      BY <3>1, <3>3 DEF s
  <2>4. QED
    BY <1>4, <2>2, <2>3 DEF Turn, trajectory, TrajInv
<1>5. CASE NoCalls
  <2>1. IdsIn(messages') = IdsIn(messages)
    <3> DEFINE m == Message("assistant", <<>>)
    <3>1. m \in M /\ Made(m) = <<>>
      BY <1>a, NoIds
    <3>2. messages' = Append(messages, m) \/ messages' = messages
      BY <1>5 DEF NoCalls
    <3> HIDE DEF m
    <3>3. IdsIn(Append(messages, m)) = IdsIn(messages)
      BY <3>1, EmptyMessage DEF M
    <3>4. QED
      BY <3>2, <3>3
  <2>2. stop # "done" /\ stop' # "done"
    BY <1>5 DEF NoCalls, TrajInv
  <2>3. QED
    BY <1>5, <2>1, <2>2 DEF NoCalls, turn, TrajInv
<1>6. CASE Call
  <2>1. PICK result \in {"ok", "error"} : Answered(result)
    BY <1>6 DEF Call
  <2>2. /\ StepIds(steps') \o calls' = StepIds(steps) \o calls
        /\ Len(steps') = Len(steps) + 1
        /\ steps'[Len(steps')].result = result
        /\ \A k \in 1..Len(steps) : steps'[k] = steps[k]
    BY <1>6, <2>1, AnsweredTrace DEF Call
  <2>3. stop # "done" /\ UNCHANGED <<at, messages, answer, stop>> /\ at = "call"
    BY <1>6 DEF Call, Calling, TrajInv
  <2>4. \A k \in 1..Len(steps') : steps'[k].result # "done"
    <3>1. \A k \in 1..Len(steps') : k \in 1..Len(steps) \/ k = Len(steps')
      BY <1>0, <2>2
    <3>2. \A k \in 1..Len(steps) : steps[k].result # "done"
      BY <2>3 DEF TrajInv
    <3>3. QED
      BY <2>2, <3>1, <3>2
  <2>5. QED
    BY <2>2, <2>3, <2>4 DEF TrajInv
<1>7. CASE Done
  <2>1. /\ StepIds(steps') \o calls' = StepIds(steps) \o calls
        /\ Len(steps') = Len(steps) + 1
        /\ steps'[Len(steps')].result = "done"
        /\ \A k \in 1..Len(steps) : steps'[k] = steps[k]
    BY <1>7, AnsweredTrace DEF Done
  <2>2. /\ stop # "done" /\ stop' = "done" /\ at' = "over" /\ messages' = messages
        /\ answer' \in Answers
    BY <1>7 DEF Done, AfterDone, Calling, TrajInv
  <2>3. answer' # NoAnswer
    BY <2>2, AgentAssumption DEF Answers
  <2>4. \A k \in 1..Len(steps') : steps'[k].result = "done" <=> k = Len(steps')
    <3>1. \A k \in 1..Len(steps') : k \in 1..Len(steps) \/ k = Len(steps')
      BY <1>0, <2>1
    <3>2. \A k \in 1..Len(steps) : steps[k].result # "done" /\ k # Len(steps')
      BY <1>0, <2>1, <2>2 DEF TrajInv
    <3>3. QED
      BY <2>1, <3>1, <3>2
  <2>5. steps' # <<>>
    BY <1>0, <2>1
  <2>6. QED
    BY <2>1, <2>2, <2>3, <2>4, <2>5 DEF TrajInv
<1>8. CASE Refresh
  <2>1. messages' = Append(messages, Message("user", blocks)) /\ blocks \in Seq(Ids)
    BY <1>8 DEF Refresh, Show, AgentTypeOK
  <2>2. IdsIn(messages') = IdsIn(messages)
    BY <1>a, <2>1, EmptyMessage DEF M
  <2>3. calls' = <<>> /\ calls = <<>>
    BY <1>8 DEF Refresh, turn
  <2>4. stop # "done"
    BY <1>8 DEF Refresh, TrajInv
  <2>5. QED
    BY <1>8, <2>2, <2>3, <2>4 DEF Refresh, trajectory, TrajInv
<1>9. CASE UNCHANGED agentVars
  BY <1>9 DEF agentVars, TrajInv
<1>10. QED
  BY <1>1, <1>2, <1>3, <1>4, <1>5, <1>6, <1>7, <1>8, <1>9, AgentStep

LEMMA TrajectoryFrom == ASSUME AgentTypeOK, TrajInv PROVE TrajectoryTrue
<1>1. DOMAIN steps = 1..Len(steps)
  BY DEF AgentTypeOK
<1>2. [k \in DOMAIN steps |-> steps[k].id] \o calls = CallIds
  BY CallIdsIs DEF TrajInv, StepIds
<1>3. \A k \in DOMAIN steps :
         steps[k].result = "done" <=> stop = "done" /\ k = Len(steps)
  BY <1>1 DEF TrajInv
<1>4. /\ (answer # NoAnswer) = (stop = "done")
      /\ stop = "done" => at = "over" /\ steps # <<>>
  BY DEF TrajInv
<1>5. QED
  BY <1>2, <1>3, <1>4 DEF TrajectoryTrue

----------------------------------------------------------------------------
(* The first call of a turn *)

\* What dispatching an index records.
Entries(i) == {shown[k] : k \in {k \in DOMAIN shown : k = i + 1}}

Hits(i) == {QueryFirst(page, s) : s \in Resolved(i)}

NamedBy(i) == IF Entries(i) = {} THEN NoNode ELSE (CHOOSE e \in Entries(i) : TRUE).node

HitBy(i) == IF Hits(i) = {} THEN NoNode ELSE CHOOSE n \in Hits(i) : TRUE

SureOf(i) ==
    \A e \in Entries(i) : IsUnique(page, e.selector) /\ Parsed(e.selector) = e.selector

\* When the model has seen this very page.
LEMMA IndexHit ==
    ASSUME PageFits(page), shown = Listing(page), NEW i \in Sent, i < IndexWidth
    PROVE  /\ NamedBy(i) = NoNode => HitBy(i) = NoNode
           /\ NamedBy(i) # NoNode /\ SureOf(i) => HitBy(i) = NamedBy(i)
<1> DEFINE q == Interactive(page)
<1>1. i \in Nat /\ IndexWidth \in Nat \ {0}
  BY AgentAssumption
<1>2. i % IndexWidth = i
  BY <1>1
<1>3. Resolved(i) = {shown[k].selector : k \in {k \in DOMAIN shown : k = i + 1}}
  BY <1>2 DEF Resolved, SelectorsForIndex
<1>4. CASE i + 1 \notin DOMAIN shown
  <2>1. Entries(i) = {} /\ Resolved(i) = {}
    BY <1>3, <1>4 DEF Entries
  <2>2. QED
    BY <2>1 DEF Hits, NamedBy, HitBy
<1>5. CASE i + 1 \in DOMAIN shown
  <2> DEFINE e == shown[i + 1]
             at1 == q[i + 1]
  <2>1. /\ PageOK(page) /\ page \in Seq(Element)
        /\ at1 \in 1..Len(page) /\ e.node = page[at1].node
        /\ e.selector = UniqueSelector(page, page[at1])
    BY <1>5, ListingIs DEF PageFits, PageOK
  <2>2. e.node # NoNode
    <3> HIDE DEF e, at1
    <3>1. page[at1] \in Element
      BY <2>1
    <3>2. page[at1].node \in Nodes
      BY <3>1 DEF Element
    <3>3. QED
      BY <2>1, <3>2, SnapshotAssumption
  <2>3. Entries(i) = {e} /\ Resolved(i) = {e.selector}
    BY <1>3, <1>5 DEF Entries
  <2> HIDE DEF e
  <2>4. Hits(i) = {QueryFirst(page, e.selector)}
    BY <2>3 DEF Hits
  <2>5. NamedBy(i) = e.node
    BY <2>3 DEF NamedBy
  <2>6. HitBy(i) = QueryFirst(page, e.selector)
    BY <2>4 DEF HitBy
  <2>7. ASSUME SureOf(i)
        PROVE  HitBy(i) = NamedBy(i)
    <3>1. IsUnique(page, e.selector) /\ Parsed(e.selector) = e.selector
      BY <2>3, <2>7 DEF SureOf
    <3>2. QueryFirst(page, e.selector) = page[at1].node
      BY <2>1, <3>1, SoundSelector
    <3>3. QED
      BY <2>1, <2>5, <2>6, <3>2
  <2>8. QED
    BY <2>2, <2>5, <2>7
<1>6. QED
  BY <1>4, <1>5

LEMMA NothingHits == ASSUME acted' = NothingActed PROVE FirstIndexActs'
BY DEF FirstIndexActs, NothingActed

LEMMA FirstIndexStep ==
    ASSUME PageInv, FirstIndexActs, [AgentNext \/ Ended]_agentVars
    PROVE  FirstIndexActs'
<1>1. CASE ByIndex
  <2>1. PICK i \in Sent :
           acted' = [first |-> IsFirst, sent |-> i, named |-> NamedBy(i),
                     sure |-> SureOf(i), hit |-> HitBy(i)]
    BY <1>1 DEF ByIndex, NamedBy, SureOf, HitBy, Entries, Hits
  <2>2. ASSUME blocks = <<>>, i < IndexWidth
        PROVE  /\ NamedBy(i) = NoNode => HitBy(i) = NoNode
               /\ NamedBy(i) # NoNode /\ SureOf(i) => HitBy(i) = NamedBy(i)
    <3>1. PageFits(page) /\ shown = Listing(page)
      BY <1>1, <2>2 DEF ByIndex, Calling, PageInv
    <3>2. QED
      BY <2>2, <3>1, IndexHit
  <2>3. QED
    BY <2>1, <2>2 DEF FirstIndexActs, IsFirst
<1>2. CASE \E success : NextJob(success)
  BY <1>2, NothingHits DEF NextJob
<1>3. CASE NoCalls \/ ByText \/ BySelector \/ Look \/ Done \/ Refresh
  BY <1>3, NothingHits DEF NoCalls, ByText, BySelector, Look, Done, Refresh
<1>4. CASE Open \/ OutOfSteps \/ Turn \/ UNCHANGED agentVars
  BY <1>4 DEF Open, OutOfSteps, Turn, agentVars, FirstIndexActs
<1>5. QED
  BY <1>1, <1>2, <1>3, <1>4
     DEF AgentNext, Ended, HarnessError, Score, Dispatch

----------------------------------------------------------------------------
(* Theorems about the agent *)

AgentInv == AgentTypeOK /\ PageInv /\ ConvInv /\ TrajInv /\ FirstIndexActs

\* The agent's inductive invariant: its conversation and trajectory, and what
\* the model has seen of the page, whatever the pages and the model's turns are.
THEOREM AgentHolds == AgentSpec => []AgentInv
<1>1. AgentInit => AgentInv
  BY PageInvInit, ConvInvInit, TrajInvInit
     DEF AgentInit, AgentInv, FirstIndexActs, NothingActed
<1>2. AgentInv /\ [AgentNext \/ Ended]_agentVars => AgentInv'
  <2> SUFFICES ASSUME AgentInv, [AgentNext \/ Ended]_agentVars PROVE AgentInv'
    OBVIOUS
  <2>1. /\ AgentTypeOK /\ PageInv /\ ConvInv /\ TrajInv /\ FirstIndexActs
        /\ blocks \in Seq(Nat \X Nat)
    BY DEF AgentInv, AgentTypeOK, Ids
  <2>2. AgentTypeOK' /\ PageInv'
    BY <2>1, AgentTypes, PageInvStep
  <2>3. ConvInv' /\ TrajInv'
    BY <2>1, ConvInvStep, TrajInvStep
  <2>4. FirstIndexActs'
    BY <2>1, FirstIndexStep
  <2>5. QED
    BY <2>2, <2>3, <2>4 DEF AgentInv
<1>3. QED
  BY <1>1, <1>2, PTL DEF AgentSpec

\* The list a model is shown names every element of the page it can act on,
\* once (PageSnapshot::from_document), for pages of any length and shape.
THEOREM ShownIsComplete == AgentSpec => []ListIsComplete
<1>1. AgentInv => ListIsComplete
  BY ListingEach DEF AgentInv, PageInv, PageFits, ListIsComplete
<1>2. QED
  BY <1>1, AgentHolds, PTL

\* The first index of a turn acts on the element shown under it, or is refused
\* (resolve_target).
THEOREM IndexIsHonoured == AgentSpec => []FirstIndexActs
<1>1. AgentInv => FirstIndexActs
  BY DEF AgentInv
<1>2. QED
  BY <1>1, AgentHolds, PTL

\* Each request to the model carries a conversation the API accepts, however many
\* turns and calls (run_task, with what dispatch makes of every failure).
THEOREM ConversationHolds == AgentSpec => []ConversationValid
<1>1. AgentInv => ConversationValid
  BY ConversationFrom DEF AgentInv
<1>2. QED
  BY <1>1, AgentHolds, PTL

\* The steps a judge scores are the calls of the conversation, in order, less
\* those never dispatched; there is an answer exactly after `done`.
THEOREM TrajectoryHolds == AgentSpec => []TrajectoryTrue
<1>1. AgentInv => TrajectoryTrue
  BY TrajectoryFrom DEF AgentInv
<1>2. QED
  BY <1>1, AgentHolds, PTL
============================================================================
