---------------------------- MODULE Scrape_proofs ----------------------------
(***************************************************************************)
(* Theorems about Scrape, for any list of URLs and any flags, and about    *)
(* the display of ScrapeTui beside it, for any list of distinct URLs.      *)
(***************************************************************************)
EXTENDS ScrapeTui, SequenceTheorems, FiniteSetTheorems, TLAPS

LEMMA LimitType == Limit \in Nat /\ Limit >= 1
BY ScrapeAssumption DEF Limit

LEMMA HostType == ASSUME NEW r \in Rows PROVE Host(r) \in Hosts \cup {NoHost}
BY ScrapeAssumption DEF Host

LEMMA EvType ==
    ASSUME NEW k \in Kinds, NEW r \in Rows, NEW n \in 0..(Retry + 1)
    PROVE  <<Ev(k, r, n)>> \in Seq(Event)
BY DEF Ev, Event

\* What a throttled row's host and semaphore are.
LEMMA ThrottledHost ==
    ASSUME NEW r \in Rows, Throttles(r)
    PROVE  Throttled /\ Host(r) \in Hosts
BY HostType DEF Throttles

\* How far each row is in its attempts.
AttemptInv ==
    /\ task = "starting" => pulled = 0
    /\ \A r \in Rows :
        /\ stage[r] \in {"queued", "ready", "limited", "granted"} =>
              tried[r] = 0 /\ retries[r] = 0
        /\ stage[r] \in {"fetching", "backoff", "done"} => tried[r] = retries[r] + 1
        /\ stage[r] = "backoff" => retries[r] < Retry
        /\ stage[r] = "done" /\ result[r] # "good" => retries[r] = Retry
        /\ r > pulled => stage[r] = "queued"

\* The queue of a host holds the rows that wait for it, each once, and only
\* when it has no permit left.
QueueInv ==
    /\ \A h \in Hosts : \A i \in 1..Len(queue[h]) :
          /\ stage[queue[h][i]] = "limited"
          /\ Throttles(queue[h][i])
          /\ Host(queue[h][i]) = h
    /\ \A h \in Hosts : \A i, j \in 1..Len(queue[h]) :
          queue[h][i] = queue[h][j] => i = j
    /\ \A r \in Rows : stage[r] = "limited" =>
          /\ Throttles(r)
          /\ \E i \in 1..Len(queue[Host(r)]) : queue[Host(r)][i] = r
    /\ \A h \in Hosts : queue[h] # <<>> => free[h] = 0

\* Every permit is free or held.
PermitInv ==
    Throttled => \A h \in Hosts : free[h] + Cardinality(Holders(h)) = Limit

FullInv == TypeOK /\ AttemptInv /\ QueueInv /\ PermitInv

LEMMA HoldersFinite == \A h : IsFiniteSet(Holders(h)) /\ Cardinality(Holders(h)) \in Nat
<1> TAKE h
<1>1. IsFiniteSet(Rows)
  BY FS_Interval, ScrapeAssumption DEF Rows
<1>2. IsFiniteSet(Holders(h))
  BY <1>1, FS_Subset DEF Holders
<1>3. QED
  BY <1>2, FS_CardinalityType

----------------------------------------------------------------------------
(* A row that ends *)

\* What hands over a permit: the first waiter takes it.
LEMMA HeirWaits ==
    ASSUME FullInv, NEW r \in Rows, NEW s \in Heirs(r)
    PROVE  /\ s \in Rows /\ stage[s] = "limited" /\ Throttles(s) /\ Host(s) = Host(r)
           /\ Host(r) \in Hosts /\ queue[Host(r)] # <<>>
           /\ s = queue[Host(r)][1] /\ Heirs(r) = {s}
<1>1. Host(r) \in Hosts /\ queue[Host(r)] # <<>> /\ s = Head(queue[Host(r)])
  BY ThrottledHost DEF Heirs
<1>2. queue[Host(r)] \in Seq(Rows)
  BY <1>1 DEF FullInv, TypeOK
<1>3. 1 \in 1..Len(queue[Host(r)]) /\ s = queue[Host(r)][1] /\ s \in Rows
  BY <1>1, <1>2
<1>4. QED
  BY <1>1, <1>3 DEF FullInv, QueueInv, Heirs

\* Where each row is after r has ended.
LEMMA LeaveStages ==
    ASSUME FullInv, NEW r \in Rows, stage[r] = "fetching", Leave(r)
    PROVE  /\ stage' \in [Rows -> Stages]
           /\ stage'[r] = "done"
           /\ \A s \in Heirs(r) : s # r /\ stage'[s] = "granted"
           /\ \A s \in Rows \ ({r} \cup Heirs(r)) :
                 \/ stage'[s] = stage[s] /\ s # pulled + 1
                 \/ stage[s] = "queued" /\ stage'[s] = "ready" /\ s = pulled + 1
           /\ pulled' = pulled \/ pulled' = pulled + 1
           /\ pulled' \in 0..NRows
           /\ pulled < NRows => pulled' = pulled + 1
<1>1. stage \in [Rows -> Stages] /\ pulled \in 0..NRows /\ NRows \in Nat
  BY ScrapeAssumption DEF FullInv, TypeOK
<1>2. stage' = [s \in Rows |->
                    IF s = r THEN "done"
                    ELSE IF s \in Heirs(r) THEN "granted"
                    ELSE IF s = pulled + 1 THEN "ready"
                    ELSE stage[s]]
  BY DEF Leave
<1>3. stage' \in [Rows -> Stages]
  BY <1>1, <1>2 DEF Stages
<1>4. \A s \in Heirs(r) : s \in Rows /\ s # r /\ stage'[s] = "granted"
  BY <1>2, HeirWaits
<1>5. \A s \in Rows : s = pulled + 1 => stage[s] = "queued"
  BY <1>1 DEF FullInv, AttemptInv, Rows
<1>6. \A s \in Rows \ ({r} \cup Heirs(r)) :
         \/ stage'[s] = stage[s] /\ s # pulled + 1
         \/ stage[s] = "queued" /\ stage'[s] = "ready" /\ s = pulled + 1
  BY <1>2, <1>5
<1>7. /\ pulled' = pulled \/ pulled' = pulled + 1
      /\ pulled' \in 0..NRows
      /\ pulled < NRows => pulled' = pulled + 1
  BY <1>1 DEF Leave
<1>8. QED
  BY <1>2, <1>3, <1>4, <1>6, <1>7

\* A host has a permit to give back while one of its rows holds one.
LEMMA HolderCounts ==
    ASSUME FullInv, NEW r \in Rows, Throttles(r), r \in Holders(Host(r))
    PROVE  Host(r) \in Hosts /\ free[Host(r)] \in Nat /\ free[Host(r)] < Limit
<1>1. Throttled /\ Host(r) \in Hosts
  BY ThrottledHost
<1>2. Cardinality(Holders(Host(r))) \in Nat /\ Cardinality(Holders(Host(r))) # 0
  BY HoldersFinite, FS_EmptySet
<1>3. free[Host(r)] \in 0..Limit
  BY <1>1 DEF FullInv, TypeOK
<1>4. free[Host(r)] + Cardinality(Holders(Host(r))) = Limit
  BY <1>1 DEF FullInv, PermitInv
<1>5. QED
  BY <1>1, <1>2, <1>3, <1>4, LimitType

\* A row's permit goes back to its semaphore or on to its heir.
LEMMA LeavePermits ==
    ASSUME FullInv, NEW r \in Rows, stage[r] = "fetching", Leave(r)
    PROVE  free' \in [Hosts -> 0..Limit] /\ PermitInv'
<1>1. free \in [Hosts -> 0..Limit] /\ Limit \in Nat
  BY LimitType DEF FullInv, TypeOK
<1>2. Throttles(r) => r \in Holders(Host(r))
  BY DEF Holders
<1>3. free' \in [Hosts -> 0..Limit]
  BY <1>1, <1>2, HolderCounts DEF Leave, Released
<1>4. ASSUME Throttled, NEW h \in Hosts
      PROVE  free'[h] + Cardinality(Holders(h)') = Limit
  <2>1. free[h] + Cardinality(Holders(h)) = Limit /\ free[h] \in Nat
    BY <1>1, <1>4 DEF FullInv, PermitInv
  <2>2. IsFiniteSet(Holders(h)) /\ Cardinality(Holders(h)) \in Nat
    BY HoldersFinite
  <2>3. CASE ~Throttles(r) \/ h # Host(r)
    <3>1. Holders(h)' = Holders(h)
      BY <2>3, LeaveStages, HeirWaits DEF Holders, Throttles, Heirs
    <3>2. free'[h] = free[h]
      BY <1>1, <2>3 DEF Leave, Released
    <3>3. QED
      BY <2>1, <3>1, <3>2
  <2>4. CASE Throttles(r) /\ h = Host(r) /\ Heirs(r) = {}
    <3>1. Holders(h)' = Holders(h) \ {r} /\ r \in Holders(h)
      BY <1>2, <2>4, LeaveStages DEF Holders
    <3>2. Cardinality(Holders(h)') = Cardinality(Holders(h)) - 1
      BY <2>2, <3>1, FS_RemoveElement
    <3>3. free'[h] = free[h] + 1
      BY <1>1, <2>4 DEF Leave, Released
    <3>4. QED
      BY <2>1, <2>2, <3>2, <3>3, LimitType
  <2>5. CASE Throttles(r) /\ h = Host(r) /\ Heirs(r) # {}
    <3>1. PICK s : s \in Heirs(r)
      BY <2>5
    <3>2. /\ s \in Rows /\ s # r /\ Throttles(s) /\ Host(s) = h
          /\ stage[s] = "limited" /\ stage'[s] = "granted" /\ Heirs(r) = {s}
      BY <2>5, <3>1, HeirWaits, LeaveStages
    <3>3. Holders(h)' = (Holders(h) \ {r}) \cup {s} /\ r \in Holders(h) /\ s \notin Holders(h)
      BY <1>2, <2>5, <3>2, LeaveStages DEF Holders
    <3>4. IsFiniteSet(Holders(h) \ {r}) /\ Cardinality(Holders(h) \ {r}) = Cardinality(Holders(h)) - 1
      BY <2>2, <3>3, FS_RemoveElement
    <3> DEFINE Rest == Holders(h) \ {r}
    <3>8. s \notin Rest
      BY <3>3
    <3>9. Cardinality(Rest \cup {s}) = Cardinality(Rest) + 1
      <4> HIDE DEF Rest
      <4>1. IsFiniteSet(Rest)
        BY <3>4 DEF Rest
      <4>2. QED
        BY <3>8, <4>1, FS_AddElement
    <3>5. Cardinality(Holders(h)') = Cardinality(Holders(h))
      BY <2>2, <3>3, <3>4, <3>9
    <3>6. free'[h] = free[h]
      BY <2>5 DEF Leave, Released
    <3>7. QED
      BY <2>1, <3>5, <3>6
  <2>6. QED
    BY <2>3, <2>4, <2>5
<1>5. QED
  BY <1>3, <1>4 DEF PermitInv

\* The queues lose only the heir.
LEMMA LeaveQueue ==
    ASSUME FullInv, NEW r \in Rows, stage[r] = "fetching", Leave(r)
    PROVE  queue' \in [Hosts -> Seq(Rows)] /\ QueueInv'
<1>1. queue \in [Hosts -> Seq(Rows)] /\ free \in [Hosts -> 0..Limit]
  BY DEF FullInv, TypeOK
<1>2. CASE Heirs(r) = {}
  <2>1. queue' = queue
    BY <1>2 DEF Leave
  <2>2. \A s \in Rows : (stage[s] = "limited") <=> (stage'[s] = "limited")
    BY <1>2, LeaveStages
  <2>3. \A h \in Hosts : queue[h] # <<>> => free'[h] = free[h]
    <3> SUFFICES ASSUME NEW h \in Hosts, queue[h] # <<>>
                 PROVE  free'[h] = free[h]
      OBVIOUS
    <3>1. ~(Throttles(r) /\ Host(r) = h)
      BY <1>2 DEF Heirs
    <3>2. QED
      BY <1>1, <3>1 DEF Leave, Released
  <2>4. \A h \in Hosts : \A i \in 1..Len(queue[h]) : queue[h][i] \in Rows
    BY <1>1
  <2>5. QED
    BY <1>1, <2>1, <2>2, <2>3, <2>4 DEF FullInv, QueueInv, Throttles, Host
<1>3. CASE Heirs(r) # {}
  <2>1. PICK s : s \in Heirs(r)
    BY <1>3
  <2> DEFINE k == Host(r)
             q == queue[k]
  <2>2. k \in Hosts /\ q # <<>> /\ s = q[1] /\ Heirs(r) = {s} /\ s \in Rows /\ stage'[s] = "granted"
    BY <2>1, HeirWaits, LeaveStages
  <2>3. q \in Seq(Rows) /\ Len(q) \in Nat /\ Len(q) >= 1
    BY <1>1, <2>2
  <2>4. queue' = [queue EXCEPT ![k] = Tail(q)] /\ free' = free
    BY <1>3 DEF Leave, Released
  <2>5. /\ Tail(q) \in Seq(Rows) /\ Len(Tail(q)) = Len(q) - 1
        /\ \A i \in 1..Len(Tail(q)) : i + 1 \in 1..Len(q) /\ Tail(q)[i] = q[i + 1]
    BY <2>2, <2>3
  <2>6. /\ queue' \in [Hosts -> Seq(Rows)]
        /\ queue'[k] = Tail(q)
        /\ \A h \in Hosts \ {k} : queue'[h] = queue[h]
    BY <1>1, <2>2, <2>4, <2>5
  <2>7. \A t \in Rows \ {s} : (stage[t] = "limited") <=> (stage'[t] = "limited")
    BY <2>2, LeaveStages
  <2>8. ASSUME NEW h \in Hosts, NEW i \in 1..Len(queue'[h])
        PROVE  /\ queue'[h][i] \in Rows \ {s}
               /\ stage'[queue'[h][i]] = "limited"
               /\ Throttles(queue'[h][i]) /\ Host(queue'[h][i]) = h
    <3>1. CASE h = k
      <4>0. queue'[h] = Tail(q) /\ i \in 1..Len(Tail(q))
        BY <2>6, <3>1
      <4>5. i + 1 \in 1..Len(q) /\ queue'[h][i] = q[i + 1]
        BY <2>5, <4>0
      <4>6. i + 1 # 1 /\ 1 \in 1..Len(q)
        BY <2>3, <2>5, <4>0
      <4>1. i + 1 \in 1..Len(q) /\ queue'[h][i] = q[i + 1] /\ i + 1 # 1 /\ 1 \in 1..Len(q)
        BY <4>5, <4>6
      <4>2. q[i + 1] \in Rows /\ q[i + 1] # s
        BY <2>2, <2>3, <4>1 DEF FullInv, QueueInv
      <4>3. stage[q[i + 1]] = "limited" /\ Throttles(q[i + 1]) /\ Host(q[i + 1]) = k
        BY <2>2, <4>1 DEF FullInv, QueueInv
      <4>4. QED
        BY <2>7, <3>1, <4>1, <4>2, <4>3
    <3>2. CASE h # k
      <4>1. queue'[h] = queue[h] /\ queue[h][i] \in Rows
        BY <1>1, <2>6, <3>2
      <4>2. stage[queue[h][i]] = "limited" /\ Throttles(queue[h][i]) /\ Host(queue[h][i]) = h
        BY <4>1 DEF FullInv, QueueInv
      <4>3. Host(s) = k
        BY <2>1, HeirWaits
      <4>4. QED
        BY <2>7, <3>2, <4>1, <4>2, <4>3
    <3>3. QED
      BY <3>1, <3>2
  <2>9. ASSUME NEW h \in Hosts, NEW i \in 1..Len(queue'[h]), NEW j \in 1..Len(queue'[h]),
               queue'[h][i] = queue'[h][j]
        PROVE  i = j
    <3>1. CASE h = k
      <4>1. /\ i + 1 \in 1..Len(q) /\ j + 1 \in 1..Len(q)
            /\ q[i + 1] = q[j + 1]
        BY <2>5, <2>6, <2>9, <3>1
      <4>2. i + 1 = j + 1
        BY <2>2, <4>1 DEF FullInv, QueueInv
      <4>3. QED
        BY <2>5, <2>6, <3>1, <4>2
    <3>2. CASE h # k
      BY <2>6, <2>9, <3>2 DEF FullInv, QueueInv
    <3>3. QED
      BY <3>1, <3>2
  <2>10. ASSUME NEW t \in Rows, stage'[t] = "limited"
         PROVE  /\ Throttles(t)
                /\ \E i \in 1..Len(queue'[Host(t)]) : queue'[Host(t)][i] = t
    <3>1. t # s /\ stage[t] = "limited"
      BY <2>2, <2>7, <2>10
    <3>2. Throttles(t) /\ Host(t) \in Hosts
      BY <3>1, ThrottledHost DEF FullInv, QueueInv
    <3>3. PICK i \in 1..Len(queue[Host(t)]) : queue[Host(t)][i] = t
      BY <3>1 DEF FullInv, QueueInv
    <3>4. CASE Host(t) = k
      <4>1. i # 1
        BY <2>2, <3>1, <3>3, <3>4
      <4>2. i - 1 \in 1..Len(Tail(q)) /\ Tail(q)[i - 1] = q[(i - 1) + 1]
        BY <2>3, <2>5, <3>3, <3>4, <4>1
      <4>3. (i - 1) + 1 = i
        BY <2>3, <3>3, <3>4
      <4>4. QED
        BY <2>6, <3>2, <3>3, <3>4, <4>2, <4>3
    <3>5. CASE Host(t) # k
      BY <2>6, <3>2, <3>3, <3>5
    <3>6. QED
      BY <3>4, <3>5
  <2>11. \A h \in Hosts : queue'[h] # <<>> => free'[h] = 0
    <3>1. \A h \in Hosts : queue'[h] # <<>> => queue[h] # <<>>
      BY <2>2, <2>6
    <3>2. QED
      BY <2>4, <3>1 DEF FullInv, QueueInv
  <2>12. QED
    BY <2>6, <2>8, <2>9, <2>10, <2>11 DEF QueueInv, Throttles, Host
<1>4. QED
  BY <1>2, <1>3

----------------------------------------------------------------------------
(* The invariant *)

LEMMA InitInv == Init => FullInv
<1> SUFFICES ASSUME Init PROVE FullInv
  OBVIOUS
<1>1. TypeOK
  <2>1. NRows \in Nat /\ Retry \in Nat /\ Limit \in Nat
    BY ScrapeAssumption, LimitType
  <2>2. pulled \in 0..NRows /\ free \in [Hosts -> 0..Limit]
    BY <2>1 DEF Init
  <2>3. retries \in [Rows -> 0..Retry] /\ tried \in [Rows -> 0..(Retry + 1)]
    BY <2>1 DEF Init
  <2>4. queue \in [Hosts -> Seq(Rows)] /\ events \in Seq(Event)
    BY DEF Init
  <2>5. QED
    BY <2>2, <2>3, <2>4 DEF Init, TypeOK, Tasks, Stages, Results
<1>2. AttemptInv
  BY DEF Init, AttemptInv
<1>3. QueueInv
  BY DEF Init, QueueInv
<1>4. PermitInv
  <2>1. \A h \in Hosts : Holders(h) = {} /\ free[h] = Limit
    BY DEF Init, Holders
  <2>2. QED
    BY <2>1, FS_EmptySet, LimitType DEF PermitInv
<1>5. QED
  BY <1>1, <1>2, <1>3, <1>4 DEF FullInv

\* A step that emits events leaves a channel of events.
LEMMA EmitType ==
    ASSUME TypeOK, NEW evs \in Seq(Event), Emit(evs)
    PROVE  events' \in Seq(Event)
BY DEF Emit, TypeOK

\* A step that changes no permits, no queue, and no row's waiting or holding.
LEMMA SamePermits ==
    ASSUME FullInv, UNCHANGED <<free, queue>>,
           NEW W, W = {"granted", "fetching", "backoff"},
           \A r \in Rows : /\ (stage[r] = "limited") <=> (stage'[r] = "limited")
                           /\ (stage[r] \in W) <=> (stage'[r] \in W)
    PROVE  QueueInv' /\ PermitInv'
<1>1. \A h \in Hosts : Holders(h)' = Holders(h)
  BY DEF Holders, Throttles, Host
<1>2. \A h \in Hosts : \A i \in 1..Len(queue[h]) : queue[h][i] \in Rows
  BY DEF FullInv, TypeOK
<1>3. QueueInv'
  BY <1>2 DEF FullInv, QueueInv, Throttles, Host
<1>4. PermitInv'
  BY <1>1 DEF FullInv, PermitInv
<1>5. QED
  BY <1>3, <1>4

LEMMA SetupInv == FullInv /\ Setup => FullInv'
<1> SUFFICES ASSUME FullInv, Setup PROVE FullInv'
  OBVIOUS
<1> USE DEF FullInv
<1>1. Window \in Nat /\ NRows \in Nat
  BY ScrapeAssumption DEF Window
<1>0. \A r \in Rows : stage[r] = "queued" /\ r > 0
  BY DEF Setup, AttemptInv, Rows
<1>2. \A r \in Rows : stage'[r] \in {"ready", "queued"} /\ (r > pulled' => stage'[r] = "queued")
  BY <1>1 DEF Setup, Rows
<1>3. TypeOK'
  <2>1. [r \in Rows |-> Ev("Queued", r, 0)] \in Seq(Event)
    <3>1. \A r \in Rows : Ev("Queued", r, 0) \in Event
      BY ScrapeAssumption DEF Ev, Event, Kinds
    <3>2. QED
      BY <1>1, <3>1 DEF Rows
  <2>2. events' \in Seq(Event)
    BY <2>1, EmitType DEF Setup
  <2>3. QED
    BY <1>1, <2>2 DEF Setup, TypeOK, Tasks, Stages
<1>4. AttemptInv'
  BY <1>0, <1>2 DEF Setup, AttemptInv
<1>5. QueueInv' /\ PermitInv'
  <2>1. UNCHANGED <<free, queue>>
    BY DEF Setup
  <2>2. QED
    BY <1>0, <1>2, <2>1, SamePermits
<1>6. QED
  BY <1>3, <1>4, <1>5

LEMMA EnterInv == ASSUME NEW r \in Rows, FullInv, Enter(r) PROVE FullInv'
<1> USE DEF FullInv
<1>1. Retry \in Nat /\ Limit \in Nat /\ (Throttles(r) => Host(r) \in Hosts)
  BY ScrapeAssumption, LimitType, ThrottledHost
<1>2. stage' = [stage EXCEPT ![r] = "fetching"] /\ stage[r] = "ready"
  BY DEF Enter
<1>3. free' \in [Hosts -> 0..Limit]
  BY <1>1 DEF Enter, TypeOK
<1>4. TypeOK'
  <2>1. events' \in Seq(Event)
    <3>1. <<Ev("RequestStart", r, 0)>> \in Seq(Event)
      BY <1>1, EvType DEF Kinds
    <3>2. QED
      BY <3>1, EmitType DEF Enter
  <2>2. tried' \in [Rows -> 0..(Retry + 1)]
    BY <1>1 DEF Enter, TypeOK
  <2>3. stage' \in [Rows -> Stages]
    BY <1>2 DEF TypeOK, Stages
  <2>4. QED
    BY <1>3, <2>1, <2>2, <2>3 DEF Enter, TypeOK
<1>5. AttemptInv'
  BY DEF Enter, AttemptInv, TypeOK
<1>6. QueueInv'
  <2>1. \A s \in Rows : (stage[s] = "limited") <=> (stage'[s] = "limited")
    BY <1>2 DEF TypeOK
  <2>2. \A h \in Hosts : \A i \in 1..Len(queue[h]) : queue[h][i] \in Rows
    BY DEF TypeOK
  <2>3. \A h \in Hosts : queue[h] # <<>> => free'[h] = 0
    <3> SUFFICES ASSUME NEW h \in Hosts, queue[h] # <<>>
                 PROVE  free'[h] = 0
      OBVIOUS
    <3>1. free[h] = 0
      BY DEF QueueInv
    <3>2. ~(Throttles(r) /\ Host(r) = h)
      BY <3>1 DEF Enter
    <3>3. QED
      BY <3>1, <3>2 DEF Enter, TypeOK
  <2>4. queue' = queue
    BY DEF Enter
  <2>5. QED
    BY <2>1, <2>2, <2>3, <2>4 DEF QueueInv, Throttles, Host
<1>7. PermitInv'
  <2> SUFFICES ASSUME Throttled, NEW h \in Hosts
               PROVE  free'[h] + Cardinality(Holders(h)') = Limit
    BY DEF PermitInv
  <2>1. free[h] + Cardinality(Holders(h)) = Limit /\ free[h] \in Nat
    BY DEF PermitInv, TypeOK
  <2>2. IsFiniteSet(Holders(h)) /\ Cardinality(Holders(h)) \in Nat
    BY HoldersFinite
  <2>3. CASE Throttles(r) /\ h = Host(r)
    <3>1. Holders(h)' = Holders(h) \cup {r} /\ r \notin Holders(h)
      BY <1>2, <2>3 DEF Holders, Throttles, Host, TypeOK
    <3>2. Cardinality(Holders(h)') = Cardinality(Holders(h)) + 1
      BY <2>2, <3>1, FS_AddElement
    <3>3. free'[h] = free[h] - 1 /\ free[h] > 0
      BY <2>3 DEF Enter, TypeOK
    <3>4. QED
      BY <2>1, <2>2, <3>2, <3>3, <1>1
  <2>4. CASE ~(Throttles(r) /\ h = Host(r))
    <3>1. Holders(h)' = Holders(h)
      BY <1>2, <2>4 DEF Holders, Throttles, Host, TypeOK
    <3>2. free'[h] = free[h]
      BY <2>4 DEF Enter, TypeOK
    <3>3. QED
      BY <2>1, <3>1, <3>2
  <2>5. QED
    BY <2>3, <2>4
<1>8. QED
  BY <1>4, <1>5, <1>6, <1>7

LEMMA WaitInv == ASSUME NEW r \in Rows, FullInv, Wait(r) PROVE FullInv'
<1> USE DEF FullInv
<1> DEFINE k == Host(r)
           q == queue[k]
<1>1. k \in Hosts /\ q \in Seq(Rows) /\ Len(q) \in Nat
  BY ThrottledHost DEF Wait, TypeOK
<1>2. /\ stage' = [stage EXCEPT ![r] = "limited"] /\ stage[r] = "ready"
      /\ queue' = [queue EXCEPT ![k] = Append(q, r)] /\ free' = free
      /\ free[k] = 0 /\ Throttles(r)
  BY DEF Wait
<1>3. /\ Append(q, r) \in Seq(Rows) /\ Len(Append(q, r)) = Len(q) + 1
      /\ Append(q, r)[Len(q) + 1] = r
      /\ \A i \in 1..Len(q) : Append(q, r)[i] = q[i] /\ q[i] # r
  <2>1. \A i \in 1..Len(q) : q[i] # r
    BY <1>1, <1>2 DEF QueueInv
  <2>2. QED
    BY <1>1, <2>1
<1>4. /\ queue' \in [Hosts -> Seq(Rows)] /\ queue'[k] = Append(q, r)
      /\ \A h \in Hosts \ {k} : queue'[h] = queue[h]
  BY <1>1, <1>2, <1>3 DEF TypeOK
<1>5. TypeOK'
  BY <1>2, <1>4 DEF Wait, TypeOK, Stages
<1>6. AttemptInv'
  BY <1>2 DEF Wait, AttemptInv, TypeOK
<1>7. \A s \in Rows \ {r} : stage'[s] = stage[s]
  BY <1>2 DEF TypeOK
<1>8. stage'[r] = "limited"
  BY <1>2 DEF TypeOK
<1>9. QueueInv'
  <2>1. ASSUME NEW h \in Hosts, NEW i \in 1..Len(queue'[h])
        PROVE  /\ stage'[queue'[h][i]] = "limited"
               /\ Throttles(queue'[h][i]) /\ Host(queue'[h][i]) = h
    <3>1. CASE h = k /\ i = Len(q) + 1
      BY <1>2, <1>3, <1>4, <1>8, <3>1
    <3>2. CASE h = k /\ i # Len(q) + 1
      <4>1. i \in 1..Len(q)
        BY <1>1, <1>3, <1>4, <3>2
      <4>2. queue'[h][i] = q[i] /\ q[i] # r /\ q[i] \in Rows
        BY <1>1, <1>3, <1>4, <3>2, <4>1
      <4>3. stage[q[i]] = "limited" /\ Throttles(q[i]) /\ Host(q[i]) = k
        BY <1>1, <4>1 DEF QueueInv
      <4>4. QED
        BY <1>7, <3>2, <4>2, <4>3
    <3>3. CASE h # k
      <4>1. queue'[h] = queue[h] /\ queue[h][i] \in Rows
        BY <1>4, <3>3 DEF TypeOK
      <4>2. stage[queue[h][i]] = "limited" /\ Throttles(queue[h][i]) /\ Host(queue[h][i]) = h
        BY <4>1 DEF QueueInv
      <4>3. QED
        BY <1>2, <1>7, <4>1, <4>2
    <3>4. QED
      BY <3>1, <3>2, <3>3
  <2>2. ASSUME NEW h \in Hosts, NEW i \in 1..Len(queue'[h]), NEW j \in 1..Len(queue'[h]),
               queue'[h][i] = queue'[h][j]
        PROVE  i = j
    <3>1. CASE h = k
      <4>1. i \in 1..(Len(q) + 1) /\ j \in 1..(Len(q) + 1)
        BY <1>3, <1>4, <3>1
      <4>2. \A m \in 1..(Len(q) + 1) : m \in 1..Len(q) \/ m = Len(q) + 1
        BY <1>1
      <4>3. CASE i \in 1..Len(q) /\ j \in 1..Len(q)
        <5>1. \A m, l \in 1..Len(q) : q[m] = q[l] => m = l
          BY <1>1 DEF QueueInv
        <5>2. queue'[h][i] = q[i] /\ queue'[h][j] = q[j]
          BY <1>1, <1>3, <1>4, <3>1, <4>3
        <5>3. QED
          BY <2>2, <4>3, <5>1, <5>2
      <4>4. CASE ~(i \in 1..Len(q) /\ j \in 1..Len(q))
        BY <1>3, <1>4, <2>2, <3>1, <4>1, <4>2, <4>4
      <4>5. QED
        BY <4>3, <4>4
    <3>2. CASE h # k
      BY <1>4, <2>2, <3>2 DEF QueueInv
    <3>3. QED
      BY <3>1, <3>2
  <2>3. ASSUME NEW t \in Rows, stage'[t] = "limited"
        PROVE  /\ Throttles(t)
               /\ \E i \in 1..Len(queue'[Host(t)]) : queue'[Host(t)][i] = t
    <3>1. CASE t = r
      <4>1. Len(q) + 1 \in 1..Len(queue'[k]) /\ queue'[k][Len(q) + 1] = r
        BY <1>1, <1>3, <1>4
      <4>2. QED
        BY <1>2, <3>1, <4>1
    <3>2. CASE t # r
      <4>1. Throttles(t) /\ Host(t) \in Hosts
        BY <1>7, <2>3, <3>2, ThrottledHost DEF QueueInv
      <4>2. PICK i \in 1..Len(queue[Host(t)]) : queue[Host(t)][i] = t
        BY <1>7, <2>3, <3>2 DEF QueueInv
      <4>3. CASE Host(t) = k
        <5>1. i \in 1..Len(queue'[k]) /\ queue'[k][i] = q[i]
          BY <1>1, <1>3, <1>4, <4>2, <4>3
        <5>2. QED
          BY <4>1, <4>2, <4>3, <5>1
      <4>4. CASE Host(t) # k
        BY <1>4, <4>1, <4>2, <4>4
      <4>5. QED
        BY <4>3, <4>4
    <3>3. QED
      BY <3>1, <3>2
  <2>4. \A h \in Hosts : queue'[h] # <<>> => free'[h] = 0
    BY <1>2, <1>4 DEF QueueInv
  <2>5. QED
    BY <2>1, <2>2, <2>3, <2>4 DEF QueueInv, Throttles, Host
<1>10. PermitInv'
  <2>1. \A h \in Hosts : Holders(h)' = Holders(h)
    BY <1>2, <1>7, <1>8 DEF Holders, Throttles, Host
  <2>2. QED
    BY <1>2, <2>1 DEF PermitInv
<1>11. QED
  BY <1>5, <1>6, <1>9, <1>10

\* A step of r past its limiter that neither takes nor gives back its permit.
LEMMA HeldInv ==
    ASSUME NEW r \in Rows, FullInv, Resume(r) \/ RetryNow(r) \/ \E k \in Results : BackOff(r, k)
    PROVE  FullInv'
<1> USE DEF FullInv
<1>1. Retry \in Nat /\ retries[r] \in 0..Retry
  BY ScrapeAssumption DEF TypeOK
<1>2. UNCHANGED <<free, queue, pulled, task>>
  BY DEF Resume, RetryNow, BackOff
<1>3. \E st \in {"fetching", "backoff"} : stage' = [stage EXCEPT ![r] = st]
  BY DEF Resume, RetryNow, BackOff
<1>4. stage[r] \in {"granted", "fetching", "backoff"}
  BY DEF Resume, RetryNow, BackOff
<1>5. QueueInv' /\ PermitInv'
  <2> DEFINE W == {"granted", "fetching", "backoff"}
  <2>1. \A s \in Rows : /\ (stage[s] = "limited") <=> (stage'[s] = "limited")
                        /\ (stage[s] \in W) <=> (stage'[s] \in W)
    BY <1>3, <1>4 DEF TypeOK
  <2>2. UNCHANGED <<free, queue>>
    BY <1>2
  <2> HIDE DEF W
  <2>3. W = {"granted", "fetching", "backoff"}
    BY DEF W
  <2>4. QED
    BY <2>1, <2>2, <2>3, SamePermits
<1>6. events' \in Seq(Event)
  <2>1. CASE Resume(r)
    <3>1. <<Ev("RequestStart", r, 0)>> \in Seq(Event)
      BY <1>1, EvType DEF Kinds
    <3>2. QED
      BY <2>1, <3>1, EmitType DEF Resume
  <2>2. CASE RetryNow(r)
    <3>1. retries[r] + 1 \in 0..(Retry + 1)
      BY <1>1
    <3>2. <<Ev("RequestStart", r, retries[r] + 1)>> \in Seq(Event)
      BY <3>1, EvType DEF Kinds
    <3>3. QED
      BY <2>2, <3>2, EmitType DEF RetryNow
  <2>3. ASSUME NEW k \in Results, BackOff(r, k)
        PROVE  events' \in Seq(Event)
    <3> DEFINE evs == (IF k = "failed" THEN <<>> ELSE <<Ev("Response", r, 0)>>)
                      \o <<Ev("BackoffStart", r, retries[r])>>
    <3>1. retries[r] \in 0..(Retry + 1) /\ 0 \in 0..(Retry + 1)
      BY <1>1
    <3>2. <<Ev("BackoffStart", r, retries[r])>> \in Seq(Event)
      BY <3>1, EvType DEF Kinds
    <3>3. <<Ev("Response", r, 0)>> \in Seq(Event)
      BY <3>1, EvType DEF Kinds
    <3>4. evs \in Seq(Event)
      BY <3>2, <3>3
    <3>5. Emit(evs)
      BY <2>3 DEF BackOff
    <3>6. QED
      BY <3>4, <3>5, EmitType
  <2>4. QED
    BY <2>1, <2>2, <2>3
<1>7. TypeOK' /\ AttemptInv'
  <2>1. CASE Resume(r)
    <3>1. TypeOK'
      BY <1>1, <1>6, <2>1 DEF Resume, TypeOK, Stages
    <3>2. AttemptInv'
      BY <2>1 DEF Resume, TypeOK, AttemptInv
    <3>3. QED
      BY <3>1, <3>2
  <2>2. CASE RetryNow(r)
    <3>1. retries[r] < Retry /\ tried[r] = retries[r] + 1
      BY <2>2 DEF RetryNow, AttemptInv
    <3>2. retries' \in [Rows -> 0..Retry] /\ tried' \in [Rows -> 0..(Retry + 1)]
      BY <1>1, <2>2, <3>1 DEF RetryNow, TypeOK
    <3>3. stage' \in [Rows -> Stages]
      BY <2>2 DEF RetryNow, TypeOK, Stages
    <3>4. TypeOK'
      BY <1>6, <2>2, <3>2, <3>3 DEF RetryNow, TypeOK
    <3>5. AttemptInv'
      BY <1>1, <2>2, <3>1 DEF RetryNow, TypeOK, AttemptInv
    <3>6. QED
      BY <3>4, <3>5
  <2>3. ASSUME NEW k \in Results, BackOff(r, k)
        PROVE  TypeOK' /\ AttemptInv'
    <3>1. TypeOK'
      BY <1>6, <2>3 DEF BackOff, TypeOK, Stages
    <3>2. retries[r] < Retry
      BY <1>1, <2>3 DEF BackOff, Exhausted
    <3>3. AttemptInv'
      BY <2>3, <3>2 DEF BackOff, TypeOK, AttemptInv
    <3>4. QED
      BY <3>1, <3>3
  <2>4. QED
    BY <2>1, <2>2, <2>3
<1>8. QED
  BY <1>5, <1>7

\* A row's last step.
LEMMA EndInv ==
    ASSUME NEW r \in Rows, FullInv, Fail(r) \/ \E k \in Results : Complete(r, k)
    PROVE  FullInv'
<1>1. stage[r] = "fetching" /\ Leave(r)
  BY DEF Fail, Complete
<1>2. UNCHANGED <<task, retries, tried, saved>>
  BY DEF Fail, Complete
<1>3. PICK k \in Results : result' = [result EXCEPT ![r] = k] /\ (k # "good" => Exhausted(r))
  BY DEF Fail, Complete, Results
<1>4. Retry \in Nat /\ retries[r] \in 0..Retry
  BY ScrapeAssumption DEF FullInv, TypeOK
<1>5. events' \in Seq(Event)
  <2>1. retries[r] \in 0..(Retry + 1) /\ 0 \in 0..(Retry + 1) /\ retries[r] + 1 \in 0..(Retry + 1)
    BY <1>4
  <2>2. CASE Fail(r)
    <3>1. <<Ev("Failed", r, retries[r] + 1)>> \in Seq(Event)
      BY <2>1, EvType DEF Kinds
    <3>2. QED
      BY <2>2, <3>1, EmitType DEF Fail, FullInv
  <2>3. ASSUME NEW j \in Results, Complete(r, j)
        PROVE  events' \in Seq(Event)
    <3>1. Ev("Response", r, 0) \in Event /\ Ev("Completed", r, retries[r]) \in Event
      BY <2>1 DEF Ev, Event, Kinds
    <3>2. <<Ev("Response", r, 0), Ev("Completed", r, retries[r])>> \in Seq(Event)
      BY <3>1
    <3>3. QED
      BY <2>3, <3>2, EmitType DEF Complete, FullInv
  <2>4. QED
    BY <2>2, <2>3
<1>6. free' \in [Hosts -> 0..Limit] /\ PermitInv' /\ queue' \in [Hosts -> Seq(Rows)] /\ QueueInv'
  BY <1>1, LeavePermits, LeaveQueue
<1>7. TypeOK'
  <2>1. result' \in [Rows -> Results]
    BY <1>3 DEF FullInv, TypeOK
  <2>2. stage' \in [Rows -> Stages] /\ pulled' \in 0..NRows
    BY <1>1, LeaveStages
  <2>3. QED
    BY <1>2, <1>5, <1>6, <2>1, <2>2 DEF FullInv, TypeOK
<1>8. AttemptInv'
  <2>1. ASSUME NEW s \in Rows
        PROVE  /\ stage'[s] \in {"queued", "ready", "limited", "granted"} =>
                     tried'[s] = 0 /\ retries'[s] = 0
               /\ stage'[s] \in {"fetching", "backoff", "done"} => tried'[s] = retries'[s] + 1
               /\ stage'[s] = "backoff" => retries'[s] < Retry
               /\ stage'[s] = "done" /\ result'[s] # "good" => retries'[s] = Retry
               /\ s > pulled' => stage'[s] = "queued"
    <3>0. /\ pulled \in Nat /\ s \in Nat
          /\ pulled' = pulled \/ pulled' = pulled + 1
      <4>1. pulled \in 0..NRows /\ NRows \in Nat
        BY ScrapeAssumption DEF FullInv, TypeOK
      <4>2. pulled \in Nat /\ s \in Nat
        BY <4>1 DEF Rows
      <4>3. pulled' = pulled \/ pulled' = pulled + 1
        BY <1>1, LeaveStages
      <4>4. QED
        BY <4>2, <4>3
    <3>1. CASE s = r
      <4>1. stage'[s] = "done" /\ tried[s] = retries[s] + 1 /\ r <= pulled
        BY <1>1, <3>1, LeaveStages DEF FullInv, AttemptInv, TypeOK, Rows
      <4>2. result'[s] = k
        BY <1>3, <3>1 DEF FullInv, TypeOK
      <4>3. k # "good" => retries[s] = Retry
        BY <1>3, <1>4, <3>1 DEF Exhausted
      <4>4. ~(s > pulled')
        BY <3>0, <3>1, <4>1
      <4>5. QED
        BY <1>2, <4>1, <4>2, <4>3, <4>4
    <3>2. CASE s \in Heirs(r)
      <4>1. stage[s] = "limited" /\ stage'[s] = "granted"
        BY <1>1, <3>2, HeirWaits, LeaveStages
      <4>2. tried[s] = 0 /\ retries[s] = 0 /\ ~(s > pulled)
        BY <4>1 DEF FullInv, AttemptInv
      <4>3. ~(s > pulled')
        BY <3>0, <4>2
      <4>4. QED
        BY <1>2, <4>1, <4>2, <4>3
    <3>3. CASE s # r /\ s \notin Heirs(r) /\ stage'[s] = stage[s] /\ s # pulled + 1
      <4>1. result'[s] = result[s]
        BY <1>3, <3>3 DEF FullInv, TypeOK
      <4>2. s > pulled' => s > pulled
        BY <3>0
      <4>3. QED
        BY <1>2, <3>3, <4>1, <4>2 DEF FullInv, AttemptInv
    <3>4. CASE s # r /\ stage[s] = "queued" /\ stage'[s] = "ready" /\ s = pulled + 1
      <4>1. tried[s] = 0 /\ retries[s] = 0
        BY <3>4 DEF FullInv, AttemptInv
      <4>2. pulled' = pulled + 1
        BY <1>1, <3>4, LeaveStages, ScrapeAssumption DEF FullInv, TypeOK, Rows
      <4>3. ~(s > pulled')
        BY <3>4, <4>2 DEF FullInv, TypeOK
      <4>4. QED
        BY <1>2, <3>4, <4>1, <4>3
    <3>5. QED
      BY <1>1, <3>1, <3>2, <3>3, <3>4, LeaveStages
  <2>2. task' = "starting" => pulled' = 0
    <3>1. task # "starting"
      BY DEF Fail, Complete
    <3>2. QED
      BY <1>2, <3>1
  <2>3. QED
    BY <2>1, <2>2 DEF AttemptInv
<1>9. QED
  BY <1>6, <1>7, <1>8 DEF FullInv

\* The invariant is inductive.
LEMMA StepInv == FullInv /\ [Next]_vars => FullInv'
<1> SUFFICES ASSUME FullInv, [Next]_vars
             PROVE  FullInv'
  OBVIOUS
<1>1. CASE SetupFails \/ WriteBack \/ WriteFails \/ Exit \/ UNCHANGED vars
  <2>1. UNCHANGED <<rowVars, events>>
    BY <1>1 DEF SetupFails, WriteBack, WriteFails, Exit, vars, rowVars
  <2>2. task' \in Tasks /\ saved' \in BOOLEAN /\ (task' = "starting" => task = "starting")
    BY <1>1 DEF SetupFails, WriteBack, WriteFails, Exit, vars, FullInv, TypeOK, Tasks
  <2>3. TypeOK'
    BY <2>1, <2>2 DEF FullInv, TypeOK, rowVars
  <2>4. AttemptInv'
    BY <2>1, <2>2 DEF FullInv, AttemptInv, rowVars
  <2>5. QueueInv' /\ PermitInv'
    BY <2>1 DEF FullInv, QueueInv, PermitInv, Holders, Throttles, Host, rowVars
  <2>6. QED
    BY <2>3, <2>4, <2>5 DEF FullInv
<1>2. CASE Setup
  BY <1>2, SetupInv
<1>3. ASSUME NEW r \in Rows, Polled(r) \/ Answered(r)
      PROVE  FullInv'
  BY <1>3, EnterInv, WaitInv, HeldInv, EndInv DEF Polled, Answered
<1>4. QED
  BY <1>1, <1>2, <1>3 DEF Next, Work

LEMMA AlwaysInv == Spec => []FullInv
BY InitInv, StepInv, PTL DEF Spec

----------------------------------------------------------------------------
(* The theorems *)

\* Every reachable state of a scrape is well typed.
THEOREM TypeCorrect == Spec => []TypeOK
<1>1. FullInv => TypeOK
  BY DEF FullInv
<1>2. QED
  BY <1>1, AlwaysInv, PTL

LEMMA CapFromInv == FullInv => HostCap
<1> SUFFICES ASSUME FullInv, Throttled, NEW h \in Hosts
             PROVE  Cardinality(Holders(h)) <= Limit
  BY DEF HostCap
<1>1. free[h] \in 0..Limit /\ free[h] + Cardinality(Holders(h)) = Limit
  BY DEF FullInv, TypeOK, PermitInv
<1>2. QED
  BY <1>1, HoldersFinite, LimitType

\* --per-host-concurrency bounds the rows of a host past the limiter.
THEOREM HostCapHolds == Spec => []HostCap
BY CapFromInv, AlwaysInv, PTL

LEMMA IdleFromInv == FullInv => NoIdlePermit
<1> SUFFICES ASSUME FullInv, NEW r \in Rows, stage[r] = "limited"
             PROVE  /\ free[Host(r)] = 0
                    /\ Holders(Host(r)) # {}
                    /\ \E i \in DOMAIN queue[Host(r)] : queue[Host(r)][i] = r
  BY DEF NoIdlePermit
<1>1. Throttles(r) /\ \E i \in 1..Len(queue[Host(r)]) : queue[Host(r)][i] = r
  BY DEF FullInv, QueueInv
<1>2. Throttled /\ Host(r) \in Hosts
  BY <1>1, ThrottledHost
<1>3. queue[Host(r)] \in Seq(Rows)
  BY <1>2 DEF FullInv, TypeOK
<1>4. DOMAIN queue[Host(r)] = 1..Len(queue[Host(r)])
  BY <1>3
<1>5. free[Host(r)] = 0
  <2>1. queue[Host(r)] # <<>>
    BY <1>1, <1>3
  <2>2. QED
    BY <1>2, <2>1 DEF FullInv, QueueInv
<1>6. Cardinality(Holders(Host(r))) = Limit
  BY <1>2, <1>5, HoldersFinite DEF FullInv, PermitInv
<1>7. Holders(Host(r)) # {}
  BY <1>6, LimitType, FS_EmptySet
<1>8. QED
  BY <1>1, <1>4, <1>5, <1>7

\* No row waits for a permit that is free, or that no row will give back.
THEOREM NoWastedPermit == Spec => []NoIdlePermit
BY IdleFromInv, AlwaysInv, PTL

LEMMA BudgetFromInv == FullInv => RetryBudget
<1> SUFFICES ASSUME FullInv, NEW r \in Rows
             PROVE  /\ tried[r] <= Retry + 1
                    /\ stage[r] = "done" =>
                          /\ tried[r] = retries[r] + 1
                          /\ result[r] # "good" => tried[r] = Retry + 1
  BY DEF RetryBudget
<1>1. tried[r] \in 0..(Retry + 1) /\ Retry \in Nat
  BY ScrapeAssumption DEF FullInv, TypeOK
<1>2. QED
  BY <1>1 DEF FullInv, AttemptInv

\* What a row reports is what it sent, and --retry bounds it.
THEOREM RetriesBounded == Spec => []RetryBudget
BY BudgetFromInv, AlwaysInv, PTL

----------------------------------------------------------------------------
(* The display: what the events still in the channel will do to a line *)

\* What an event makes of the line of its row, except Response, which leaves it.
Shown(kind) ==
    CASE kind = "Queued" -> "Queued"
      [] kind = "RequestStart" -> "InFlight"
      [] kind = "BackoffStart" -> "BackingOff"
      [] kind = "Completed" -> "Done"
      [] kind = "Failed" -> "Failed"
      [] OTHER -> "unknown"

\* The events a row may report next.
Follows(p, kind) ==
    \/ p = "unknown" /\ kind = "Queued"
    \/ p \in {"Queued", "BackingOff"} /\ kind = "RequestStart"
    \/ p = "InFlight" /\ kind \in {"BackoffStart", "Completed", "Failed"}

About(e, r) == e.row = r /\ e.kind # "Response"

\* evs takes the line of row r from p to t, each event finding what it expects.
Leads(p, evs, r, t) ==
    /\ \A i \in 1..Len(evs) : About(evs[i], r) =>
          /\ (\A j \in 1..(i - 1) : ~About(evs[j], r)) => Follows(p, evs[i].kind)
          /\ \A j \in 1..(i - 1) :
                About(evs[j], r) /\ (\A k \in (j + 1)..(i - 1) : ~About(evs[k], r))
                   => Follows(Shown(evs[j].kind), evs[i].kind)
    /\ (\A j \in 1..Len(evs) : ~About(evs[j], r)) => p = t
    /\ \A j \in 1..Len(evs) :
          About(evs[j], r) /\ (\A k \in (j + 1)..Len(evs) : ~About(evs[k], r))
             => Shown(evs[j].kind) = t

\* The events that set the number of attempts, and to what.
Sets(e, r) == e.row = r /\ e.kind \in {"RequestStart", "BackoffStart", "Failed"}

Number(e) == IF e.kind = "Failed" THEN e.n ELSE e.n + 1

\* evs takes the attempts of row r from a to t.
Counts(a, evs, r, t) ==
    /\ (\A j \in 1..Len(evs) : ~Sets(evs[j], r)) => a = t
    /\ \A j \in 1..Len(evs) :
          Sets(evs[j], r) /\ (\A k \in (j + 1)..Len(evs) : ~Sets(evs[k], r))
             => Number(evs[j]) = t

LEMMA LeadsEmpty == \A p, r, t : Leads(p, <<>>, r, t) <=> p = t
BY DEF Leads

LEMMA LeadsOn ==
    ASSUME NEW p, NEW evs \in Seq(Event), NEW r, NEW t, Leads(p, evs, r, t),
           NEW e, About(e, r), Follows(t, e.kind)
    PROVE  Leads(p, Append(evs, e), r, Shown(e.kind))
<1> DEFINE n == Len(evs)
           new == Append(evs, e)
<1>1. /\ n \in Nat /\ Len(new) = n + 1 /\ new[n + 1] = e
      /\ \A i \in 1..n : new[i] = evs[i]
  OBVIOUS
<1> HIDE DEF new
<1>2. ASSUME NEW i \in 1..(n + 1), About(new[i], r)
      PROVE  /\ (\A j \in 1..(i - 1) : ~About(new[j], r)) => Follows(p, new[i].kind)
             /\ \A j \in 1..(i - 1) :
                   About(new[j], r) /\ (\A k \in (j + 1)..(i - 1) : ~About(new[k], r))
                      => Follows(Shown(new[j].kind), new[i].kind)
  <2>1. CASE i \in 1..n
    <3>1. /\ new[i] = evs[i]
          /\ \A j \in 1..(i - 1) : new[j] = evs[j]
      BY <1>1, <2>1
    <3>2. About(evs[i], r)
      BY <1>2, <3>1
    <3>3. (\A j \in 1..(i - 1) : ~About(evs[j], r)) => Follows(p, evs[i].kind)
      BY <2>1, <3>2 DEF Leads
    <3>4. ASSUME NEW j \in 1..(i - 1), About(evs[j], r),
                 \A k \in (j + 1)..(i - 1) : ~About(evs[k], r)
          PROVE  Follows(Shown(evs[j].kind), evs[i].kind)
      BY <2>1, <3>2, <3>4 DEF Leads
    <3>5. ASSUME NEW j \in 1..(i - 1), About(new[j], r),
                 \A k \in (j + 1)..(i - 1) : ~About(new[k], r)
          PROVE  Follows(Shown(new[j].kind), new[i].kind)
      <4>1. \A k \in (j + 1)..(i - 1) : k \in 1..(i - 1)
        BY <1>1, <2>1
      <4>2. \A k \in (j + 1)..(i - 1) : ~About(evs[k], r)
        BY <3>1, <3>5, <4>1
      <4>3. QED
        BY <3>1, <3>4, <3>5, <4>2
    <3>6. QED
      BY <3>1, <3>3, <3>5
  <2>2. CASE i = n + 1
    BY <1>1, <2>2 DEF Leads
  <2>3. QED
    BY <1>1, <2>1, <2>2
<1>3. ASSUME NEW j \in 1..(n + 1), About(new[j], r),
             \A k \in (j + 1)..(n + 1) : ~About(new[k], r)
      PROVE  j = n + 1
  BY <1>1, <1>3
<1>4. QED
  BY <1>1, <1>2, <1>3 DEF Leads, new

LEMMA LeadsPast ==
    ASSUME NEW p, NEW evs \in Seq(Event), NEW r, NEW t, Leads(p, evs, r, t),
           NEW e, ~About(e, r)
    PROVE  Leads(p, Append(evs, e), r, t)
<1> DEFINE n == Len(evs)
           new == Append(evs, e)
<1>1. /\ n \in Nat /\ Len(new) = n + 1 /\ new[n + 1] = e
      /\ \A i \in 1..n : new[i] = evs[i]
  OBVIOUS
<1> HIDE DEF new
<1>2. \A i \in 1..(n + 1) : About(new[i], r) => i \in 1..n
  BY <1>1
<1>3. ASSUME NEW i \in 1..n, About(new[i], r)
      PROVE  /\ (\A j \in 1..(i - 1) : ~About(new[j], r)) => Follows(p, new[i].kind)
             /\ \A j \in 1..(i - 1) :
                   About(new[j], r) /\ (\A k \in (j + 1)..(i - 1) : ~About(new[k], r))
                      => Follows(Shown(new[j].kind), new[i].kind)
  <2>1. \A j \in 1..(i - 1) : new[j] = evs[j]
    BY <1>1
  <2>2. QED
    BY <1>1, <1>3, <2>1 DEF Leads
<1>4. ASSUME NEW j \in 1..n, About(new[j], r),
             \A k \in (j + 1)..(n + 1) : ~About(new[k], r)
      PROVE  Shown(new[j].kind) = t
  <2>1. \A k \in (j + 1)..n : ~About(evs[k], r)
    BY <1>1, <1>4
  <2>2. QED
    BY <1>1, <1>4, <2>1 DEF Leads
<1>5. (\A j \in 1..(n + 1) : ~About(new[j], r)) => p = t
  BY <1>1 DEF Leads
<1>6. QED
  BY <1>1, <1>2, <1>3, <1>4, <1>5 DEF Leads, new

LEMMA LeadsFrom ==
    ASSUME NEW p, NEW evs \in Seq(Event), NEW r, NEW t, Leads(p, evs, r, t),
           evs # <<>>
    PROVE  IF About(Head(evs), r)
           THEN Follows(p, Head(evs).kind)
                /\ Leads(Shown(Head(evs).kind), Tail(evs), r, t)
           ELSE Leads(p, Tail(evs), r, t)
<1> DEFINE n == Len(evs)
           new == Tail(evs)
           q == IF About(evs[1], r) THEN Shown(evs[1].kind) ELSE p
<1>1. /\ n \in Nat \ {0} /\ Len(new) = n - 1 /\ Head(evs) = evs[1]
      /\ \A i \in 1..(n - 1) : new[i] = evs[i + 1]
  BY EmptySeq
<1> HIDE DEF new
<1>2. About(evs[1], r) => Follows(p, evs[1].kind)
  BY <1>1 DEF Leads
<1>3. ASSUME NEW i \in 1..(n - 1), About(new[i], r)
      PROVE  /\ (\A j \in 1..(i - 1) : ~About(new[j], r)) => Follows(q, new[i].kind)
             /\ \A j \in 1..(i - 1) :
                   About(new[j], r) /\ (\A k \in (j + 1)..(i - 1) : ~About(new[k], r))
                      => Follows(Shown(new[j].kind), new[i].kind)
  <2>0. i + 1 \in 1..n /\ new[i] = evs[i + 1] /\ (i + 1) - 1 = i
    BY <1>1
  <2>1. ASSUME \A j \in 1..(i - 1) : ~About(new[j], r)
        PROVE  Follows(q, new[i].kind)
    <3>1. \A k \in 2..i : ~About(evs[k], r)
      <4> SUFFICES ASSUME NEW k \in 2..i PROVE ~About(evs[k], r)
        OBVIOUS
      <4>1. k - 1 \in 1..(i - 1) /\ k - 1 \in 1..(n - 1) /\ (k - 1) + 1 = k
        BY <1>1
      <4>2. new[k - 1] = evs[k]
        BY <1>1, <4>1
      <4>3. QED
        BY <2>1, <4>1, <4>2
    <3>2. \A j \in 1..i : j = 1 \/ j \in 2..i
      OBVIOUS
    <3>3. QED
      BY <1>3, <2>0, <3>1, <3>2 DEF Leads
  <2>2. ASSUME NEW j \in 1..(i - 1), About(new[j], r),
               \A k \in (j + 1)..(i - 1) : ~About(new[k], r)
        PROVE  Follows(Shown(new[j].kind), new[i].kind)
    <3>1. j + 1 \in 1..i /\ new[j] = evs[j + 1]
      BY <1>1
    <3>2. \A k \in (j + 2)..i : ~About(evs[k], r)
      <4> SUFFICES ASSUME NEW k \in (j + 2)..i PROVE ~About(evs[k], r)
        OBVIOUS
      <4>1. k - 1 \in (j + 1)..(i - 1) /\ k - 1 \in 1..(n - 1) /\ (k - 1) + 1 = k
        BY <1>1
      <4>2. new[k - 1] = evs[k]
        BY <1>1, <4>1
      <4>3. QED
        BY <2>2, <4>1, <4>2
    <3>3. (j + 1) + 1 = j + 2
      OBVIOUS
    <3>4. QED
      BY <1>3, <2>0, <2>2, <3>1, <3>2, <3>3 DEF Leads
  <2>3. QED
    BY <2>1, <2>2
<1>4. ASSUME NEW j \in 1..(n - 1), About(new[j], r),
             \A k \in (j + 1)..(n - 1) : ~About(new[k], r)
      PROVE  Shown(new[j].kind) = t
  <2>1. j + 1 \in 1..n /\ new[j] = evs[j + 1]
    BY <1>1
  <2>2. \A k \in ((j + 1) + 1)..n : ~About(evs[k], r)
    <3> SUFFICES ASSUME NEW k \in ((j + 1) + 1)..n PROVE ~About(evs[k], r)
      OBVIOUS
    <3>1. k - 1 \in (j + 1)..(n - 1) /\ k - 1 \in 1..(n - 1) /\ (k - 1) + 1 = k
      BY <1>1
    <3>2. new[k - 1] = evs[k]
      BY <1>1, <3>1
    <3>3. QED
      BY <1>4, <3>1, <3>2
  <2>3. QED
    BY <1>4, <2>1, <2>2 DEF Leads
<1>5. ASSUME \A j \in 1..(n - 1) : ~About(new[j], r)
      PROVE  q = t
  <2>1. \A k \in 2..n : ~About(evs[k], r)
    <3> SUFFICES ASSUME NEW k \in 2..n PROVE ~About(evs[k], r)
      OBVIOUS
    <3>1. k - 1 \in 1..(n - 1) /\ (k - 1) + 1 = k
      BY <1>1
    <3>2. new[k - 1] = evs[k]
      BY <1>1, <3>1
    <3>3. QED
      BY <1>5, <3>1, <3>2
  <2>2. 1 \in 1..n /\ \A k \in 1..n : k = 1 \/ k \in 2..n
    BY <1>1
  <2>3. QED
    BY <2>1, <2>2 DEF Leads
<1>6. Leads(q, new, r, t)
  BY <1>1, <1>3, <1>4, <1>5 DEF Leads
<1>7. QED
  BY <1>1, <1>2, <1>6 DEF new

LEMMA CountsEmpty == \A a, r, t : Counts(a, <<>>, r, t) <=> a = t
BY DEF Counts

LEMMA CountsOn ==
    ASSUME NEW a, NEW evs \in Seq(Event), NEW r, NEW t, Counts(a, evs, r, t), NEW e
    PROVE  IF Sets(e, r) THEN Counts(a, Append(evs, e), r, Number(e))
           ELSE Counts(a, Append(evs, e), r, t)
<1> DEFINE n == Len(evs)
           new == Append(evs, e)
<1>1. /\ n \in Nat /\ Len(new) = n + 1 /\ new[n + 1] = e
      /\ \A i \in 1..n : new[i] = evs[i]
  OBVIOUS
<1> HIDE DEF new
<1>2. CASE Sets(e, r)
  <2>1. ASSUME NEW j \in 1..(n + 1), Sets(new[j], r),
               \A k \in (j + 1)..(n + 1) : ~Sets(new[k], r)
        PROVE  j = n + 1
    BY <1>1, <1>2, <2>1
  <2>2. QED
    BY <1>1, <1>2, <2>1 DEF Counts, new
<1>3. CASE ~Sets(e, r)
  <2>1. \A i \in 1..(n + 1) : Sets(new[i], r) => i \in 1..n
    BY <1>1, <1>3
  <2>2. ASSUME NEW j \in 1..n, Sets(new[j], r),
               \A k \in (j + 1)..(n + 1) : ~Sets(new[k], r)
        PROVE  Number(new[j]) = t
    <3>1. \A k \in (j + 1)..n : ~Sets(evs[k], r)
      BY <1>1, <2>2
    <3>2. QED
      BY <1>1, <2>2, <3>1 DEF Counts
  <2>3. (\A j \in 1..(n + 1) : ~Sets(new[j], r)) => a = t
    BY <1>1 DEF Counts
  <2>4. QED
    BY <1>1, <1>3, <2>1, <2>2, <2>3 DEF Counts, new
<1>4. QED
  BY <1>2, <1>3

LEMMA CountsFrom ==
    ASSUME NEW a, NEW evs \in Seq(Event), NEW r, NEW t, Counts(a, evs, r, t),
           evs # <<>>
    PROVE  IF Sets(Head(evs), r) THEN Counts(Number(Head(evs)), Tail(evs), r, t)
           ELSE Counts(a, Tail(evs), r, t)
<1> DEFINE n == Len(evs)
           new == Tail(evs)
           b == IF Sets(evs[1], r) THEN Number(evs[1]) ELSE a
<1>1. /\ n \in Nat \ {0} /\ Len(new) = n - 1 /\ Head(evs) = evs[1]
      /\ \A i \in 1..(n - 1) : new[i] = evs[i + 1]
  BY EmptySeq
<1> HIDE DEF new
<1>2. ASSUME NEW j \in 1..(n - 1), Sets(new[j], r),
             \A k \in (j + 1)..(n - 1) : ~Sets(new[k], r)
      PROVE  Number(new[j]) = t
  <2>1. j + 1 \in 1..n /\ new[j] = evs[j + 1]
    BY <1>1
  <2>2. \A k \in ((j + 1) + 1)..n : ~Sets(evs[k], r)
    <3> SUFFICES ASSUME NEW k \in ((j + 1) + 1)..n PROVE ~Sets(evs[k], r)
      OBVIOUS
    <3>1. k - 1 \in (j + 1)..(n - 1) /\ k - 1 \in 1..(n - 1) /\ (k - 1) + 1 = k
      BY <1>1
    <3>2. new[k - 1] = evs[k]
      BY <1>1, <3>1
    <3>3. QED
      BY <1>2, <3>1, <3>2
  <2>3. QED
    BY <1>2, <2>1, <2>2 DEF Counts
<1>3. ASSUME \A j \in 1..(n - 1) : ~Sets(new[j], r)
      PROVE  b = t
  <2>1. \A k \in 2..n : ~Sets(evs[k], r)
    <3> SUFFICES ASSUME NEW k \in 2..n PROVE ~Sets(evs[k], r)
      OBVIOUS
    <3>1. k - 1 \in 1..(n - 1) /\ (k - 1) + 1 = k
      BY <1>1
    <3>2. new[k - 1] = evs[k]
      BY <1>1, <3>1
    <3>3. QED
      BY <1>3, <3>1, <3>2
  <2>2. 1 \in 1..n /\ \A k \in 1..n : k = 1 \/ k \in 2..n
    BY <1>1
  <2>3. QED
    BY <2>1, <2>2 DEF Counts
<1>4. Counts(b, new, r, t)
  BY <1>1, <1>2, <1>3 DEF Counts
<1>5. QED
  BY <1>1, <1>4 DEF new

----------------------------------------------------------------------------
(* The display: the invariant *)

\* No URL is given twice.
DistinctUrls == \A r, s \in Rows : UrlOf[r] = UrlOf[s] => r = s

\* The line a row will have when everything it reported has been shown.
FinalPhase(r) == IF pulled = 0 THEN "unknown" ELSE PhaseOf(r)

\* What is shown of a row and what is on its way add up to where the row is.
WayInv ==
    \A r \in Rows :
        /\ Leads(phase[UrlOf[r]], events, r, FinalPhase(r))
        /\ Counts(attempts[UrlOf[r]], events, r, tried[r])

\* The header counts the lines.
HeaderInv ==
    /\ active = Cardinality(InPhase({"InFlight", "BackingOff"}))
    /\ completed = Cardinality(InPhase({"Done"}))
    /\ hist = completed
    /\ failed = Cardinality(InPhase({"Failed"}))

\* Only URLs of the list have a line.
KnownInv == \A u \in Urls : phase[u] # "unknown" => \E r \in Rows : UrlOf[r] = u

\* How the task can have ended, and the display with it.
EndedInv ==
    /\ task = "starting" => events = <<>>
    /\ task = "aborted" => quit
    /\ task \in {"over", "error"} => pulled = 0 \/ AllDone
    /\ task = "running" /\ NRows > 0 => pulled > 0
    /\ finished => task \in {"over", "error"} /\ events = <<>>

ShownTypes ==
    /\ phase \in [Urls -> Phases]
    /\ attempts \in [Urls -> Int]
    /\ {finished, quit} \subseteq BOOLEAN

TuiInv ==
    /\ FullInv /\ ShownTypes /\ EndedInv
    /\ KnownInv /\ WayInv /\ HeaderInv

----------------------------------------------------------------------------
(* The display: what the scrape does *)

\* One more event: the row it is about moves on, the others stay.
LEMMA OneEvent ==
    ASSUME NEW evs \in Seq(Event), NEW e \in Event, NEW s,
           NEW p, NEW t, Leads(p, evs, s, t), NEW a, NEW b, Counts(a, evs, s, b)
    PROVE  /\ Append(evs, e) \in Seq(Event)
           /\ About(e, s) /\ Follows(t, e.kind) =>
                 Leads(p, Append(evs, e), s, Shown(e.kind))
           /\ ~About(e, s) => Leads(p, Append(evs, e), s, t)
           /\ Sets(e, s) => Counts(a, Append(evs, e), s, Number(e))
           /\ ~Sets(e, s) => Counts(a, Append(evs, e), s, b)
BY LeadsOn, LeadsPast, CountsOn

\* Sending one event, or two, appends them one after the other.
LEMMA SendOne ==
    ASSUME NEW evs \in Seq(Event), NEW e \in Event
    PROVE  evs \o <<e>> = Append(evs, e)
BY AppendIsConcat

LEMMA PairOf ==
    ASSUME NEW e \in Event, NEW f \in Event
    PROVE  Append(<<f>>, e) = <<f, e>>
<1> DEFINE s == Append(<<f>>, e)
           t == <<f, e>>
<1>1. <<f>> \in Seq(Event) /\ Len(<<f>>) = 1 /\ <<f>>[1] = f
  OBVIOUS
<1>2. s \in Seq(Event) /\ Len(s) = 2 /\ s[1] = f /\ s[2] = e
  BY <1>1, AppendProperties
<1>3. t \in Seq(Event) /\ Len(t) = 2 /\ t[1] = f /\ t[2] = e
  OBVIOUS
<1> HIDE DEF s, t
<1>4. \A i \in 1..Len(s) : s[i] = t[i]
  BY <1>2, <1>3
<1>5. s = t
  BY <1>2, <1>3, <1>4, SeqEqual
<1>6. QED
  BY <1>5 DEF s, t

LEMMA SendTwo ==
    ASSUME NEW evs \in Seq(Event), NEW e \in Event, NEW f \in Event
    PROVE  evs \o <<f, e>> = Append(Append(evs, f), e)
<1>1. <<f>> \in Seq(Event) /\ <<e>> \in Seq(Event) /\ Append(evs, f) \in Seq(Event)
  OBVIOUS
<1>2. <<f>> \o <<e>> = <<f, e>>
  BY <1>1, SendOne, PairOf
<1>3. evs \o (<<f>> \o <<e>>) = (evs \o <<f>>) \o <<e>>
  BY <1>1, ConcatAssociative
<1>4. QED
  BY <1>1, <1>2, <1>3, SendOne

\* Row r reports e, perhaps after a response, and is where e says.
LEMMA RowReports ==
    ASSUME TuiInv, UNCHANGED <<phase, attempts>>, NEW r \in Rows, Tui,
           NEW e \in Event, e.row = r, e.kind # "Response",
           \/ Emit(<<e>>)
           \/ Emit(<<>> \o <<e>>)
           \/ Emit(<<Ev("Response", r, 0), e>>)
           \/ Emit(<<Ev("Response", r, 0)>> \o <<e>>),
           Follows(FinalPhase(r), e.kind), FinalPhase(r)' = Shown(e.kind),
           tried'[r] = IF Sets(e, r) THEN Number(e) ELSE tried[r],
           \A s \in Rows \ {r} : FinalPhase(s)' = FinalPhase(s) /\ tried'[s] = tried[s]
    PROVE  WayInv'
<1> DEFINE f == Ev("Response", r, 0)
<1>1. /\ events \in Seq(Event) /\ f \in Event /\ f.row = r /\ f.kind = "Response"
  BY ScrapeAssumption DEF TuiInv, FullInv, TypeOK, Ev, Event, Kinds
<1>2. events' = Append(events, e) \/ events' = Append(Append(events, f), e)
  <2>1. /\ <<>> \o <<e>> = <<e>> /\ <<f>> \o <<e>> = <<f, e>>
        /\ events \o <<e>> = Append(events, e)
        /\ events \o <<f, e>> = Append(Append(events, f), e)
    <3>1. <<e>> \in Seq(Event) /\ <<f>> \in Seq(Event)
      BY <1>1
    <3>2. <<>> \o <<e>> = <<e>> /\ <<f>> \o <<e>> = <<f, e>>
      BY <1>1, <3>1, ConcatEmptySeq, SendOne, PairOf
    <3>3. QED
      BY <1>1, <3>2, SendOne, SendTwo
  <2>2. QED
    BY <2>1 DEF Emit
<1>3. ASSUME NEW s \in Rows
      PROVE  /\ Leads(phase'[UrlOf[s]], events', s, FinalPhase(s)')
             /\ Counts(attempts'[UrlOf[s]], events', s, tried'[s])
  <2> DEFINE p == phase[UrlOf[s]]
             a == attempts[UrlOf[s]]
             after == Append(events, f)
  <2>1. Leads(p, events, s, FinalPhase(s)) /\ Counts(a, events, s, tried[s])
    BY DEF TuiInv, WayInv
  <2>2. /\ after \in Seq(Event)
        /\ Leads(p, after, s, FinalPhase(s)) /\ Counts(a, after, s, tried[s])
    <3>1. ~About(f, s) /\ ~Sets(f, s)
      BY <1>1 DEF About, Sets
    <3>2. QED
      BY <1>1, <2>1, <3>1, OneEvent
  <2>3. PICK evs \in {events, after} : events' = Append(evs, e)
    BY <1>2
  <2>4. /\ evs \in Seq(Event)
        /\ Leads(p, evs, s, FinalPhase(s)) /\ Counts(a, evs, s, tried[s])
    BY <1>1, <2>1, <2>2, <2>3
  <2>5. CASE s = r
    <3>1. About(e, s)
      BY <2>5 DEF About
    <3>2. QED
      BY <2>3, <2>4, <2>5, <3>1, OneEvent
  <2>6. CASE s # r
    <3>1. ~About(e, s) /\ ~Sets(e, s)
      BY <2>6 DEF About, Sets
    <3>2. QED
      BY <2>3, <2>4, <2>6, <3>1, OneEvent
  <2>7. QED
    BY <2>5, <2>6
<1>4. QED
  BY <1>3 DEF WayInv

\* A step that reports nothing and takes no row anywhere the display knows of.
LEMMA NothingReported ==
    ASSUME TuiInv, UNCHANGED <<phase, attempts, events, tried>>,
           \A r \in Rows : FinalPhase(r)' = FinalPhase(r)
    PROVE  WayInv'
BY DEF TuiInv, WayInv

LEMMA SetupWay ==
    ASSUME TuiInv, Tui, Setup, UNCHANGED <<phase, attempts>>, FullInv'
    PROVE  WayInv'
<1> DEFINE evs == [r \in Rows |-> Ev("Queued", r, 0)]
<1>1. events = <<>> /\ task = "starting" /\ pulled = 0
  BY DEF Setup, TuiInv, EndedInv, FullInv, AttemptInv
<1>2. NRows \in Nat /\ Window \in Nat \ {0}
  BY ScrapeAssumption DEF Window
<1>3. evs \in Seq(Event) /\ Len(evs) = NRows
  <2>1. \A r \in Rows : Ev("Queued", r, 0) \in Event
    BY ScrapeAssumption DEF Ev, Event, Kinds
  <2>2. QED
    BY <1>2, <2>1 DEF Rows
<1>4. events' = evs
  BY <1>1, <1>3 DEF Setup, Emit
<1>5. ASSUME NEW r \in Rows
      PROVE  /\ Leads(phase[UrlOf[r]], evs, r, "Queued")
             /\ Counts(attempts[UrlOf[r]], evs, r, 0)
             /\ FinalPhase(r)' = "Queued" /\ tried'[r] = 0
  <2>1. phase[UrlOf[r]] = "unknown" /\ attempts[UrlOf[r]] = tried[r]
    BY <1>1, LeadsEmpty, CountsEmpty DEF TuiInv, WayInv, FinalPhase
  <2>2. stage[r] = "queued" /\ tried[r] = 0
    BY <1>1 DEF TuiInv, FullInv, AttemptInv, Rows
  <2>3. \A i \in 1..Len(evs) : /\ evs[i].kind = "Queued"
                               /\ evs[i].row = i
    BY <1>3 DEF Ev, Rows
  <2>4. r \in 1..Len(evs) /\ evs[r].row = r /\ Len(evs) \in Nat
    BY <1>2, <1>3, <2>3 DEF Rows
  <2>5. \A i \in 1..Len(evs) : About(evs[i], r) <=> i = r
    BY <2>3, <2>4 DEF About
  <2>6. Leads("unknown", evs, r, "Queued")
    <3> HIDE DEF evs
    <3>1. \A i \in 1..Len(evs) : About(evs[i], r) =>
             \A j \in 1..(i - 1) : ~About(evs[j], r)
      BY <2>4, <2>5
    <3>2. QED
      BY <2>3, <2>4, <2>5, <3>1 DEF Leads, Follows, Shown
  <2>7. Counts(0, evs, r, 0)
    <3> HIDE DEF evs
    <3>1. QED
      BY <2>3 DEF Counts, Sets
  <2>8. FinalPhase(r)' = "Queued"
    <3>1. stage'[r] \in {"ready", "queued"}
      BY <2>2 DEF Setup
    <3>2. pulled' # 0
      BY <1>2 DEF Setup, Rows
    <3>3. QED
      BY <3>1, <3>2 DEF FinalPhase, PhaseOf
  <2>9. tried' = tried
    BY DEF Setup
  <2>10. QED
    BY <2>1, <2>2, <2>6, <2>7, <2>8, <2>9
<1>6. QED
  BY <1>4, <1>5 DEF WayInv

\* A row that is in the window has been announced.
LEMMA InWindow ==
    ASSUME FullInv, NEW r \in Rows, stage[r] # "queued"
    PROVE  pulled # 0 /\ r <= pulled /\ pulled \in Nat
<1>1. pulled \in 0..NRows /\ NRows \in Nat /\ r \in 1..NRows
  BY ScrapeAssumption DEF FullInv, TypeOK, Rows
<1>2. ~(r > pulled)
  BY DEF FullInv, AttemptInv
<1>3. QED
  BY <1>1, <1>2

LEMMA StartWay ==
    ASSUME TuiInv, Tui, NEW r \in Rows, Enter(r) \/ Resume(r),
           UNCHANGED <<phase, attempts>>
    PROVE  WayInv'
<1> DEFINE e == Ev("RequestStart", r, 0)
<1>1. /\ stage[r] \in {"ready", "granted"} /\ stage' = [stage EXCEPT ![r] = "fetching"]
      /\ tried' = [tried EXCEPT ![r] = 1] /\ pulled' = pulled /\ result' = result
      /\ Emit(<<e>>)
  BY DEF Enter, Resume
<1>2. stage \in [Rows -> Stages] /\ tried \in [Rows -> 0..(Retry + 1)] /\ FullInv
  BY DEF TuiInv, FullInv, TypeOK
<1>3. pulled # 0
  BY <1>1, <1>2, InWindow
<1>4. e \in Event /\ e.row = r /\ e.kind = "RequestStart" /\ e.n = 0
  BY ScrapeAssumption DEF Ev, Event, Kinds
<1>5. FinalPhase(r) = "Queued" /\ FinalPhase(r)' = "InFlight"
  BY <1>1, <1>2, <1>3 DEF FinalPhase, PhaseOf
<1>6. tried'[r] = Number(e) /\ Sets(e, r)
  BY <1>1, <1>2, <1>4 DEF Number, Sets
<1>7. ASSUME NEW s \in Rows \ {r}
      PROVE  FinalPhase(s)' = FinalPhase(s) /\ tried'[s] = tried[s]
  BY <1>1, <1>2 DEF FinalPhase, PhaseOf
<1>8. Follows(FinalPhase(r), e.kind) /\ FinalPhase(r)' = Shown(e.kind)
  BY <1>4, <1>5 DEF Follows, Shown
<1> HIDE DEF e
<1>9. QED
  BY <1>1, <1>4, <1>6, <1>7, <1>8, RowReports

LEMMA WaitWay ==
    ASSUME TuiInv, NEW r \in Rows, Wait(r), UNCHANGED <<phase, attempts>>
    PROVE  WayInv'
<1>1. /\ stage[r] = "ready" /\ stage' = [stage EXCEPT ![r] = "limited"]
      /\ UNCHANGED <<tried, pulled, result, events>>
  BY DEF Wait
<1>2. stage \in [Rows -> Stages]
  BY DEF TuiInv, FullInv, TypeOK
<1>3. \A s \in Rows : FinalPhase(s)' = FinalPhase(s)
  BY <1>1, <1>2 DEF FinalPhase, PhaseOf
<1>4. QED
  BY <1>1, <1>3, NothingReported

LEMMA BackOffWay ==
    ASSUME TuiInv, Tui, NEW r \in Rows, NEW k, BackOff(r, k),
           UNCHANGED <<phase, attempts>>
    PROVE  WayInv'
<1> DEFINE e == Ev("BackoffStart", r, retries[r])
<1>1. /\ stage[r] = "fetching" /\ stage' = [stage EXCEPT ![r] = "backoff"]
      /\ UNCHANGED <<tried, pulled, result>>
      /\ Emit(<<>> \o <<e>>) \/ Emit(<<Ev("Response", r, 0)>> \o <<e>>)
  BY DEF BackOff
<1>2. stage \in [Rows -> Stages] /\ FullInv
  BY DEF TuiInv, FullInv, TypeOK
<1>3. pulled # 0
  BY <1>1, <1>2, InWindow
<1>4. retries[r] \in 0..(Retry + 1) /\ tried[r] = retries[r] + 1
  BY <1>1, ScrapeAssumption DEF TuiInv, FullInv, TypeOK, AttemptInv
<1>5. e \in Event /\ e.row = r /\ e.kind = "BackoffStart" /\ e.n = retries[r]
  BY <1>4 DEF Ev, Event, Kinds
<1>6. FinalPhase(r) = "InFlight" /\ FinalPhase(r)' = "BackingOff"
  BY <1>1, <1>2, <1>3 DEF FinalPhase, PhaseOf
<1>7. tried'[r] = Number(e) /\ Sets(e, r)
  BY <1>1, <1>4, <1>5 DEF Number, Sets
<1>8. ASSUME NEW s \in Rows \ {r}
      PROVE  FinalPhase(s)' = FinalPhase(s) /\ tried'[s] = tried[s]
  BY <1>1, <1>2 DEF FinalPhase, PhaseOf
<1>9. Follows(FinalPhase(r), e.kind) /\ FinalPhase(r)' = Shown(e.kind)
  BY <1>5, <1>6 DEF Follows, Shown
<1> HIDE DEF e
<1>10. QED
  BY <1>1, <1>5, <1>7, <1>8, <1>9, RowReports

LEMMA RetryWay ==
    ASSUME TuiInv, Tui, NEW r \in Rows, RetryNow(r), UNCHANGED <<phase, attempts>>
    PROVE  WayInv'
<1> DEFINE e == Ev("RequestStart", r, retries[r] + 1)
<1>1. /\ stage[r] = "backoff" /\ stage' = [stage EXCEPT ![r] = "fetching"]
      /\ tried' = [tried EXCEPT ![r] = @ + 1] /\ pulled' = pulled /\ result' = result
      /\ Emit(<<e>>)
  BY DEF RetryNow
<1>2. stage \in [Rows -> Stages] /\ tried \in [Rows -> 0..(Retry + 1)] /\ FullInv
  BY DEF TuiInv, FullInv, TypeOK
<1>3. pulled # 0
  BY <1>1, <1>2, InWindow
<1>4. /\ retries[r] \in Nat /\ retries[r] + 1 \in 0..(Retry + 1)
      /\ tried[r] = retries[r] + 1
  BY <1>1, ScrapeAssumption DEF TuiInv, FullInv, TypeOK, AttemptInv
<1>5. e \in Event /\ e.row = r /\ e.kind = "RequestStart" /\ e.n = retries[r] + 1
  BY <1>4 DEF Ev, Event, Kinds
<1>6. FinalPhase(r) = "BackingOff" /\ FinalPhase(r)' = "InFlight"
  BY <1>1, <1>2, <1>3 DEF FinalPhase, PhaseOf
<1>7. tried'[r] = Number(e) /\ Sets(e, r)
  BY <1>1, <1>2, <1>4, <1>5 DEF Number, Sets
<1>8. ASSUME NEW s \in Rows \ {r}
      PROVE  FinalPhase(s)' = FinalPhase(s) /\ tried'[s] = tried[s]
  BY <1>1, <1>2 DEF FinalPhase, PhaseOf
<1>9. Follows(FinalPhase(r), e.kind) /\ FinalPhase(r)' = Shown(e.kind)
  BY <1>5, <1>6 DEF Follows, Shown
<1> HIDE DEF e
<1>10. QED
  BY <1>1, <1>5, <1>7, <1>8, <1>9, RowReports

\* To the display, a row that ends changes no other row: its heir and the row
\* that enters the window were queued and still are.
LEMMA LeavePhases ==
    ASSUME FullInv, NEW r \in Rows, stage[r] = "fetching", Leave(r),
           NEW k \in Results, result' = [result EXCEPT ![r] = k]
    PROVE  /\ FinalPhase(r) = "InFlight"
           /\ FinalPhase(r)' = IF k = "failed" THEN "Failed" ELSE "Done"
           /\ \A s \in Rows \ {r} : FinalPhase(s)' = FinalPhase(s)
<1>1. stage \in [Rows -> Stages] /\ result \in [Rows -> Results]
  BY DEF FullInv, TypeOK
<1>2. pulled # 0 /\ pulled' # 0
  <2>1. pulled # 0 /\ pulled \in Nat
    BY InWindow
  <2>2. QED
    BY <2>1, LeaveStages
<1>3. ASSUME NEW s \in Rows \ {r}
      PROVE  PhaseOf(s)' = PhaseOf(s)
  <2>1. result'[s] = result[s]
    BY <1>1
  <2>2. CASE s \in Heirs(r)
    <3>1. stage[s] = "limited" /\ stage'[s] = "granted"
      BY <2>2, HeirWaits, LeaveStages
    <3>2. QED
      BY <3>1 DEF PhaseOf
  <2>3. CASE s \notin Heirs(r)
    <3>1. stage'[s] = stage[s] \/ (stage[s] = "queued" /\ stage'[s] = "ready")
      BY <2>3, LeaveStages
    <3>2. QED
      BY <2>1, <3>1 DEF PhaseOf
  <2>4. QED
    BY <2>2, <2>3
<1>4. stage'[r] = "done" /\ result'[r] = k
  BY <1>1, LeaveStages
<1>5. QED
  BY <1>2, <1>3, <1>4 DEF FinalPhase, PhaseOf

LEMMA CompleteWay ==
    ASSUME TuiInv, Tui, NEW r \in Rows, NEW k, Complete(r, k),
           UNCHANGED <<phase, attempts>>
    PROVE  WayInv'
<1> DEFINE e == Ev("Completed", r, retries[r])
<1>1. /\ stage[r] = "fetching" /\ Leave(r) /\ result' = [result EXCEPT ![r] = k]
      /\ k \in Results /\ k # "failed" /\ tried' = tried
      /\ Emit(<<Ev("Response", r, 0), e>>)
  BY DEF Complete, Answers, Results
<1>2. FullInv
  BY DEF TuiInv
<1>3. /\ FinalPhase(r) = "InFlight" /\ FinalPhase(r)' = "Done"
      /\ \A s \in Rows \ {r} : FinalPhase(s)' = FinalPhase(s)
  BY <1>1, <1>2, LeavePhases
<1>4. retries[r] \in 0..(Retry + 1)
  BY ScrapeAssumption DEF TuiInv, FullInv, TypeOK
<1>5. e \in Event /\ e.row = r /\ e.kind = "Completed"
  BY <1>4 DEF Ev, Event, Kinds
<1>6. tried'[r] = tried[r] /\ ~Sets(e, r)
  BY <1>1, <1>5 DEF Sets
<1>7. Follows(FinalPhase(r), e.kind) /\ FinalPhase(r)' = Shown(e.kind)
  BY <1>3, <1>5 DEF Follows, Shown
<1> HIDE DEF e
<1>8. QED
  BY <1>1, <1>3, <1>5, <1>6, <1>7, RowReports

LEMMA FailWay ==
    ASSUME TuiInv, Tui, NEW r \in Rows, Fail(r), UNCHANGED <<phase, attempts>>
    PROVE  WayInv'
<1> DEFINE e == Ev("Failed", r, retries[r] + 1)
<1>1. /\ stage[r] = "fetching" /\ Leave(r) /\ result' = [result EXCEPT ![r] = "failed"]
      /\ tried' = tried /\ Emit(<<e>>)
  BY DEF Fail
<1>2. FullInv /\ "failed" \in Results
  BY DEF TuiInv, Results
<1>3. /\ FinalPhase(r) = "InFlight" /\ FinalPhase(r)' = "Failed"
      /\ \A s \in Rows \ {r} : FinalPhase(s)' = FinalPhase(s)
  BY <1>1, <1>2, LeavePhases
<1>4. /\ retries[r] + 1 \in 0..(Retry + 1) /\ tried[r] = retries[r] + 1
  BY <1>1, ScrapeAssumption DEF TuiInv, FullInv, TypeOK, AttemptInv
<1>5. e \in Event /\ e.row = r /\ e.kind = "Failed" /\ e.n = retries[r] + 1
  BY <1>4 DEF Ev, Event, Kinds
<1>6. tried'[r] = Number(e) /\ Sets(e, r)
  BY <1>1, <1>4, <1>5 DEF Number, Sets
<1>7. Follows(FinalPhase(r), e.kind) /\ FinalPhase(r)' = Shown(e.kind)
  BY <1>3, <1>5 DEF Follows, Shown
<1> HIDE DEF e
<1>8. QED
  BY <1>1, <1>3, <1>5, <1>6, <1>7, RowReports

LEMMA WorkWay ==
    ASSUME TuiInv, Tui, Work, UNCHANGED <<phase, attempts>>, FullInv'
    PROVE  WayInv'
<1>1. ASSUME SetupFails \/ WriteBack \/ WriteFails
      PROVE  WayInv'
  <2>1. UNCHANGED <<rowVars, events>>
    BY <1>1 DEF SetupFails, WriteBack, WriteFails
  <2>2. \A r \in Rows : FinalPhase(r)' = FinalPhase(r)
    BY <2>1 DEF FinalPhase, PhaseOf, rowVars
  <2>3. QED
    BY <2>1, <2>2, NothingReported DEF rowVars
<1>2. QED
  BY <1>1, SetupWay, StartWay, WaitWay, BackOffWay, RetryWay, CompleteWay, FailWay
     DEF Work, Polled, Answered

----------------------------------------------------------------------------
(* The display: what it shows *)

ListUrls == {UrlOf[r] : r \in Rows}

LEMMA ListFinite == IsFiniteSet(ListUrls)
<1>1. IsFiniteSet(Rows)
  BY FS_Interval, ScrapeAssumption DEF Rows
<1>2. UrlOf \in Surjection(Rows, ListUrls)
  BY ScrapeAssumption DEF Surjection, ListUrls
<1>3. QED
  BY <1>1, <1>2, FS_Surjection

\* A list of distinct URLs has a URL for each row.
LEMMA ListCounted == ASSUME DistinctUrls PROVE Cardinality(ListUrls) = NRows
<1>1. IsFiniteSet(Rows) /\ Cardinality(Rows) = NRows
  BY FS_Interval, ScrapeAssumption DEF Rows
<1>2. UrlOf \in Surjection(Rows, ListUrls) /\ UrlOf \in Injection(Rows, ListUrls)
  BY ScrapeAssumption DEF Surjection, Injection, IsInjective, ListUrls, DistinctUrls
<1>3. QED
  BY <1>1, <1>2, FS_Surjection

LEMMA LinesFinite ==
    ASSUME KnownInv, NEW P, "unknown" \notin P
    PROVE  IsFiniteSet(InPhase(P)) /\ Cardinality(InPhase(P)) \in Nat
<1>1. InPhase(P) \subseteq ListUrls
  BY DEF InPhase, KnownInv, ListUrls
<1>2. QED
  BY <1>1, ListFinite, FS_Subset, FS_CardinalityType

\* A line that moves is counted where it moves to, and no longer where it was.
LEMMA LineMoves ==
    ASSUME KnownInv, ShownTypes, NEW u \in Urls, NEW q,
           phase' = [phase EXCEPT ![u] = q], NEW P, "unknown" \notin P
    PROVE  /\ Cardinality(InPhase(P)) \in Nat
           /\ (phase[u] \in P <=> q \in P) => InPhase(P)' = InPhase(P)
           /\ phase[u] \notin P /\ q \in P =>
                 Cardinality(InPhase(P)') = Cardinality(InPhase(P)) + 1
           /\ phase[u] \in P /\ q \notin P =>
                 /\ Cardinality(InPhase(P)) > 0
                 /\ Cardinality(InPhase(P)') = Cardinality(InPhase(P)) - 1
<1> DEFINE S == InPhase(P)
           T == InPhase(P)'
<1>1. IsFiniteSet(S) /\ Cardinality(S) \in Nat
  BY LinesFinite
<1>2. /\ \A v \in Urls \ {u} : phase'[v] = phase[v]
      /\ phase'[u] = q
  BY DEF ShownTypes
<1>3. /\ \A v \in Urls \ {u} : v \in S <=> v \in T
      /\ u \in S <=> phase[u] \in P
      /\ u \in T <=> q \in P
      /\ S \subseteq Urls /\ T \subseteq Urls
  BY <1>2 DEF InPhase
<1> HIDE DEF S, T
<1>4. (phase[u] \in P <=> q \in P) => T = S
  BY <1>3
<1>5. ASSUME phase[u] \notin P, q \in P
      PROVE  Cardinality(T) = Cardinality(S) + 1
  <2>1. T = S \cup {u} /\ u \notin S
    BY <1>3, <1>5
  <2>2. QED
    BY <1>1, <2>1, FS_AddElement
<1>6. ASSUME phase[u] \in P, q \notin P
      PROVE  Cardinality(S) > 0 /\ Cardinality(T) = Cardinality(S) - 1
  <2>1. T = S \ {u} /\ u \in S
    BY <1>3, <1>6
  <2>2. Cardinality(T) = Cardinality(S) - 1
    BY <1>1, <2>1, FS_RemoveElement
  <2>3. Cardinality(S) # 0
    BY <1>1, <2>1, FS_EmptySet
  <2>4. QED
    BY <1>1, <2>2, <2>3
<1>7. QED
  BY <1>1, <1>4, <1>5, <1>6 DEF S, T

\* The event that is shown finds the line it expects, and takes it where it says.
LEMMA ShowMoves ==
    ASSUME TuiInv, Show
    PROVE  LET e == Head(events)
               u == UrlOf[e.row]
           IN  /\ e \in Event /\ u \in Urls
               /\ e.kind # "Response" => Follows(phase[u], e.kind)
               /\ phase' = IF e.kind = "Response" THEN phase
                           ELSE [phase EXCEPT ![u] = Shown(e.kind)]
               /\ attempts' = IF Sets(e, e.row) THEN [attempts EXCEPT ![u] = Number(e)]
                              ELSE attempts
               /\ events \in Seq(Event) /\ events # <<>> /\ events' = Tail(events)
<1> DEFINE e == Head(events)
           u == UrlOf[e.row]
           p == phase[u]
<1>1. events \in Seq(Event) /\ events # <<>> /\ events' = Tail(events) /\ Apply(e)
  BY DEF Show, TuiInv, FullInv, TypeOK
<1>2. e \in Event
  BY <1>1
<1>3. e.row \in Rows /\ u \in Urls /\ e.kind \in Kinds
  BY <1>2, ScrapeAssumption DEF Event
<1>4. Leads(p, events, e.row, FinalPhase(e.row))
  BY <1>3 DEF TuiInv, WayInv
<1>5. e.kind # "Response" => Follows(p, e.kind)
  <2> HIDE DEF e, p
  <2>1. QED
    BY <1>1, <1>4, LeadsFrom DEF About, e
<1>6. phase \in [Urls -> Phases]
  BY DEF TuiInv, ShownTypes
<1> HIDE DEF e
<1>7. /\ e.kind = "Queued" => /\ phase' = [phase EXCEPT ![u] = "Queued"]
                              /\ attempts' = attempts
      /\ e.kind = "RequestStart" => /\ phase' = [phase EXCEPT ![u] = "InFlight"]
                                    /\ attempts' = [attempts EXCEPT ![u] = e.n + 1]
      /\ e.kind = "Response" => phase' = phase /\ attempts' = attempts
      /\ e.kind = "BackoffStart" => /\ phase' = [phase EXCEPT ![u] = "BackingOff"]
                                    /\ attempts' = [attempts EXCEPT ![u] = e.n + 1]
      /\ e.kind = "Completed" => /\ phase' = [phase EXCEPT ![u] = "Done"]
                                 /\ attempts' = attempts
      /\ e.kind = "Failed" => /\ phase' = [phase EXCEPT ![u] = "Failed"]
                              /\ attempts' = [attempts EXCEPT ![u] = e.n]
  BY <1>1, <1>5 DEF Apply, Announce, StartAttempt, StartBackoff, ShowCompleted, ShowFailed,
     Follows
<1>8. QED
  BY <1>1, <1>2, <1>3, <1>5, <1>7 DEF Shown, Sets, Number, Kinds, e

LEMMA ShowWay ==
    ASSUME TuiInv, DistinctUrls, Show
    PROVE  WayInv'
<1> DEFINE e == Head(events)
           u == UrlOf[e.row]
<1>1. /\ e \in Event /\ u \in Urls
      /\ phase' = IF e.kind = "Response" THEN phase
                  ELSE [phase EXCEPT ![u] = Shown(e.kind)]
      /\ attempts' = IF Sets(e, e.row) THEN [attempts EXCEPT ![u] = Number(e)] ELSE attempts
      /\ events \in Seq(Event) /\ events # <<>> /\ events' = Tail(events)
  BY ShowMoves
<1>2. phase \in [Urls -> Phases] /\ attempts \in [Urls -> Int]
  BY DEF TuiInv, ShownTypes
<1>3. UNCHANGED <<pulled, stage, result, tried>>
  BY DEF Show, rowVars
<1>4. ASSUME NEW s \in Rows
      PROVE  /\ Leads(phase'[UrlOf[s]], events', s, FinalPhase(s)')
             /\ Counts(attempts'[UrlOf[s]], events', s, tried'[s])
  <2> DEFINE p == phase[UrlOf[s]]
             a == attempts[UrlOf[s]]
             t == FinalPhase(s)
  <2>1. Leads(p, events, s, t) /\ Counts(a, events, s, tried[s])
    BY DEF TuiInv, WayInv
  <2>2. FinalPhase(s)' = t /\ tried'[s] = tried[s]
    BY <1>3 DEF FinalPhase, PhaseOf
  <2>3. UrlOf[s] \in Urls /\ e.row \in Rows
    BY <1>1, ScrapeAssumption DEF Event
  <2> HIDE DEF p, a, t, e
  <2>4. /\ Leads(IF About(e, s) THEN Shown(e.kind) ELSE p, Tail(events), s, t)
        /\ Counts(IF Sets(e, s) THEN Number(e) ELSE a, Tail(events), s, tried[s])
    BY <1>1, <2>1, LeadsFrom, CountsFrom DEF e
  <2>5. phase'[UrlOf[s]] = IF About(e, s) THEN Shown(e.kind) ELSE p
    <3>1. CASE e.row = s
      BY <1>1, <1>2, <2>3, <3>1 DEF About, p
    <3>2. CASE e.row # s
      <4>1. UrlOf[s] # u
        BY <2>3, <3>2 DEF DistinctUrls
      <4>2. QED
        BY <1>1, <1>2, <2>3, <3>2, <4>1 DEF About, p
    <3>3. QED
      BY <3>1, <3>2
  <2>6. attempts'[UrlOf[s]] = IF Sets(e, s) THEN Number(e) ELSE a
    <3>1. CASE e.row = s
      BY <1>1, <1>2, <2>3, <3>1 DEF a
    <3>2. CASE e.row # s
      <4>1. UrlOf[s] # u /\ ~Sets(e, s)
        BY <2>3, <3>2 DEF DistinctUrls, Sets
      <4>2. QED
        BY <1>1, <1>2, <2>3, <4>1 DEF a
    <3>3. QED
      BY <3>1, <3>2
  <2>7. QED
    BY <1>1, <2>2, <2>4, <2>5, <2>6
<1>5. QED
  BY <1>4 DEF WayInv

LEMMA ShowHeader ==
    ASSUME TuiInv, Show
    PROVE  HeaderInv'
<1> DEFINE e == Head(events)
           u == UrlOf[e.row]
           p == phase[u]
           A == {"InFlight", "BackingOff"}
           D == {"Done"}
           F == {"Failed"}
<1>1. /\ e \in Event /\ u \in Urls
      /\ e.kind # "Response" => Follows(p, e.kind)
      /\ phase' = IF e.kind = "Response" THEN phase
                  ELSE [phase EXCEPT ![u] = Shown(e.kind)]
  BY ShowMoves
<1>2. /\ active = Cardinality(InPhase(A)) /\ completed = Cardinality(InPhase(D))
      /\ hist = completed /\ failed = Cardinality(InPhase(F))
  BY DEF TuiInv, HeaderInv
<1>3. Apply(e)
  BY DEF Show
<1>4. e.kind \in Kinds
  BY <1>1 DEF Event
<1> HIDE DEF e
<1>5. CASE e.kind = "Response"
  <2>1. UNCHANGED <<phase, active, completed, failed, hist>>
    BY <1>3, <1>5 DEF Apply
  <2>2. QED
    BY <1>2, <2>1 DEF HeaderInv, InPhase
<1>6. CASE e.kind # "Response"
  <2> DEFINE q == Shown(e.kind)
  <2>1. phase' = [phase EXCEPT ![u] = q] /\ Follows(p, e.kind)
    BY <1>1, <1>6
  <2>2. ASSUME NEW P, "unknown" \notin P
        PROVE  /\ Cardinality(InPhase(P)) \in Nat
               /\ (p \in P <=> q \in P) => InPhase(P)' = InPhase(P)
               /\ p \notin P /\ q \in P =>
                     Cardinality(InPhase(P)') = Cardinality(InPhase(P)) + 1
               /\ p \in P /\ q \notin P =>
                     /\ Cardinality(InPhase(P)) > 0
                     /\ Cardinality(InPhase(P)') = Cardinality(InPhase(P)) - 1
    <3> HIDE DEF q
    <3>1. KnownInv /\ ShownTypes
      BY DEF TuiInv
    <3>2. QED
      BY <1>1, <2>1, <2>2, <3>1, LineMoves
  <2>3. /\ active' = Cardinality(InPhase(A)') /\ completed' = Cardinality(InPhase(D)')
        /\ hist' = completed' /\ failed' = Cardinality(InPhase(F)')
    <3>1. CASE e.kind = "Queued"
      <4>1. p = "unknown" /\ q = "Queued" /\ UNCHANGED <<active, completed, failed, hist>>
        BY <1>3, <2>1, <3>1 DEF Follows, Shown, Apply, Announce
      <4>2. InPhase(A)' = InPhase(A) /\ InPhase(D)' = InPhase(D) /\ InPhase(F)' = InPhase(F)
        BY <2>2, <4>1
      <4>3. QED
        BY <1>2, <4>1, <4>2
    <3>2. CASE e.kind = "RequestStart"
      <4>1. /\ p \in {"Queued", "BackingOff"} /\ q = "InFlight"
            /\ active' = IF p = "Queued" THEN active + 1 ELSE active
            /\ UNCHANGED <<completed, failed, hist>>
        BY <1>3, <2>1, <3>2 DEF Follows, Shown, Apply, StartAttempt, IsNew
      <4>2. InPhase(D)' = InPhase(D) /\ InPhase(F)' = InPhase(F)
        BY <2>2, <4>1
      <4>3. Cardinality(InPhase(A)') =
               IF p = "Queued" THEN Cardinality(InPhase(A)) + 1 ELSE Cardinality(InPhase(A))
        BY <2>2, <4>1
      <4>4. QED
        BY <1>2, <4>1, <4>2, <4>3
    <3>3. CASE e.kind = "BackoffStart"
      <4>1. p = "InFlight" /\ q = "BackingOff" /\ UNCHANGED <<active, completed, failed, hist>>
        BY <1>3, <2>1, <3>3 DEF Follows, Shown, Apply, StartBackoff
      <4>2. InPhase(A)' = InPhase(A) /\ InPhase(D)' = InPhase(D) /\ InPhase(F)' = InPhase(F)
        BY <2>2, <4>1
      <4>3. QED
        BY <1>2, <4>1, <4>2
    <3>4. CASE e.kind = "Completed"
      <4>1. p = "InFlight" /\ q = "Done"
        BY <2>1, <3>4 DEF Follows, Shown
      <4>2. /\ InPhase(F)' = InPhase(F) /\ Cardinality(InPhase(A)) > 0
            /\ Cardinality(InPhase(A)') = Cardinality(InPhase(A)) - 1
            /\ Cardinality(InPhase(D)') = Cardinality(InPhase(D)) + 1
        BY <2>2, <4>1
      <4>3. /\ active' = active - 1 /\ completed' = completed + 1
            /\ hist' = hist + 1 /\ failed' = failed
        BY <1>2, <1>3, <3>4, <4>1, <4>2 DEF Apply, ShowCompleted, Deactivate, WasActive, IsOpen
      <4>4. QED
        BY <1>2, <4>2, <4>3
    <3>5. CASE e.kind = "Failed"
      <4>1. p = "InFlight" /\ q = "Failed"
        BY <2>1, <3>5 DEF Follows, Shown
      <4>2. /\ InPhase(D)' = InPhase(D) /\ Cardinality(InPhase(A)) > 0
            /\ Cardinality(InPhase(A)') = Cardinality(InPhase(A)) - 1
            /\ Cardinality(InPhase(F)') = Cardinality(InPhase(F)) + 1
        BY <2>2, <4>1
      <4>3. /\ active' = active - 1 /\ completed' = completed
            /\ hist' = hist /\ failed' = failed + 1
        BY <1>2, <1>3, <3>5, <4>1, <4>2 DEF Apply, ShowFailed, Deactivate, WasActive, IsOpen
      <4>4. QED
        BY <1>2, <4>2, <4>3
    <3>6. QED
      BY <1>4, <1>6, <3>1, <3>2, <3>3, <3>4, <3>5 DEF Kinds
  <2>4. QED
    BY <2>3 DEF HeaderInv
<1>7. QED
  BY <1>5, <1>6

----------------------------------------------------------------------------
(* The display: the theorems *)

\* A step of the display, or of the user, leaves the rows alone.
LEMMA RowsStay ==
    ASSUME FullInv, UNCHANGED <<rowVars, saved>>, task' \in {task, "aborted"},
           events' \in Seq(Event)
    PROVE  FullInv'
<1>1. TypeOK'
  BY DEF FullInv, TypeOK, rowVars, Tasks
<1>2. AttemptInv'
  BY DEF FullInv, AttemptInv, rowVars
<1>3. QueueInv' /\ PermitInv'
  BY DEF FullInv, QueueInv, PermitInv, Holders, Throttles, Host, rowVars
<1>4. QED
  BY <1>1, <1>2, <1>3 DEF FullInv

\* The rows keep their invariant beside the display as they do alone.
LEMMA BesideInv == FullInv /\ [TuiNext]_tuiVars => FullInv'
<1> SUFFICES ASSUME FullInv, [TuiNext]_tuiVars
             PROVE  FullInv'
  OBVIOUS
<1>1. CASE Work
  BY <1>1, StepInv DEF Next
<1>2. CASE Show
  <2>1. events \in Seq(Event) /\ events # <<>> /\ events' = Tail(events)
    BY <1>2 DEF Show, FullInv, TypeOK
  <2>2. events' \in Seq(Event)
    BY <2>1
  <2>3. QED
    BY <1>2, <2>2, RowsStay DEF Show
<1>3. CASE Abort
  <2>1. events' \in Seq(Event)
    BY <1>3 DEF Abort, FullInv, TypeOK
  <2>2. QED
    BY <1>3, <2>1, RowsStay DEF Abort
<1>4. CASE ShowEnd \/ Quit \/ Left \/ UNCHANGED tuiVars
  <2>1. UNCHANGED vars
    BY <1>4 DEF ShowEnd, Quit, Left, tuiVars
  <2>2. QED
    BY <2>1, StepInv
<1>5. QED
  BY <1>1, <1>2, <1>3, <1>4 DEF TuiNext

LEMMA TuiInitInv == TuiInit => TuiInv
<1> SUFFICES ASSUME TuiInit PROVE TuiInv
  OBVIOUS
<1>1. FullInv
  BY InitInv DEF TuiInit
<1>2. ShownTypes /\ KnownInv
  <2>1. phase \in [Urls -> Phases] /\ \A u \in Urls : phase[u] = "unknown"
    BY DEF TuiInit, Phases
  <2>2. attempts \in [Urls -> Int]
    BY DEF TuiInit
  <2>3. {finished, quit} \subseteq BOOLEAN
    BY DEF TuiInit
  <2>4. QED
    BY <2>1, <2>2, <2>3 DEF ShownTypes, KnownInv
<1>3. EndedInv
  <2>1. task = "starting" /\ events = <<>> /\ pulled = 0 /\ finished = FALSE
    BY DEF TuiInit, Init
  <2>2. QED
    BY <2>1 DEF EndedInv
<1>4. WayInv
  <2>1. ASSUME NEW r \in Rows
        PROVE  /\ phase[UrlOf[r]] = FinalPhase(r) /\ attempts[UrlOf[r]] = tried[r]
               /\ events = <<>>
    BY ScrapeAssumption DEF TuiInit, Init, FinalPhase
  <2>2. QED
    BY <2>1, LeadsEmpty, CountsEmpty DEF WayInv
<1>5. HeaderInv
  <2>1. \A P : "unknown" \notin P => InPhase(P) = {}
    BY DEF TuiInit, InPhase
  <2>2. QED
    BY <2>1, FS_EmptySet DEF TuiInit, HeaderInv
<1>6. QED
  BY <1>1, <1>2, <1>3, <1>4, <1>5 DEF TuiInv

\* How the task can end, through each of its steps.
LEMMA WorkEnds ==
    ASSUME TuiInv, Work, UNCHANGED <<display, quit>>
    PROVE  EndedInv'
<1>1. task \in {"starting", "running"} /\ finished' = finished /\ quit' = quit
  BY DEF Work, SetupFails, Setup, WriteBack, WriteFails, Polled, Answered, Enter, Wait,
     Resume, BackOff, RetryNow, Complete, Fail, display
<1>2. ~finished
  BY <1>1 DEF TuiInv, EndedInv
<1>3. task = "starting" => pulled = 0
  BY DEF TuiInv, FullInv, AttemptInv
<1>4. pulled \in 0..NRows /\ NRows \in Nat /\ Window \in Nat \ {0}
  BY ScrapeAssumption DEF TuiInv, FullInv, TypeOK, Window
<1>5. CASE SetupFails
  <2>1. task' = "error" /\ pulled' = 0
    BY <1>3, <1>5 DEF SetupFails, rowVars
  <2>2. QED
    BY <1>1, <1>2, <2>1 DEF EndedInv
<1>6. CASE Setup
  <2>1. task' = "running" /\ (NRows > 0 => pulled' > 0)
    BY <1>4, <1>6 DEF Setup
  <2>2. QED
    BY <1>1, <1>2, <2>1 DEF EndedInv
<1>7. CASE WriteBack \/ WriteFails
  <2>1. task' \in {"over", "error"} /\ AllDone'
    BY <1>7 DEF WriteBack, WriteFails, AllDone, rowVars
  <2>2. QED
    BY <1>1, <1>2, <2>1 DEF EndedInv
<1>8. ASSUME NEW r \in Rows, Polled(r) \/ Answered(r)
      PROVE  EndedInv'
  <2>1. task = "running" /\ task' = "running"
    BY <1>8 DEF Polled, Answered, Enter, Wait, Resume, BackOff, RetryNow, Complete, Fail
  <2>2. pulled' = pulled \/ pulled' = pulled + 1
    BY <1>8 DEF Polled, Answered, Enter, Wait, Resume, BackOff, RetryNow, Complete, Fail, Leave
  <2>3. NRows > 0 => pulled' > 0
    BY <1>4, <2>1, <2>2 DEF TuiInv, EndedInv
  <2>4. QED
    BY <1>1, <1>2, <2>1, <2>3 DEF EndedInv
<1>9. QED
  BY <1>5, <1>6, <1>7, <1>8 DEF Work

LEMMA TuiStepInv ==
    ASSUME DistinctUrls, Tui
    PROVE  TuiInv /\ [TuiNext]_tuiVars => TuiInv'
<1> SUFFICES ASSUME TuiInv, [TuiNext]_tuiVars
             PROVE  TuiInv'
  OBVIOUS
<1>1. FullInv'
  BY BesideInv DEF TuiInv
<1>2. CASE Work /\ UNCHANGED <<display, quit>>
  <2>1. UNCHANGED <<phase, attempts, active, completed, failed, hist, finished, quit>>
    BY <1>2 DEF display
  <2>2. WayInv'
    BY <1>1, <1>2, <2>1, WorkWay
  <2>3. EndedInv'
    BY <1>2, WorkEnds
  <2>4. ShownTypes' /\ KnownInv' /\ HeaderInv'
    BY <2>1 DEF TuiInv, ShownTypes, KnownInv, HeaderInv, InPhase
  <2>5. QED
    BY <1>1, <2>2, <2>3, <2>4 DEF TuiInv
<1>3. CASE Show
  <2> DEFINE e == Head(events)
             u == UrlOf[e.row]
  <2>1. /\ e \in Event /\ u \in Urls
        /\ e.kind # "Response" => Follows(phase[u], e.kind)
        /\ phase' = IF e.kind = "Response" THEN phase
                    ELSE [phase EXCEPT ![u] = Shown(e.kind)]
        /\ attempts' = IF Sets(e, e.row) THEN [attempts EXCEPT ![u] = Number(e)]
                       ELSE attempts
        /\ events # <<>>
    BY <1>3, ShowMoves
  <2>2. e.row \in Rows /\ e.kind \in Kinds /\ Number(e) \in Int
    BY <2>1, ScrapeAssumption DEF Event, Number
  <2>3. ShownTypes'
    <3>1. phase' \in [Urls -> Phases] /\ attempts' \in [Urls -> Int]
      BY <2>1, <2>2 DEF TuiInv, ShownTypes, Phases, Shown, Kinds
    <3>2. QED
      BY <1>3, <3>1 DEF TuiInv, ShownTypes, Show
  <2>4. KnownInv'
    BY <2>1, <2>2 DEF TuiInv, KnownInv, ShownTypes
  <2>5. EndedInv'
    <3>1. ~finished /\ task # "starting"
      BY <2>1 DEF TuiInv, EndedInv
    <3>2. UNCHANGED <<task, pulled, stage, finished, quit>>
      BY <1>3 DEF Show, rowVars
    <3>3. QED
      BY <3>1, <3>2 DEF TuiInv, EndedInv, AllDone
  <2>6. QED
    BY <1>1, <1>3, <2>3, <2>4, <2>5, ShowWay, ShowHeader DEF TuiInv
<1>4. CASE ShowEnd \/ Quit \/ Abort \/ Left \/ UNCHANGED tuiVars
  <2>1. UNCHANGED <<pulled, stage, tried, result, events,
                    phase, attempts, active, completed, failed, hist>>
    BY <1>4 DEF ShowEnd, Quit, Abort, Left, tuiVars, vars, rowVars, display
  <2>2. ShownTypes' /\ KnownInv' /\ HeaderInv'
    BY <1>4, <2>1 DEF TuiInv, ShownTypes, KnownInv, HeaderInv, InPhase, ShowEnd, Quit, Abort,
       Left, tuiVars, display
  <2>3. WayInv'
    BY <2>1 DEF TuiInv, WayInv, FinalPhase, PhaseOf
  <2>4. EndedInv'
    <3>1. CASE ShowEnd
      <4>1. task # "aborted"
        BY <3>1 DEF ShowEnd, TuiInv, EndedInv
      <4>2. QED
        BY <2>1, <3>1, <4>1 DEF ShowEnd, Ended, Drained, TuiInv, EndedInv, AllDone, vars
    <3>2. CASE Quit
      BY <2>1, <3>2 DEF Quit, TuiInv, EndedInv, AllDone, vars, display
    <3>3. CASE Abort
      BY <2>1, <3>3 DEF Abort, Ended, TuiInv, EndedInv, AllDone, display
    <3>4. CASE Left \/ UNCHANGED tuiVars
      BY <2>1, <3>4 DEF Left, TuiInv, EndedInv, AllDone, tuiVars, vars, display
    <3>5. QED
      BY <1>4, <3>1, <3>2, <3>3, <3>4
  <2>5. QED
    BY <1>1, <2>2, <2>3, <2>4 DEF TuiInv
<1>5. QED
  BY <1>2, <1>3, <1>4 DEF TuiNext

\* The dashboard and the scrape run side by side without disturbing what was
\* proved of the scrape alone: under --tui too no host has more rows past the
\* limiter than --per-host-concurrency allows, no permit lies idle while a row
\* waits, and no row makes more requests than --retry allows; and that when the
\* user leaves, and the task is stopped between any two of its steps.
THEOREM BesideTheDisplay == TuiSpec => [](HostCap /\ NoIdlePermit /\ RetryBudget)
<1>1. TuiInit => FullInv
  BY InitInv DEF TuiInit
<1>2. FullInv => HostCap /\ NoIdlePermit /\ RetryBudget
  BY CapFromInv, IdleFromInv, BudgetFromInv
<1>3. QED
  BY <1>1, <1>2, BesideInv, PTL DEF TuiSpec

LEMMA TuiAlways == ASSUME DistinctUrls, Tui PROVE TuiSpec => []TuiInv
<1>1. TuiInv /\ [TuiNext]_tuiVars => TuiInv'
  BY TuiStepInv
<1>2. QED
  BY <1>1, TuiInitInv, PTL DEF TuiSpec

\* Whatever of the scrape it has seen, the header of the dashboard counts each
\* URL once, where its line says it is; and a dashboard that has caught up shows
\* what each row is doing and how many attempts it has made (AppState::apply),
\* for every list of distinct URLs.
THEOREM HeaderAndLinesAgree ==
    ASSUME DistinctUrls, Tui
    PROVE  TuiSpec => []DisplayAgrees
<1>1. TuiInv => DisplayAgrees
  <2> SUFFICES ASSUME TuiInv PROVE DisplayAgrees
    OBVIOUS
  <2>1. ASSUME events = <<>>, pulled > 0, NEW r \in Rows
        PROVE  phase[UrlOf[r]] = PhaseOf(r) /\ attempts[UrlOf[r]] = tried[r]
    <3>1. FinalPhase(r) = PhaseOf(r)
      <4>1. pulled \in 0..NRows /\ NRows \in Nat
        BY ScrapeAssumption DEF TuiInv, FullInv, TypeOK
      <4>2. QED
        BY <2>1, <4>1 DEF FinalPhase
    <3>2. QED
      BY <2>1, <3>1, LeadsEmpty, CountsEmpty DEF TuiInv, WayInv
  <2>2. QED
    BY <2>1 DEF DisplayAgrees, TuiInv, HeaderInv
<1>2. QED
  BY <1>1, TuiAlways, PTL

\* When the dashboard says "finished" (run_tui, the channel closed), no URL is
\* left in flight, and after a scrape that got as far as its rows every URL is
\* counted as completed or as failed.
THEOREM FinishedCountsAll ==
    ASSUME DistinctUrls, Tui
    PROVE  TuiSpec => []FinishedIsComplete
<1> DEFINE A == {"InFlight", "BackingOff"}
           D == {"Done"}
           F == {"Failed"}
<1>1. TuiInv => FinishedIsComplete
  <2> SUFFICES ASSUME TuiInv, finished
               PROVE  active = 0 /\ (pulled > 0 => completed + failed = NRows)
    BY DEF FinishedIsComplete
  <2>1. events = <<>> /\ (pulled = 0 \/ AllDone)
    BY DEF TuiInv, EndedInv
  <2>2. \A r \in Rows : phase[UrlOf[r]] = FinalPhase(r)
    BY <2>1, LeadsEmpty DEF TuiInv, WayInv
  <2>3. \A r \in Rows : /\ FinalPhase(r) \in {"unknown", "Done", "Failed"}
                        /\ pulled > 0 => FinalPhase(r) \in {"Done", "Failed"}
    <3>1. pulled \in 0..NRows /\ NRows \in Nat
      BY ScrapeAssumption DEF TuiInv, FullInv, TypeOK
    <3>2. QED
      BY <2>1, <3>1 DEF FinalPhase, PhaseOf, AllDone
  <2>4. InPhase(A) = {}
    BY <2>2, <2>3 DEF InPhase, TuiInv, KnownInv
  <2>5. active = 0
    BY <2>4, FS_EmptySet DEF TuiInv, HeaderInv
  <2>6. ASSUME pulled > 0
        PROVE  completed + failed = NRows
    <3>1. InPhase(D) \cup InPhase(F) = ListUrls /\ InPhase(D) \cap InPhase(F) = {}
      <4>1. \A r \in Rows : UrlOf[r] \in Urls
        BY ScrapeAssumption
      <4>2. QED
        BY <2>2, <2>3, <2>6, <4>1 DEF InPhase, TuiInv, KnownInv, ListUrls
    <3>2. /\ IsFiniteSet(InPhase(D)) /\ Cardinality(InPhase(D)) \in Nat
          /\ IsFiniteSet(InPhase(F)) /\ Cardinality(InPhase(F)) \in Nat
      BY LinesFinite DEF TuiInv
    <3>3. Cardinality(ListUrls) = Cardinality(InPhase(D)) + Cardinality(InPhase(F))
      BY <3>1, <3>2, FS_Union, FS_EmptySet
    <3>4. Cardinality(ListUrls) = NRows
      BY ListCounted
    <3>5. QED
      BY <3>3, <3>4 DEF TuiInv, HeaderInv
  <2>7. QED
    BY <2>5, <2>6
<1>2. QED
  BY <1>1, TuiAlways, PTL

=============================================================================
