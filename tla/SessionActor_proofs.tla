------------------------ MODULE SessionActor_proofs ------------------------
(***************************************************************************)
(* Theorems about SessionActor, for every set of callers, number of calls  *)
(* and chain length.                                                       *)
(***************************************************************************)
EXTENDS SessionActor, SequenceTheorems, FiniteSetTheorems, TLAPS

----------------------------------------------------------------------------
(* Types *)

Effect == [id : 1..MaxCalls, step : 1..MaxSteps]

LEMMA DeliverTypes ==
    ASSUME TypeOK, NEW call \in Call,
           NEW kind \in {"pending", "ok", "error", "unbuilt", "gone"},
           NEW outs \in 0..MaxSteps, Deliver(call, kind, outs)
    PROVE  answer' \in [Clients -> Answer]
<1>1. call.id \in 0..MaxCalls /\ call.from \in Clients
  BY DEF Call
<1>2. [kind |-> kind, outs |-> outs, id |-> call.id] \in Answer
  BY <1>1 DEF Answer
<1>3. QED
  BY <1>1, <1>2 DEF Deliver, TypeOK

LEMMA PendingTyped == Pending \in Answer
BY ActorAssumption DEF Pending, Answer

LEMMA NothingIsNoCall == Nothing \notin Call
BY DEF Nothing, Call

\* The number of steps of a running command, and what Executed appends.
LEMMA Running ==
    ASSUME TypeOK, actor.cmd # Nothing
    PROVE  /\ actor.cmd \in Call
           /\ actor.cmd.id \in 1..MaxCalls
           /\ actor.cmd.steps \in 1..MaxSteps
           /\ actor.done \in 0..MaxSteps
BY DEF TypeOK, ActorState, Call

LEMMA ExecutedTypes ==
    ASSUME TypeOK, actor.cmd # Nothing, actor.done < actor.cmd.steps, Executed
    PROVE  /\ effects' \in Seq(Effect)
           /\ effects' = Append(effects,
                                [id |-> actor.cmd.id, step |-> actor.done + 1])
           /\ actor.done + 1 \in 1..MaxSteps
<1>1. actor.done + 1 \in 1..MaxSteps /\ actor.cmd.id \in 1..MaxCalls
  BY Running, ActorAssumption
<1>2. [id |-> actor.cmd.id, step |-> actor.done + 1] \in Effect
  BY <1>1 DEF Effect
<1>3. effects \in Seq(Effect)
  BY DEF TypeOK, Effect
<1>4. QED
  BY <1>1, <1>2, <1>3 DEF Executed

\* How far the actor is in its command.
StepLeft == actor.cmd # Nothing => actor.done < actor.cmd.steps

TypeInv == TypeOK /\ StepLeft

LEMMA InitTypes == Init => TypeInv
<1> SUFFICES ASSUME Init PROVE TypeInv
  OBVIOUS
<1>1. [id |-> 1, from |-> Opener, steps |-> 1] \in Call
  BY ActorAssumption DEF Call
<1>2. queue \in Seq(Call)
  BY <1>1 DEF Init
<1>3. actor \in ActorState
  BY ActorAssumption DEF Init, ActorState
<1>4. holders \in SUBSET Clients /\ sent \in 0..MaxCalls
      /\ waiting \in [Clients -> 0..MaxCalls]
      /\ answer \in [Clients -> Answer]
  BY ActorAssumption, PendingTyped DEF Init
<1>5. effects \in Seq([id : 1..MaxCalls, step : 1..MaxSteps])
  BY DEF Init
<1>6. QED
  BY <1>2, <1>3, <1>4, <1>5 DEF Init, TypeInv, TypeOK, StepLeft

LEMMA CallerTypes ==
    ASSUME TypeInv, NEW c \in Clients,
           \/ \E n \in 1..MaxSteps : Send(c, n)
           \/ Return(c) \/ Abandon(c) \/ Release(c)
           \/ \E d \in Clients : Share(c, d)
    PROVE  TypeInv'
<1>1. ASSUME NEW n \in 1..MaxSteps, Send(c, n)
      PROVE  TypeInv'
  <2>1. sent + 1 \in 1..MaxCalls
    BY <1>1, ActorAssumption DEF Send, TypeInv, TypeOK
  <2>2. [id |-> sent + 1, from |-> c, steps |-> n] \in Call
    BY <2>1 DEF Call
  <2>3. queue' \in Seq(Call)
    BY <1>1, <2>2 DEF Send, TypeInv, TypeOK
  <2>4. sent' \in 0..MaxCalls /\ waiting' \in [Clients -> 0..MaxCalls]
    BY <1>1, <2>1 DEF Send, TypeInv, TypeOK
  <2>5. QED
    BY <1>1, <2>3, <2>4 DEF Send, TypeInv, TypeOK, StepLeft
<1>2. CASE Return(c) \/ Abandon(c)
  <2>1. /\ waiting' = [waiting EXCEPT ![c] = 0]
        /\ answer' = [answer EXCEPT ![c] = Pending]
        /\ UNCHANGED <<holders, sent, queue, actor, effects>>
    BY <1>2 DEF Return, Abandon
  <2>2. /\ waiting' \in [Clients -> 0..MaxCalls]
        /\ answer' \in [Clients -> Answer]
    BY <2>1, PendingTyped, ActorAssumption DEF TypeInv, TypeOK
  <2>3. QED
    BY <2>1, <2>2 DEF TypeInv, TypeOK, StepLeft
<1>3. CASE Release(c) \/ \E d \in Clients : Share(c, d)
  BY <1>3 DEF Release, Share, TypeInv, TypeOK, StepLeft
<1>4. QED
  BY <1>1, <1>2, <1>3

LEMMA ActorTypes == TypeInv /\ ActorStep => TypeInv'
<1> SUFFICES ASSUME TypeInv, ActorStep PROVE TypeInv'
  OBVIOUS
<1>0. TypeOK /\ StepLeft
  BY DEF TypeInv
<1>1. CASE Start
  <2>1. actor' \in ActorState /\ StepLeft'
    BY <1>1, ActorAssumption DEF Start, ActorState, StepLeft
  <2>2. QED
    BY <1>0, <1>1, <2>1 DEF Start, TypeInv, TypeOK
<1>2. CASE Recv
  <2>1. Head(queue) \in Call /\ Tail(queue) \in Seq(Call)
    BY <1>0, <1>2 DEF Recv, TypeOK
  <2>2. queue' = Tail(queue)
        /\ actor' = [st |-> "serving", cmd |-> Head(queue), done |-> 0]
    BY <1>2 DEF Recv, Taken
  <2>3. actor' \in ActorState /\ StepLeft'
    <3>1. Head(queue).steps \in 1..MaxSteps
      BY <2>1 DEF Call
    <3>2. actor'.done = 0 /\ actor'.cmd = Head(queue) /\ 0 < Head(queue).steps
      BY <2>2, <3>1
    <3>3. actor' \in ActorState
      BY <2>1, <2>2, ActorAssumption DEF ActorState
    <3>4. QED
      BY <3>2, <3>3 DEF StepLeft
  <2>4. QED
    BY <1>0, <1>2, <2>1, <2>2, <2>3 DEF Recv, TypeInv, TypeOK
<1>3. CASE RecvFailing
  <2>1. Head(queue) \in Call /\ Tail(queue) \in Seq(Call)
    BY <1>0, <1>3 DEF RecvFailing, TypeOK
  <2>2. answer' \in [Clients -> Answer]
    BY <1>0, <1>3, <2>1, DeliverTypes, ActorAssumption DEF RecvFailing
  <2>3. QED
    BY <1>0, <1>3, <2>1, <2>2 DEF RecvFailing, TypeInv, TypeOK, StepLeft
<1>4. CASE StepOk
  <2>1. effects' \in Seq([id : 1..MaxCalls, step : 1..MaxSteps])
        /\ actor.done + 1 \in 1..MaxSteps
    BY <1>0, <1>4, ExecutedTypes DEF StepOk, StepLeft, Effect
  <2>2. actor' \in ActorState /\ StepLeft'
    <3>1. /\ actor' = [st |-> "serving", cmd |-> actor.cmd, done |-> actor.done + 1]
          /\ actor.done + 1 < actor.cmd.steps
      BY <1>4 DEF StepOk, MoreSteps
    <3>2. actor.cmd \in Call \cup {Nothing} /\ actor.done + 1 \in 0..MaxSteps
      BY <1>0, <2>1 DEF TypeOK, ActorState
    <3>3. actor' \in ActorState
      BY <3>1, <3>2 DEF ActorState
    <3>4. QED
      BY <3>1, <3>3 DEF StepLeft
  <2>3. QED
    BY <1>0, <1>4, <2>1, <2>2 DEF StepOk, TypeInv, TypeOK
<1>5. CASE LastStepOk \/ StepErr
  <2>1. effects' \in Seq([id : 1..MaxCalls, step : 1..MaxSteps])
    BY <1>0, <1>5, ExecutedTypes DEF LastStepOk, StepErr, StepLeft, Effect
  <2>2. actor.cmd \in Call /\ actor.cmd.steps \in 0..MaxSteps
    BY <1>0, <1>5, Running DEF LastStepOk, StepErr
  <2>3. answer' \in [Clients -> Answer]
    BY <1>0, <1>5, <2>2, DeliverTypes, ActorAssumption DEF LastStepOk, StepErr
  <2>4. actor' \in ActorState /\ StepLeft'
    BY <1>5, ActorAssumption DEF LastStepOk, StepErr, ActorState, StepLeft
  <2>5. QED
    BY <1>0, <1>5, <2>1, <2>3, <2>4 DEF LastStepOk, StepErr, TypeInv, TypeOK
<1>6. CASE Exit
  <2>1. queue' \in Seq(Call)
    BY <1>6 DEF Exit
  <2>2. actor' \in ActorState /\ StepLeft'
    BY <1>6, ActorAssumption DEF Exit, ActorState, StepLeft
  <2>3. QED
    BY <1>0, <1>6, <2>1, <2>2 DEF Exit, TypeInv, TypeOK
<1>7. QED
  BY <1>1, <1>2, <1>3, <1>4, <1>5, <1>6 DEF ActorStep

LEMMA PanicTypes == TypeInv /\ Panic => TypeInv'
<1> SUFFICES ASSUME TypeInv, Panic PROVE TypeInv'
  OBVIOUS
<1>1. \A c \in Clients : waiting[c] \in 0..MaxCalls /\ answer[c] \in Answer
  BY DEF TypeInv, TypeOK
<1>2. \A c \in Clients :
         [kind |-> "gone", outs |-> 0, id |-> waiting[c]] \in Answer
  BY <1>1, ActorAssumption DEF Answer
<1>3. answer' \in [Clients -> Answer]
  BY <1>1, <1>2 DEF Panic
<1>4. queue' \in Seq(Call)
  BY DEF Panic
<1>5. actor' \in ActorState /\ StepLeft'
  BY ActorAssumption DEF Panic, ActorState, StepLeft
<1>6. QED
  BY <1>3, <1>4, <1>5 DEF Panic, TypeInv, TypeOK

LEMMA NextTypes == TypeInv /\ [Next]_vars => TypeInv'
<1>1. TypeInv /\ UNCHANGED vars => TypeInv'
  BY DEF vars, TypeInv, TypeOK, StepLeft
<1>2. QED
  BY <1>1, CallerTypes, ActorTypes, PanicTypes DEF Next

LEMMA TypeInvariant == Spec => []TypeInv
BY InitTypes, NextTypes, PTL DEF Spec

\* Type correctness of the actor and its callers.
THEOREM TypeCorrect == Spec => []TypeOK
<1>1. TypeInv => TypeOK
  BY DEF TypeInv
<1>2. QED
  BY <1>1, TypeInvariant, PTL

----------------------------------------------------------------------------
(* Order of execution *)

\* How many commands have left the channel: the ids 1..Dequeued.
Dequeued == sent - Len(queue)

\* The channel holds consecutive ids, up to the last one sent; the running
\* command is the last one dequeued; what ran belongs to dequeued commands,
\* and to the running one no further than its steps done.
OrderInv ==
    /\ Dequeued \in Nat
    /\ \A i \in 1..Len(queue) : queue[i].id = Dequeued + i
    /\ actor.cmd # Nothing => actor.cmd.id = Dequeued
    /\ \A i \in DOMAIN effects :
          /\ effects[i].id <= Dequeued
          /\ actor.cmd # Nothing /\ effects[i].id = Dequeued
                => effects[i].step <= actor.done
    /\ Serial

\* What a dequeued command left behind: every command a serving actor is done
\* with ran, and nothing ran before it was serving.
RanInv ==
    /\ actor.st = "serving" =>
          \A id \in 1..Dequeued :
              actor.cmd = Nothing \/ id # actor.cmd.id => StepsOf(id) # {}
    /\ actor.st = "starting" => effects = <<>> /\ Dequeued = 0
    /\ actor.st = "failing" => effects = <<>>
    /\ actor.cmd # Nothing => actor.st = "serving"

IInv == TypeInv /\ OrderInv /\ RanInv /\ DrainedBeforeExit

LEMMA InitInv == Init => IInv
<1> SUFFICES ASSUME Init PROVE IInv
  OBVIOUS
<1>1. TypeInv
  BY InitTypes
<1>2. Len(queue) = 1 /\ queue[1].id = 1 /\ Dequeued = 0 /\ effects = <<>>
      /\ actor.cmd = Nothing /\ actor.st = "starting"
  BY DEF Init, Dequeued
<1>3. OrderInv
  BY <1>2 DEF OrderInv, Serial
<1>4. RanInv /\ DrainedBeforeExit
  BY <1>2 DEF RanInv, DrainedBeforeExit
<1>5. QED
  BY <1>1, <1>3, <1>4 DEF IInv

\* A step that leaves the channel, the effects and the actor alone.
LEMMA Untouched ==
    ASSUME IInv, TypeInv', UNCHANGED <<sent, queue, actor, effects>>
    PROVE  IInv'
BY DEF IInv, OrderInv, RanInv, DrainedBeforeExit, Dequeued, Serial, StepsOf

\* What executing one step does to the record of effects.
LEMMA ExecutedInv ==
    ASSUME IInv, actor.cmd # Nothing, Executed, UNCHANGED <<sent, queue>>
    PROVE  /\ Serial'
           /\ Dequeued' = Dequeued
           /\ \A i \in DOMAIN effects' :
                 /\ effects'[i].id <= Dequeued
                 /\ effects'[i].id = Dequeued => effects'[i].step <= actor.done + 1
           /\ \A id \in 1..Dequeued : StepsOf(id)' # {}
<1> DEFINE e == [id |-> actor.cmd.id, step |-> actor.done + 1]
           n == Len(effects)
<1>1. /\ TypeOK /\ actor.done < actor.cmd.steps /\ actor.cmd.id = Dequeued
      /\ Dequeued \in Nat
  BY DEF IInv, TypeInv, StepLeft, OrderInv
<1>2. /\ effects \in Seq(Effect) /\ effects' = Append(effects, e)
      /\ e \in Effect /\ n \in Nat
  BY <1>1, ExecutedTypes, Running DEF TypeOK, Effect
<1>3. /\ DOMAIN effects = 1..n /\ DOMAIN effects' = 1..(n + 1)
      /\ effects'[n + 1] = e
      /\ \A i \in 1..n : effects'[i] = effects[i]
  BY <1>2
<1>4. Dequeued' = Dequeued
  BY DEF Dequeued
<1>5. \A i \in 1..n : /\ effects[i].id \in Nat /\ effects[i].step \in Nat
                      /\ effects[i].id <= Dequeued
                      /\ effects[i].id = Dequeued => effects[i].step <= actor.done
  <2> SUFFICES ASSUME NEW i \in 1..n
               PROVE  /\ effects[i].id \in Nat /\ effects[i].step \in Nat
                      /\ effects[i].id <= Dequeued
                      /\ effects[i].id = Dequeued => effects[i].step <= actor.done
    OBVIOUS
  <2>1. effects[i] \in Effect
    BY <1>2, <1>3, ElementOfSeq
  <2>2. effects[i].id \in 1..MaxCalls /\ effects[i].step \in 1..MaxSteps
    BY <2>1 DEF Effect
  <2>3. effects[i].id \in Nat /\ effects[i].step \in Nat
    BY <2>2
  <2>4. QED
    BY <2>3, <1>3 DEF IInv, OrderInv
<1>6. e.id = Dequeued /\ e.step = actor.done + 1 /\ actor.done \in Nat
  BY <1>1, Running
<1>7. Serial'
  <2> SUFFICES ASSUME NEW i \in 1..(n + 1), NEW j \in 1..(n + 1), i < j
               PROVE  \/ effects'[i].id < effects'[j].id
                      \/ effects'[i].id = effects'[j].id
                         /\ effects'[i].step < effects'[j].step
    BY <1>3 DEF Serial
  <2>1. CASE j \in 1..n
    <3>1. i \in 1..n
      BY <2>1, <1>2
    <3>2. QED
      BY <2>1, <3>1, <1>3 DEF IInv, OrderInv, Serial
  <2>2. CASE j = n + 1
    <3>1. i \in 1..n
      BY <2>2, <1>2
    <3>2. effects'[i] = effects[i] /\ effects'[j] = e
      BY <2>2, <3>1, <1>3
    <3>3. QED
      BY <3>1, <3>2, <1>1, <1>5, <1>6
  <2>3. QED
    BY <1>2, <2>1, <2>2
<1>8. ASSUME NEW i \in DOMAIN effects'
      PROVE  /\ effects'[i].id <= Dequeued
             /\ effects'[i].id = Dequeued => effects'[i].step <= actor.done + 1
  <2>1. CASE i \in 1..n
    BY <2>1, <1>3, <1>5, <1>6
  <2>2. CASE i = n + 1
    BY <2>2, <1>1, <1>3, <1>6
  <2>3. QED
    BY <2>1, <2>2, <1>2, <1>3
<1>9. ASSUME NEW id \in 1..Dequeued
      PROVE  StepsOf(id)' # {}
  <2>1. CASE id = Dequeued
    <3>1. n + 1 \in StepsOf(id)'
      BY <2>1, <1>2, <1>3, <1>6 DEF StepsOf
    <3>2. QED
      BY <3>1
  <2>2. CASE id # Dequeued
    <3>1. StepsOf(id) # {}
      BY <2>2, <1>1 DEF IInv, RanInv
    <3>2. PICK i \in DOMAIN effects : effects[i].id = id
      BY <3>1 DEF StepsOf
    <3>3. i \in StepsOf(id)'
      BY <3>2, <1>2, <1>3 DEF StepsOf
    <3>4. QED
      BY <3>3
  <2>3. QED
    BY <2>1, <2>2
<1>10. QED
  BY <1>4, <1>7, <1>8, <1>9

LEMMA CallerInv ==
    ASSUME IInv, TypeInv', NEW c \in Clients,
           \/ \E n \in 1..MaxSteps : Send(c, n)
           \/ Return(c) \/ Abandon(c) \/ Release(c)
           \/ \E d \in Clients : Share(c, d)
    PROVE  IInv'
<1>1. ASSUME NEW n \in 1..MaxSteps, Send(c, n)
      PROVE  IInv'
  <2> DEFINE e == [id |-> sent + 1, from |-> c, steps |-> n]
  <2>1. /\ queue \in Seq(Call) /\ sent \in Nat /\ Len(queue) \in Nat
        /\ queue' = Append(queue, e) /\ sent' = sent + 1
        /\ UNCHANGED <<actor, effects>> /\ ~Ended
    BY <1>1, ActorAssumption DEF Send, IInv, TypeInv, TypeOK
  <2>2. /\ Len(queue') = Len(queue) + 1
        /\ queue'[Len(queue) + 1] = e
        /\ \A i \in 1..Len(queue) : queue'[i] = queue[i]
    BY <2>1
  <2>3. Dequeued' = Dequeued
    BY <2>1, <2>2 DEF Dequeued
  <2>4. ASSUME NEW i \in 1..Len(queue')
        PROVE  queue'[i].id = Dequeued' + i
    <3>1. CASE i \in 1..Len(queue)
      BY <3>1, <2>2, <2>3 DEF IInv, OrderInv
    <3>2. CASE i = Len(queue) + 1
      BY <3>2, <2>1, <2>2, <2>3 DEF Dequeued
    <3>3. QED
      BY <3>1, <3>2, <2>1, <2>2
  <2>5. OrderInv'
    BY <2>1, <2>3, <2>4 DEF IInv, OrderInv, Serial
  <2>6. RanInv'
    BY <2>1, <2>3 DEF IInv, RanInv, StepsOf
  <2>7. DrainedBeforeExit'
    BY <2>1 DEF DrainedBeforeExit, Ended
  <2>8. QED
    BY <2>5, <2>6, <2>7 DEF IInv
<1>2. CASE \/ Return(c) \/ Abandon(c) \/ Release(c)
           \/ \E d \in Clients : Share(c, d)
  <2>1. UNCHANGED <<sent, queue, actor, effects>>
    BY <1>2 DEF Return, Abandon, Release, Share
  <2>2. QED
    BY <2>1, Untouched
<1>3. QED
  BY <1>1, <1>2

\* The channel after its head was taken.
LEMMA Dequeue ==
    ASSUME IInv, queue # <<>>, queue' = Tail(queue), UNCHANGED <<sent, effects>>
    PROVE  /\ Dequeued' = Dequeued + 1 /\ Dequeued' \in Nat
           /\ Head(queue).id = Dequeued + 1
           /\ \A i \in 1..Len(queue') : queue'[i].id = Dequeued' + i
           /\ \A i \in DOMAIN effects' :
                 effects'[i].id <= Dequeued' /\ effects'[i].id # Dequeued'
<1>1. queue \in Seq(Call) /\ Len(queue) \in Nat \ {0} /\ sent \in Nat
  BY EmptySeq, ActorAssumption DEF IInv, TypeInv, TypeOK
<1>2. /\ Len(queue') = Len(queue) - 1
      /\ Head(queue) = queue[1]
      /\ \A i \in 1..Len(queue') : queue'[i] = queue[i + 1]
  BY <1>1
<1>3. Dequeued' = Dequeued + 1 /\ Dequeued \in Nat /\ Dequeued' \in Nat
  BY <1>1, <1>2 DEF Dequeued, IInv, OrderInv
<1>4. Head(queue).id = Dequeued + 1
  BY <1>1, <1>2 DEF IInv, OrderInv
<1>5. ASSUME NEW i \in 1..Len(queue')
      PROVE  queue'[i].id = Dequeued' + i
  <2>1. i + 1 \in 1..Len(queue) /\ i \in Nat
    BY <1>1, <1>2
  <2>2. queue[i + 1].id = Dequeued + (i + 1)
    BY <2>1 DEF IInv, OrderInv
  <2>3. QED
    BY <2>1, <2>2, <1>2, <1>3
<1>6. ASSUME NEW i \in DOMAIN effects'
      PROVE  effects'[i].id <= Dequeued' /\ effects'[i].id # Dequeued'
  <2>1. effects \in Seq(Effect) /\ i \in DOMAIN effects
    BY <1>6 DEF IInv, TypeInv, TypeOK, Effect
  <2>2. effects[i].id \in Nat
    <3>1. effects[i] \in Effect
      BY <2>1, ElementOfSeq
    <3>2. QED
      BY <3>1 DEF Effect
  <2>3. effects[i].id <= Dequeued
    BY <2>1 DEF IInv, OrderInv
  <2>4. QED
    BY <2>2, <2>3, <1>3
<1>7. QED
  BY <1>3, <1>4, <1>5, <1>6

LEMMA ActorInv == IInv /\ TypeInv' /\ ActorStep => IInv'
<1> SUFFICES ASSUME IInv, TypeInv', ActorStep PROVE IInv'
  OBVIOUS
<1>1. CASE Start
  <2>1. /\ UNCHANGED <<sent, queue, effects>>
        /\ actor.st = "starting" /\ actor'.st \in {"serving", "failing"}
        /\ actor'.cmd = Nothing
    BY <1>1 DEF Start
  <2>2. Dequeued' = Dequeued /\ Dequeued = 0 /\ effects = <<>>
    BY <2>1 DEF Dequeued, IInv, RanInv
  <2>3. QED
    BY <2>1, <2>2 DEF IInv, OrderInv, RanInv, DrainedBeforeExit, Serial
<1>2. CASE Recv
  <2>1. /\ queue # <<>> /\ queue' = Tail(queue) /\ UNCHANGED <<sent, effects>>
        /\ actor.st = "serving" /\ actor.cmd = Nothing
        /\ actor'.cmd = Head(queue) /\ actor'.st = "serving"
    BY <1>2 DEF Recv, Taken
  <2>2. /\ Dequeued' = Dequeued + 1 /\ Dequeued' \in Nat /\ Dequeued \in Nat
        /\ actor'.cmd.id = Dequeued'
        /\ \A i \in 1..Len(queue') : queue'[i].id = Dequeued' + i
        /\ \A i \in DOMAIN effects' :
              effects'[i].id <= Dequeued' /\ effects'[i].id # Dequeued'
    BY <2>1, Dequeue DEF IInv, OrderInv
  <2>3. Serial'
    BY <2>1 DEF IInv, OrderInv, Serial
  <2>4. OrderInv'
    BY <2>2, <2>3 DEF OrderInv
  <2>5. ASSUME NEW id \in 1..Dequeued', id # actor'.cmd.id
        PROVE  StepsOf(id)' # {}
    <3>1. id \in 1..Dequeued
      BY <2>2, <2>5
    <3>2. StepsOf(id) # {}
      BY <2>1, <3>1 DEF IInv, RanInv
    <3>3. QED
      BY <2>1, <3>2 DEF StepsOf
  <2>6. actor'.cmd # Nothing
    <3>1. Head(queue) \in Call
      BY <2>1 DEF IInv, TypeInv, TypeOK
    <3>2. QED
      BY <2>1, <3>1, NothingIsNoCall
  <2>7. RanInv' /\ DrainedBeforeExit'
    BY <2>1, <2>5, <2>6 DEF RanInv, DrainedBeforeExit
  <2>8. QED
    BY <2>4, <2>7 DEF IInv
<1>3. CASE RecvFailing
  <2>1. /\ queue # <<>> /\ queue' = Tail(queue) /\ UNCHANGED <<sent, effects>>
        /\ actor.st = "failing" /\ actor' = actor
    BY <1>3 DEF RecvFailing
  <2>2. effects = <<>> /\ actor.cmd = Nothing
    BY <2>1 DEF IInv, RanInv
  <2>3. OrderInv'
    BY <2>1, <2>2, Dequeue DEF OrderInv, Serial
  <2>4. RanInv' /\ DrainedBeforeExit'
    BY <2>1, <2>2 DEF RanInv, DrainedBeforeExit
  <2>5. QED
    BY <2>3, <2>4 DEF IInv
<1>4. CASE StepOk
  <2>1. /\ actor.cmd # Nothing /\ Executed /\ UNCHANGED <<sent, queue>>
        /\ actor' = [st |-> "serving", cmd |-> actor.cmd, done |-> actor.done + 1]
    BY <1>4 DEF StepOk
  <2>2. OrderInv'
    BY <2>1, ExecutedInv DEF IInv, OrderInv
  <2>3. RanInv' /\ DrainedBeforeExit'
    BY <2>1, ExecutedInv DEF RanInv, DrainedBeforeExit
  <2>4. QED
    BY <2>2, <2>3 DEF IInv
<1>5. CASE LastStepOk \/ StepErr
  <2>1. /\ actor.cmd # Nothing /\ Executed /\ UNCHANGED <<sent, queue>>
        /\ actor' = [st |-> "serving", cmd |-> Nothing, done |-> 0]
    BY <1>5 DEF LastStepOk, StepErr
  <2>2. OrderInv'
    BY <2>1, ExecutedInv DEF IInv, OrderInv
  <2>3. RanInv' /\ DrainedBeforeExit'
    BY <2>1, ExecutedInv DEF RanInv, DrainedBeforeExit
  <2>4. QED
    BY <2>2, <2>3 DEF IInv
<1>6. CASE Exit
  <2>1. /\ queue = <<>> /\ UNCHANGED <<sent, queue, effects>>
        /\ actor.st \in {"serving", "failing"} /\ actor.cmd = Nothing
        /\ actor' = [st |-> "gone", cmd |-> Nothing, done |-> 0]
    BY <1>6 DEF Exit, Drained
  <2>2. Dequeued = sent /\ Dequeued' = Dequeued
    BY <2>1, ActorAssumption DEF Dequeued, IInv, TypeInv, TypeOK
  <2>3. OrderInv'
    BY <2>1, <2>2 DEF IInv, OrderInv, Serial
  <2>4. RanInv'
    BY <2>1 DEF RanInv
  <2>5. DrainedBeforeExit'
    BY <2>1, <2>2 DEF IInv, RanInv, DrainedBeforeExit, StepsOf
  <2>6. QED
    BY <2>3, <2>4, <2>5 DEF IInv
<1>7. QED
  BY <1>1, <1>2, <1>3, <1>4, <1>5, <1>6 DEF ActorStep

LEMMA PanicInv == IInv /\ TypeInv' /\ Panic => IInv'
<1> SUFFICES ASSUME IInv, TypeInv', Panic PROVE IInv'
  OBVIOUS
<1>1. /\ queue' = <<>> /\ UNCHANGED <<sent, effects>>
      /\ actor' = [st |-> "panicked", cmd |-> Nothing, done |-> 0]
  BY DEF Panic
<1>2. /\ sent \in Nat /\ Len(queue) \in Nat
      /\ effects \in Seq(Effect)
  BY ActorAssumption DEF IInv, TypeInv, TypeOK, Effect
<1>3. Dequeued' = sent /\ Dequeued <= sent /\ Dequeued \in Nat
  BY <1>1, <1>2 DEF Dequeued, IInv, OrderInv
<1>4. ASSUME NEW i \in DOMAIN effects'
      PROVE  effects'[i].id <= Dequeued'
  <2>1. effects[i] \in Effect
    BY <1>1, <1>2, <1>4, ElementOfSeq
  <2>2. effects[i].id \in Nat
    BY <2>1 DEF Effect
  <2>3. effects[i].id <= Dequeued
    BY <1>1, <1>4 DEF IInv, OrderInv
  <2>4. QED
    BY <2>2, <2>3, <1>1, <1>2, <1>3
<1>5. OrderInv'
  BY <1>1, <1>2, <1>3, <1>4 DEF IInv, OrderInv, Serial
<1>6. RanInv' /\ DrainedBeforeExit'
  BY <1>1 DEF RanInv, DrainedBeforeExit
<1>7. QED
  BY <1>5, <1>6 DEF IInv

LEMMA Inductive == IInv /\ [Next]_vars => IInv'
<1> SUFFICES ASSUME IInv, [Next]_vars PROVE IInv'
  OBVIOUS
<1>1. TypeInv'
  BY NextTypes DEF IInv
<1>2. CASE UNCHANGED vars
  BY <1>1, <1>2, Untouched DEF vars
<1>3. CASE Next
  BY <1>1, <1>3, CallerInv, ActorInv, PanicInv DEF Next
<1>4. QED
  BY <1>2, <1>3

THEOREM Invariant == Spec => []IInv
BY InitInv, Inductive, PTL DEF Spec

\* Commands take effect in the order sent, each as one uninterrupted block,
\* each step at most once.
THEOREM SerialExecution == Spec => []Serial
<1>1. IInv => Serial
  BY DEF IInv, OrderInv
<1>2. QED
  BY <1>1, Invariant, PTL

\* An actor that ends because its last handle went has executed every command
\* it accepted.
THEOREM DrainsFirst == Spec => []DrainedBeforeExit
<1>1. IInv => DrainedBeforeExit
  BY DEF IInv
<1>2. QED
  BY <1>1, Invariant, PTL

----------------------------------------------------------------------------
(* Answers *)

\* As many steps of the running command were executed as the actor counts.
CountInv ==
    actor.cmd # Nothing => Cardinality(StepsOf(actor.cmd.id)) = actor.done

\* A call that is answered is over: it left the channel and does not run any
\* more, so nothing is executed for it from now on.  A session that answered
\* that it could not be built never serves.
OverOf(c) ==
    /\ waiting[c] \in 1..Dequeued
    /\ actor.cmd # Nothing => waiting[c] # actor.cmd.id
    /\ answer[c].kind = "unbuilt" => actor.st \notin {"starting", "serving"}

OverInv == \A c \in Clients : answer[c] # Pending => OverOf(c)

\* Nobody awaits a call that was not sent.
SentInv == \A c \in Clients : waiting[c] <= sent

ReplyInv == CountInv /\ SentInv /\ OverInv /\ AnswerIsTrue

LEMMA StepsFinite ==
    ASSUME TypeOK, NEW id
    PROVE  IsFiniteSet(StepsOf(id)) /\ StepsOf(id) \subseteq 1..Len(effects)
           /\ Len(effects) \in Nat
<1>1. Len(effects) \in Nat /\ DOMAIN effects = 1..Len(effects)
  BY LenProperties DEF TypeOK
<1>2. StepsOf(id) \subseteq 1..Len(effects)
  BY <1>1 DEF StepsOf
<1>3. IsFiniteSet(1..Len(effects))
  BY <1>1, FS_Interval
<1>4. QED
  BY <1>1, <1>2, <1>3, FS_Subset

\* A step executed is one more step of the running command and of no other.
LEMMA StepsGrow ==
    ASSUME TypeInv, actor.cmd # Nothing, Executed, NEW id
    PROVE  /\ id = actor.cmd.id =>
                 Cardinality(StepsOf(id)') = Cardinality(StepsOf(id)) + 1
           /\ id # actor.cmd.id => StepsOf(id)' = StepsOf(id)
<1> DEFINE e == [id |-> actor.cmd.id, step |-> actor.done + 1]
           n == Len(effects)
<1>1. TypeOK /\ n \in Nat /\ effects' = Append(effects, e)
  BY LenProperties DEF TypeInv, TypeOK, Executed
<1>2. /\ DOMAIN effects = 1..n /\ DOMAIN effects' = 1..(n + 1)
      /\ effects'[n + 1] = e
      /\ \A i \in 1..n : effects'[i] = effects[i]
  BY <1>1 DEF TypeOK
<1>3. StepsOf(id)' = IF id = e.id THEN StepsOf(id) \cup {n + 1} ELSE StepsOf(id)
  <2>1. \A i : i \in DOMAIN effects' <=> i \in 1..n \/ i = n + 1
    BY <1>1, <1>2
  <2>2. n + 1 \notin 1..n
    BY <1>1
  <2>3. QED
    BY <1>2, <2>1, <2>2 DEF StepsOf
<1>4. Cardinality(StepsOf(id) \cup {n + 1}) = Cardinality(StepsOf(id)) + 1
  <2>1. IsFiniteSet(StepsOf(id)) /\ n + 1 \notin StepsOf(id)
    BY <1>1, StepsFinite
  <2>2. QED
    BY <2>1, FS_AddElement
<1>5. QED
  BY <1>3, <1>4

\* What is right to tell the caller of command id.
TrueOf(a, id) ==
    /\ a.id = id
    /\ a.kind = "ok" => Cardinality(StepsOf(id)) = a.outs
    /\ a.kind = "error" => StepsOf(id) # {}
    /\ a.kind = "unbuilt" => effects = <<>>

LEMMA TrueAnswers ==
    AnswerIsTrue <=>
        \A c \in Clients : answer[c] # Pending => TrueOf(answer[c], waiting[c])
BY DEF AnswerIsTrue, TrueOf

\* Deliver changes the answer of the caller that still waits for the call.
LEMMA DeliverOne ==
    ASSUME TypeOK, NEW call \in Call, NEW kind, NEW outs,
           Deliver(call, kind, outs), NEW c \in Clients, answer'[c] # answer[c]
    PROVE  /\ waiting[c] = call.id
           /\ answer'[c] = [kind |-> kind, outs |-> outs, id |-> call.id]
<1>1. call.from \in Clients /\ answer \in [Clients -> Answer]
  BY DEF TypeOK, Call
<1>2. QED
  BY <1>1 DEF Deliver

\* An answer that stays where it is stays true: whatever the actor executes or
\* takes from the channel next is another command.
LEMMA KeptAnswer ==
    ASSUME IInv, ReplyInv, NEW c \in Clients, answer[c] # Pending,
           UNCHANGED waiting, answer'[c] = answer[c],
           Dequeued' \in Nat, Dequeued <= Dequeued',
           actor'.cmd # Nothing =>
              actor'.cmd = actor.cmd \/ actor'.cmd.id = Dequeued + 1,
           UNCHANGED effects \/ (actor.cmd # Nothing /\ Executed),
           actor.st \notin {"starting", "serving"} =>
              actor'.st \notin {"starting", "serving"}
    PROVE  OverOf(c)' /\ TrueOf(answer[c], waiting[c])'
<1> DEFINE w == waiting[c]
<1>1. /\ w \in 1..Dequeued /\ w \in Nat /\ Dequeued \in Nat
      /\ actor.cmd # Nothing => w # actor.cmd.id
      /\ answer[c].kind = "unbuilt" => actor.st \notin {"starting", "serving"}
      /\ TrueOf(answer[c], w)
  BY TrueAnswers DEF ReplyInv, OverInv, OverOf, IInv, OrderInv
<1>2. answer[c].kind = "unbuilt" => UNCHANGED effects
  BY <1>1 DEF IInv, RanInv
<1>3. StepsOf(w)' = StepsOf(w)
  <2>1. CASE UNCHANGED effects
    BY <2>1 DEF StepsOf
  <2>2. CASE actor.cmd # Nothing /\ Executed
    <3>1. w # actor.cmd.id /\ TypeInv
      BY <1>1, <2>2 DEF IInv
    <3>2. \A id : id # actor.cmd.id => StepsOf(id)' = StepsOf(id)
      BY <2>2, <3>1, StepsGrow
    <3>3. w' = w
      OBVIOUS
    <3>4. QED
      BY <3>1, <3>2, <3>3 DEF StepsOf
  <2>3. QED
    BY <2>1, <2>2
<1>4. OverOf(c)'
  BY <1>1 DEF OverOf
<1>5. TrueOf(answer[c], w)'
  BY <1>1, <1>2, <1>3 DEF TrueOf
<1>6. QED
  BY <1>4, <1>5

LEMMA InitReply == Init => ReplyInv
BY DEF Init, ReplyInv, CountInv, SentInv, OverInv, AnswerIsTrue

\* A step of a caller: only the caller's own answer may go, none comes.
LEMMA CallerReply ==
    ASSUME IInv, ReplyInv, NEW c \in Clients,
           \/ \E n \in 1..MaxSteps : Send(c, n)
           \/ Return(c) \/ Abandon(c) \/ Release(c)
           \/ \E d \in Clients : Share(c, d)
    PROVE  ReplyInv'
<1>1. UNCHANGED <<actor, effects>> /\ Dequeued' = Dequeued
  <2>1. ASSUME NEW n \in 1..MaxSteps, Send(c, n)
        PROVE  UNCHANGED <<actor, effects>> /\ Dequeued' = Dequeued
    <3>1. /\ queue \in Seq(Call) /\ sent \in Nat /\ Len(queue) \in Nat
          /\ queue' = Append(queue, [id |-> sent + 1, from |-> c, steps |-> n])
          /\ sent' = sent + 1 /\ UNCHANGED <<actor, effects>>
      BY <2>1, LenProperties, ActorAssumption DEF Send, IInv, TypeInv, TypeOK
    <3>2. Len(queue') = Len(queue) + 1
      BY <3>1
    <3>3. QED
      BY <3>1, <3>2 DEF Dequeued
  <2>2. CASE \/ Return(c) \/ Abandon(c) \/ Release(c)
             \/ \E d \in Clients : Share(c, d)
    BY <2>2 DEF Return, Abandon, Release, Share, Dequeued
  <2>3. QED
    BY <2>1, <2>2
<1>2. ASSUME NEW b \in Clients, answer'[b] # Pending
      PROVE  answer'[b] = answer[b] /\ waiting'[b] = waiting[b]
  <2>1. /\ answer \in [Clients -> Answer]
        /\ waiting \in [Clients -> 0..MaxCalls]
    BY DEF IInv, TypeInv, TypeOK
  <2>2. waiting[c] = 0 => answer[c] = Pending
    BY DEF ReplyInv, OverInv, OverOf
  <2>3. ASSUME NEW n \in 1..MaxSteps, Send(c, n)
        PROVE  answer'[b] = answer[b] /\ waiting'[b] = waiting[b]
    <3>1. answer'[b] = answer[b] /\ b # c
      BY <1>2, <2>2, <2>3 DEF Send
    <3>2. QED
      BY <2>1, <2>3, <3>1 DEF Send
  <2>4. CASE Return(c) \/ Abandon(c)
    <3>1. /\ answer' = [answer EXCEPT ![c] = Pending]
          /\ waiting' = [waiting EXCEPT ![c] = 0]
      BY <2>4 DEF Return, Abandon
    <3>2. b # c
      BY <1>2, <2>1, <3>1
    <3>3. QED
      BY <2>1, <3>1, <3>2
  <2>5. CASE Release(c) \/ \E d \in Clients : Share(c, d)
    BY <2>5 DEF Release, Share
  <2>6. QED
    BY <2>3, <2>4, <2>5
<1>3. CountInv'
  BY <1>1 DEF ReplyInv, CountInv, StepsOf
<1>4. OverInv'
  BY <1>1, <1>2 DEF ReplyInv, OverInv, OverOf
<1>5. AnswerIsTrue'
  <2>1. effects' = effects /\ \A id : StepsOf(id)' = StepsOf(id)
    BY <1>1 DEF StepsOf
  <2>2. ASSUME NEW b \in Clients, answer'[b] # Pending
        PROVE  TrueOf(answer[b], waiting[b])'
    <3>1. answer'[b] = answer[b] /\ waiting'[b] = waiting[b]
      BY <1>2, <2>2
    <3>2. TrueOf(answer[b], waiting[b])
      BY <2>2, <3>1, TrueAnswers DEF ReplyInv
    <3>3. StepsOf(waiting[b])' = StepsOf(waiting[b])
      BY <2>1, <3>1 DEF StepsOf
    <3>4. QED
      BY <2>1, <3>1, <3>2, <3>3 DEF TrueOf
  <2>3. QED
    BY <2>2 DEF AnswerIsTrue, TrueOf
<1>6. SentInv'
  <2>1. /\ waiting \in [Clients -> 0..MaxCalls] /\ sent \in Nat
        /\ \A b \in Clients : waiting[b] <= sent
    BY ActorAssumption DEF ReplyInv, SentInv, IInv, TypeInv, TypeOK
  <2>2. ASSUME NEW b \in Clients, NEW n \in 1..MaxSteps, Send(c, n)
        PROVE  waiting'[b] <= sent'
    BY <2>1, <2>2 DEF Send
  <2>3. ASSUME NEW b \in Clients, ~ \E n \in 1..MaxSteps : Send(c, n)
        PROVE  waiting'[b] <= sent'
    BY <2>1, <2>3 DEF Return, Abandon, Release, Share
  <2>4. QED
    BY <2>2, <2>3 DEF SentInv
<1>7. QED
  BY <1>3, <1>4, <1>5, <1>6 DEF ReplyInv

LEMMA ActorReply == IInv /\ ReplyInv /\ IInv' /\ ActorStep => ReplyInv'
<1> SUFFICES ASSUME IInv, ReplyInv, IInv', ActorStep PROVE ReplyInv'
  OBVIOUS
<1>0. /\ TypeInv /\ TypeOK /\ Dequeued \in Nat /\ Dequeued' \in Nat
      /\ sent \in Nat /\ Len(queue) \in Nat
  BY LenProperties, ActorAssumption DEF IInv, OrderInv, TypeInv, TypeOK
\* What a step leaves alone when it answers nobody.
<1>a. ASSUME UNCHANGED <<waiting, answer>>, Dequeued <= Dequeued',
             actor'.cmd # Nothing =>
                actor'.cmd = actor.cmd \/ actor'.cmd.id = Dequeued + 1,
             UNCHANGED effects \/ (actor.cmd # Nothing /\ Executed),
             actor.st \notin {"starting", "serving"} =>
                actor'.st \notin {"starting", "serving"}
      PROVE  OverInv' /\ AnswerIsTrue'
  <2>1. ASSUME NEW c \in Clients, answer'[c] # Pending
        PROVE  OverOf(c)' /\ TrueOf(answer[c], waiting[c])'
    BY <1>0, <1>a, <2>1, KeptAnswer
  <2>2. QED
    BY <2>1 DEF OverInv, AnswerIsTrue, TrueOf
<1>b. SentInv'
  BY DEF ActorStep, Start, Recv, RecvFailing, StepOk, LastStepOk, StepErr, Exit,
         ReplyInv, SentInv
<1>1. CASE Start \/ Exit
  <2>1. /\ UNCHANGED <<waiting, answer, effects, sent>> /\ actor'.cmd = Nothing
        /\ actor.st \notin {"starting", "serving"} =>
              actor'.st \notin {"starting", "serving"}
        /\ queue' = queue
    BY <1>1 DEF Start, Exit, Drained
  <2>2. Dequeued' = Dequeued
    BY <2>1 DEF Dequeued
  <2>3. OverInv' /\ AnswerIsTrue'
    BY <1>0, <1>a, <2>1, <2>2
  <2>4. QED
    BY <1>b, <2>1, <2>3 DEF ReplyInv, CountInv
<1>2. CASE Recv
  <2>1. /\ queue # <<>> /\ queue' = Tail(queue)
        /\ UNCHANGED <<sent, waiting, answer, effects>>
        /\ actor' = [st |-> "serving", cmd |-> Head(queue), done |-> 0]
        /\ actor.st = "serving"
    BY <1>2 DEF Recv, Taken
  <2>2. /\ Dequeued' = Dequeued + 1 /\ Head(queue).id = Dequeued + 1
        /\ \A i \in DOMAIN effects : effects[i].id # Dequeued'
    BY <2>1, Dequeue
  <2>3. OverInv' /\ AnswerIsTrue'
    BY <1>0, <1>a, <2>1, <2>2
  <2>4. CountInv'
    <3>1. StepsOf(actor.cmd.id)' = {}
      BY <2>1, <2>2 DEF StepsOf
    <3>2. QED
      BY <2>1, <3>1, FS_EmptySet DEF CountInv
  <2>5. QED
    BY <1>b, <2>3, <2>4 DEF ReplyInv
<1>3. CASE RecvFailing
  <2>1. /\ queue # <<>> /\ queue' = Tail(queue) /\ UNCHANGED <<sent, waiting, effects>>
        /\ actor.st = "failing" /\ actor' = actor
        /\ Deliver(Head(queue), "unbuilt", 0)
    BY <1>3 DEF RecvFailing
  <2>2. actor.cmd = Nothing /\ effects = <<>>
    BY <2>1 DEF IInv, RanInv
  <2>3. /\ Dequeued' = Dequeued + 1 /\ Head(queue).id = Dequeued + 1
        /\ Head(queue) \in Call
    BY <1>0, <2>1, Dequeue DEF TypeOK
  <2>4. OverInv' /\ AnswerIsTrue'
    <3> DEFINE call == Head(queue)
    <3>1. ASSUME NEW c \in Clients, answer'[c] # Pending
          PROVE  OverOf(c)' /\ TrueOf(answer[c], waiting[c])'
      <4>1. CASE answer'[c] = answer[c]
        BY <1>0, <2>1, <2>2, <2>3, <3>1, <4>1, KeptAnswer
      <4>2. CASE answer'[c] # answer[c]
        <5>1. /\ waiting'[c] = call.id
              /\ answer'[c] = [kind |-> "unbuilt", outs |-> 0, id |-> call.id]
          BY <1>0, <2>1, <2>3, <4>2, DeliverOne
        <5>2. QED
          BY <1>0, <2>1, <2>2, <2>3, <5>1 DEF OverOf, TrueOf
      <4>3. QED
        BY <4>1, <4>2
    <3>2. QED
      BY <3>1 DEF OverInv, AnswerIsTrue, TrueOf
  <2>5. QED
    BY <1>b, <2>1, <2>2, <2>4 DEF ReplyInv, CountInv
<1>4. CASE StepOk
  <2>1. /\ actor.cmd # Nothing /\ Executed
        /\ UNCHANGED <<sent, queue, waiting, answer>>
        /\ actor' = [st |-> "serving", cmd |-> actor.cmd, done |-> actor.done + 1]
    BY <1>4 DEF StepOk
  <2>2. actor.st = "serving" /\ Dequeued' = Dequeued
    BY <2>1 DEF IInv, RanInv, Dequeued
  <2>3. OverInv' /\ AnswerIsTrue'
    BY <1>0, <1>a, <2>1, <2>2
  <2>4. CountInv'
    <3> DEFINE id == actor.cmd.id
    <3>1. Cardinality(StepsOf(id)) = actor.done
      BY <2>1 DEF ReplyInv, CountInv
    <3>2. \A k : k = id => Cardinality(StepsOf(k)') = Cardinality(StepsOf(k)) + 1
      BY <1>0, <2>1, StepsGrow
    <3>3. id' = id
      BY <2>1
    <3>4. QED
      BY <2>1, <3>1, <3>2, <3>3 DEF CountInv, StepsOf
  <2>5. QED
    BY <1>b, <2>3, <2>4 DEF ReplyInv
<1>5. CASE LastStepOk \/ StepErr
  <2> DEFINE call == actor.cmd
  <2>1. /\ actor.cmd # Nothing /\ Executed /\ UNCHANGED <<sent, queue, waiting>>
        /\ actor' = [st |-> "serving", cmd |-> Nothing, done |-> 0]
    BY <1>5 DEF LastStepOk, StepErr
  <2>2. /\ actor.st = "serving" /\ Dequeued' = Dequeued
        /\ call \in Call /\ call.id = Dequeued /\ call.id \in Nat \ {0}
        /\ Cardinality(StepsOf(Dequeued)) = actor.done
    BY <1>0, <2>1, Running DEF IInv, RanInv, OrderInv, Dequeued, ReplyInv, CountInv
  <2>3. Cardinality(StepsOf(Dequeued)') = actor.done + 1
    <3>1. \A k : k = call.id => Cardinality(StepsOf(k)') = Cardinality(StepsOf(k)) + 1
      BY <1>0, <2>1, StepsGrow
    <3>2. QED
      BY <2>2, <3>1 DEF StepsOf
  <2>4. StepsOf(Dequeued)' # {}
    BY <2>1, <2>2, ExecutedInv
  <2>5. ASSUME NEW kind, NEW outs, Deliver(call, kind, outs),
               kind \in {"ok", "error"}, kind = "ok" => outs = actor.done + 1
        PROVE  OverInv' /\ AnswerIsTrue'
    <3>1. ASSUME NEW c \in Clients, answer'[c] # Pending
          PROVE  OverOf(c)' /\ TrueOf(answer[c], waiting[c])'
      <4>1. CASE answer'[c] = answer[c]
        BY <1>0, <2>1, <2>2, <3>1, <4>1, KeptAnswer
      <4>2. CASE answer'[c] # answer[c]
        <5>1. /\ waiting'[c] = Dequeued'
              /\ answer'[c] = [kind |-> kind, outs |-> outs, id |-> Dequeued']
          BY <1>0, <2>1, <2>2, <2>5, <4>2, DeliverOne
        <5>2. QED
          BY <1>0, <2>1, <2>2, <2>3, <2>4, <2>5, <5>1 DEF OverOf, TrueOf
      <4>3. QED
        BY <4>1, <4>2
    <3>2. QED
      BY <3>1 DEF OverInv, AnswerIsTrue, TrueOf
  <2>6. OverInv' /\ AnswerIsTrue'
    BY <1>5, <2>5 DEF LastStepOk, StepErr
  <2>7. QED
    BY <1>b, <2>1, <2>6 DEF ReplyInv, CountInv
<1>6. QED
  BY <1>1, <1>2, <1>3, <1>4, <1>5 DEF ActorStep

\* Callers with no answer learn that the actor is gone, of a call they sent.
LEMMA PanicReply == IInv /\ ReplyInv /\ IInv' /\ Panic => ReplyInv'
<1> SUFFICES ASSUME IInv, ReplyInv, IInv', Panic PROVE ReplyInv'
  OBVIOUS
<1>1. /\ queue' = <<>> /\ UNCHANGED <<sent, waiting, effects>>
      /\ actor' = [st |-> "panicked", cmd |-> Nothing, done |-> 0]
  BY DEF Panic
<1>2. sent \in Nat /\ Len(queue) \in Nat /\ Dequeued \in Nat
  BY LenProperties, ActorAssumption DEF IInv, OrderInv, TypeInv, TypeOK
<1>3. Dequeued' = sent /\ Dequeued <= sent
  BY <1>1, <1>2 DEF Dequeued
<1>4. ASSUME NEW c \in Clients, answer'[c] # Pending
      PROVE  OverOf(c)' /\ TrueOf(answer[c], waiting[c])'
  <2>1. CASE c \in Orphans
    <3>1. /\ answer'[c] = [kind |-> "gone", outs |-> 0, id |-> waiting[c]]
          /\ waiting[c] \in 0..MaxCalls /\ waiting[c] # 0
      BY <2>1 DEF Panic, Orphans, IInv, TypeInv, TypeOK
    <3>2. waiting[c] <= sent
      BY DEF ReplyInv, SentInv
    <3>3. QED
      BY <1>1, <1>2, <1>3, <3>1, <3>2 DEF OverOf, TrueOf
  <2>2. CASE c \notin Orphans
    <3>1. answer'[c] = answer[c]
      BY <2>2 DEF Panic
    <3>2. QED
      BY <1>1, <1>2, <1>3, <1>4, <3>1, KeptAnswer
  <2>3. QED
    BY <2>1, <2>2
<1>5. OverInv' /\ AnswerIsTrue'
  BY <1>4 DEF OverInv, AnswerIsTrue, TrueOf
<1>6. QED
  BY <1>1, <1>5 DEF ReplyInv, SentInv, CountInv

LEMMA ReplyInductive == IInv /\ ReplyInv /\ IInv' /\ [Next]_vars => ReplyInv'
<1>1. IInv /\ ReplyInv /\ UNCHANGED vars => ReplyInv'
  BY DEF vars, ReplyInv, CountInv, SentInv, OverInv, OverOf, AnswerIsTrue, StepsOf, Dequeued
<1>2. QED
  BY <1>1, CallerReply, ActorReply, PanicReply DEF Next

\* An answer is about the caller's own command and tells what became of it: Ok
\* with the output of every step, an error of a step that ran, or nothing ran.
THEOREM AnswersAreTrue == Spec => []AnswerIsTrue
<1>1. ReplyInv => AnswerIsTrue
  BY DEF ReplyInv
<1>2. QED
  BY <1>1, InitReply, ReplyInductive, Invariant, PTL DEF Spec
============================================================================
