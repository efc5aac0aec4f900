---------------------------- MODULE SessionActor ----------------------------
(***************************************************************************)
(* The actor of one browse session and the tasks that call it              *)
(* (crates/bouncy-browse/src/session.rs: BrowseSession's methods, send,    *)
(* spawn_actor, actor_main, run_chain, send_construction_failure).         *)
(*                                                                         *)
(* A task that holds the session sends a command with a oneshot reply      *)
(* sender into an unbounded channel and awaits the receiver; its future    *)
(* may be dropped at any moment.  The actor takes one command at a time.   *)
(* A command is its number of steps: 1 for a primitive, the length of the  *)
(* list for a chain. What a step does to the page is BrowseSession's; here *)
(* each step leaves one entry in effects. (An empty chain is answered at   *)
(* once, changes nothing and is left out.)                                 *)
(*                                                                         *)
(* The channel is numbered: the call with id i was the i-th to be accepted.*)
(***************************************************************************)
EXTENDS Integers, Sequences, FiniteSets, SequencesExt

CONSTANTS
    Clients,     \* tasks that may hold the session
    Opener,      \* the task that ran BrowseSession::open
    MaxCalls,    \* bound on the commands sent
    MaxSteps,    \* bound on the steps of a chain
    Fragile      \* TRUE: the actor thread may panic

ASSUME ActorAssumption ==
    /\ Opener \in Clients
    /\ MaxCalls \in Nat \ {0}
    /\ MaxSteps \in Nat \ {0}
    /\ Fragile \in BOOLEAN

VARIABLES
    holders,   \* the tasks that hold a clone of the session's Arc
    sent,      \* commands the channel has accepted
    queue,     \* the channel
    actor,     \* the actor thread: its state and the command it executes
    waiting,   \* the call whose oneshot receiver a task awaits, 0 for none
    answer,    \* what that oneshot holds
    effects    \* the steps executed so far, in order

vars == <<holders, sent, queue, actor, waiting, answer, effects>>

Call == [id : 1..MaxCalls, from : Clients, steps : 1..MaxSteps]

Nothing == [id |-> 0, from |-> Opener, steps |-> 0]

\* outs is the number of step outputs the caller gets to see.
Answer ==
    [kind : {"pending", "ok", "error", "unbuilt", "gone"}, outs : 0..MaxSteps, id : 0..MaxCalls]

Pending == [kind |-> "pending", outs |-> 0, id |-> 0]

ActorState ==
    [st : {"starting", "serving", "failing", "gone", "panicked"},
     cmd : Call \cup {Nothing}, done : 0..MaxSteps]

TypeOK ==
    /\ holders \in SUBSET Clients
    /\ sent \in 0..MaxCalls
    /\ queue \in Seq(Call)
    /\ actor \in ActorState
    /\ waiting \in [Clients -> 0..MaxCalls]
    /\ answer \in [Clients -> Answer]
    /\ effects \in Seq([id : 1..MaxCalls, step : 1..MaxSteps])

\* spawn_actor, then open sends its Goto: the first command of the session.
Init ==
    /\ holders = {Opener}
    /\ sent = 1
    /\ queue = <<[id |-> 1, from |-> Opener, steps |-> 1]>>
    /\ actor = [st |-> "starting", cmd |-> Nothing, done |-> 0]
    /\ waiting = [c \in Clients |-> IF c = Opener THEN 1 ELSE 0]
    /\ answer = [c \in Clients |-> Pending]
    /\ effects = <<>>

Ended == actor.st \in {"gone", "panicked"}

----------------------------------------------------------------------------
(* The callers *)

\* send: the command is accepted while the receiver is alive.
Send(c, n) ==
    /\ c \in holders
    /\ waiting[c] = 0
    /\ ~Ended
    /\ sent < MaxCalls
    /\ sent' = sent + 1
    /\ queue' = Append(queue, [id |-> sent + 1, from |-> c, steps |-> n])
    /\ waiting' = [waiting EXCEPT ![c] = sent + 1]
    /\ UNCHANGED <<holders, actor, answer, effects>>

\* rx.await returned.
Return(c) ==
    /\ waiting[c] # 0
    /\ answer[c] # Pending
    /\ waiting' = [waiting EXCEPT ![c] = 0]
    /\ answer' = [answer EXCEPT ![c] = Pending]
    /\ UNCHANGED <<holders, sent, queue, actor, effects>>

\* The caller's future is dropped: the receiver goes, the command stays.
Abandon(c) ==
    /\ waiting[c] # 0
    /\ waiting' = [waiting EXCEPT ![c] = 0]
    /\ answer' = [answer EXCEPT ![c] = Pending]
    /\ UNCHANGED <<holders, sent, queue, actor, effects>>

\* The Arc is cloned for another task, or a task drops its clone.
Share(c, d) ==
    /\ c \in holders
    /\ d \notin holders
    /\ holders' = holders \cup {d}
    /\ UNCHANGED <<sent, queue, actor, waiting, answer, effects>>

Release(c) ==
    /\ c \in holders
    /\ waiting[c] = 0
    /\ holders' = holders \ {c}
    /\ UNCHANGED <<sent, queue, actor, waiting, answer, effects>>

----------------------------------------------------------------------------
(* The actor *)

\* reply.send: discarded when the receiver is gone.
Deliver(call, kind, outs) ==
    answer' = IF waiting[call.from] = call.id
              THEN [answer EXCEPT ![call.from] =
                        [kind |-> kind, outs |-> outs, id |-> call.id]]
              ELSE answer

\* ActorState::new succeeded, or the fetcher could not be built.
Start ==
    /\ actor.st = "starting"
    /\ \E st \in {"serving", "failing"} : actor' = [st |-> st, cmd |-> Nothing, done |-> 0]
    /\ UNCHANGED <<holders, sent, queue, waiting, answer, effects>>

\* Seeded bug for the runs: the channel is a stack.
TakenLast(q) == [cmd |-> Last(q), rest |-> Front(q)]

\* recv.
Taken(q) == [cmd |-> Head(q), rest |-> Tail(q)]

Recv ==
    /\ actor.st = "serving"
    /\ actor.cmd = Nothing
    /\ queue # <<>>
    /\ queue' = Taken(queue).rest
    /\ actor' = [st |-> "serving", cmd |-> Taken(queue).cmd, done |-> 0]
    /\ UNCHANGED <<holders, sent, waiting, answer, effects>>

\* send_construction_failure for the next command.
RecvFailing ==
    /\ actor.st = "failing"
    /\ queue # <<>>
    /\ queue' = Tail(queue)
    /\ Deliver(Head(queue), "unbuilt", 0)
    /\ UNCHANGED <<holders, sent, actor, waiting, effects>>

Executed ==
    effects' = Append(effects, [id |-> actor.cmd.id, step |-> actor.done + 1])

MoreSteps == actor.done + 1 < actor.cmd.steps

\* A step of the running command succeeded and is not its last.
StepOk ==
    /\ actor.cmd # Nothing
    /\ MoreSteps
    /\ Executed
    /\ actor' = [st |-> "serving", cmd |-> actor.cmd, done |-> actor.done + 1]
    /\ UNCHANGED <<holders, sent, queue, waiting, answer>>

\* The last step succeeded: the reply carries the output of every step.
LastStepOk ==
    /\ actor.cmd # Nothing
    /\ actor.done + 1 = actor.cmd.steps
    /\ Executed
    /\ Deliver(actor.cmd, "ok", actor.cmd.steps)
    /\ actor' = [st |-> "serving", cmd |-> Nothing, done |-> 0]
    /\ UNCHANGED <<holders, sent, queue, waiting>>

\* Seeded bug for the runs: a failed step of a chain is skipped.
StepErrSkipped ==
    /\ actor.cmd # Nothing
    /\ Deliver(actor.cmd, "ok", actor.cmd.steps)
    /\ actor' = [st |-> "serving", cmd |-> Nothing, done |-> 0]
    /\ UNCHANGED <<holders, sent, queue, waiting, effects>>

\* A step failed, perhaps after changing the page: the reply is its error, and
\* the outputs collected so far are dropped with the vector.
StepErr ==
    /\ actor.cmd # Nothing
    /\ Executed
    /\ Deliver(actor.cmd, "error", 0)
    /\ actor' = [st |-> "serving", cmd |-> Nothing, done |-> 0]
    /\ UNCHANGED <<holders, sent, queue, waiting>>

\* Seeded bug for the runs: the actor stops without draining its channel.
DrainedNever == TRUE

Drained == queue = <<>>

\* Seeded bug for the runs: the actor holds a sender of its own channel.
UnreferencedNever == FALSE

Unreferenced == holders = {}

\* recv returned None: every sender is gone and the channel is empty.
Exit ==
    /\ actor.st \in {"serving", "failing"}
    /\ actor.cmd = Nothing
    /\ Unreferenced
    /\ Drained
    /\ actor' = [st |-> "gone", cmd |-> Nothing, done |-> 0]
    /\ queue' = <<>>
    /\ UNCHANGED <<holders, sent, waiting, answer, effects>>

\* Seeded bug for the runs: queued reply senders outlive the actor.
OrphansForgotten == {}

\* The calls whose oneshot sender dies with the actor and its channel.
Orphans == {c \in Clients : waiting[c] # 0 /\ answer[c] = Pending}

\* The actor thread unwinds: its receiver is dropped, and with it every
\* queued command and its reply sender, so each caller sees ActorGone.
Panic ==
    /\ Fragile
    /\ ~Ended
    /\ actor' = [st |-> "panicked", cmd |-> Nothing, done |-> 0]
    /\ queue' = <<>>
    /\ answer' =
        [c \in Clients |->
            IF c \in Orphans
            THEN [kind |-> "gone", outs |-> 0, id |-> waiting[c]]
            ELSE answer[c]]
    /\ UNCHANGED <<holders, sent, waiting, effects>>

ActorStep == Start \/ Recv \/ RecvFailing \/ StepOk \/ LastStepOk \/ StepErr \/ Exit

Next ==
    \/ \E c \in Clients :
          \/ \E n \in 1..MaxSteps : Send(c, n)
          \/ Return(c) \/ Abandon(c) \/ Release(c)
          \/ \E d \in Clients : Share(c, d)
    \/ ActorStep
    \/ Panic

Spec == Init /\ [][Next]_vars

\* The actor thread gets a thread of the pool and keeps running, every step
\* comes back, and a caller whose answer is there resumes.
FairSpec ==
    /\ Spec
    /\ WF_vars(ActorStep)
    /\ \A c \in Clients : WF_vars(Return(c))

----------------------------------------------------------------------------
(* Properties *)

\* Commands take effect in the order they were sent, each as one block, at
\* most once: no step of one chain falls between the steps of another, and an
\* abandoned call does not change that.
Serial ==
    \A i, j \in DOMAIN effects : i < j =>
        \/ effects[i].id < effects[j].id
        \/ effects[i].id = effects[j].id /\ effects[i].step < effects[j].step

StepsOf(id) == {i \in DOMAIN effects : effects[i].id = id}

\* An answer is about the caller's own command and tells what became of it:
\* after Ok every step ran and is reported, an error came from a step that
\* ran, and a session that could not be built never runs anything.
AnswerIsTrue ==
    \A c \in Clients : answer[c] # Pending =>
        /\ answer[c].id = waiting[c]
        /\ answer[c].kind = "ok"
              => Cardinality(StepsOf(waiting[c])) = answer[c].outs
        /\ answer[c].kind = "error" => StepsOf(waiting[c]) # {}
        /\ answer[c].kind = "unbuilt" => effects = <<>>

\* A session (one that could be built) that is closed while commands are
\* queued executes them all first, even those nobody awaits any more.
DrainedBeforeExit ==
    actor.st = "gone" /\ effects # <<>> =>
        \A id \in 1..sent : StepsOf(id) # {}

\* Every caller that awaits is answered, whatever happens to the actor.
CallsEnd == \A c \in Clients : (waiting[c] # 0) ~> (waiting[c] = 0)

\* When the last handle is dropped the actor thread ends.
ThreadFreed == (holders = {}) ~> Ended
============================================================================
