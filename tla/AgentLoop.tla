----------------------------- MODULE AgentLoop -----------------------------
(***************************************************************************)
(* The benchmark's agent (bench/webarena): for each task a fresh browse    *)
(* session, a loop that shows the model the page, dispatches the tool      *)
(* calls of its turn one after the other and sends back their results with *)
(* a fresh snapshot, and a verdict on the trajectory.                      *)
(*                                                                         *)
(* The model (LLM) is an environment: any turn it may legally send.  What  *)
(* a page's scripts do when an element is acted on is an environment too:  *)
(* nothing, one element more or one less, or an exception.                 *)
(***************************************************************************)
EXTENDS Snapshot

CONSTANTS
    Jobs,         \* number of tasks
    MaxSteps,     \* max_steps of every task
    MaxCalls,     \* bound: tool calls in one turn
    MaxLen,       \* bound: elements of a page
    Shapes,       \* elements without node; inside says: in the form before it
    Added,        \* bound: the shapes a script or a navigation may bring
    Sent,         \* the indexes the model may send
    IndexWidth,   \* 2^32 in the code
    Texts,        \* the texts the model may ask to click
    NoAnswer

ASSUME AgentAssumption ==
    /\ {Jobs, MaxSteps, MaxCalls, MaxLen} \subseteq Nat
    /\ Sent \subseteq Nat /\ IndexWidth \in Nat \ {0}
    /\ Shapes \cup Added \subseteq
          [node : {NoNode}, tag : STRING, attr : [Attributes -> STRING],
           classes : Seq(STRING), href : BOOLEAN, text : STRING, inside : BOOLEAN]
    /\ 1..MaxLen \subseteq Nodes /\ MaxLen # 0
    /\ IsFiniteSet(Nodes) => Cardinality(Nodes) > 2 * MaxLen
    /\ NoAnswer \notin {"right", "wrong"}

VARIABLES
    page,         \* the live page of the session
    shown,        \* the list in the message sent last
    at,           \* open, ask, call, over, end
    step,         \* turns taken
    calls,        \* calls of this turn still to dispatch
    blocks,       \* calls of this turn whose result is ready to send
    messages,     \* the conversation, as the calls each message makes or answers
    steps,        \* the trajectory's steps
    answer, stop, \* of the trajectory
    verdicts,     \* summary
    acted         \* history: the call just dispatched, if it named an element

session == <<page, shown>>
turn == <<calls, blocks>>
trajectory == <<steps, answer, stop>>
agentVars == <<page, shown, at, step, calls, blocks, messages, steps, answer, stop,
               verdicts, acted>>

Answers == {"right", "wrong"}

Message(role, ids) == [role |-> role, ids |-> ids]

NothingActed ==
    [first |-> FALSE, sent |-> 0, named |-> NoNode, sure |-> FALSE, hit |-> NoNode]

----------------------------------------------------------------------------
(* Pages *)

Nested(p) ==
    \A k \in DOMAIN p : \A j \in 1..(k - 1) :
        p[k].inside = {p[j].node} =>
            /\ p[k].tag # "form"
            /\ \A l \in (j + 1)..k : p[l].inside = p[k].inside

FormBefore(shapes, k) ==
    LET forms == {j \in 1..(k - 1) : shapes[j].tag = "form"}
    IN  {j \in forms : \A i \in forms : i <= j}

Placed(s, n, forms) == [s EXCEPT !.node = n, !.inside = forms]

\* The pages a session may be opened on.  Their nodes are 1, 2, ...
Opened ==
    {p \in UNION {{[k \in 1..n |->
                     Placed(s[k], k, IF s[k].inside THEN FormBefore(s, k) ELSE {})]
                     : s \in [1..n -> Shapes]} : n \in 0..MaxLen}
       : Nested(p)}

Fresh(p) == CHOOSE n \in Nodes : n \notin NodesOf(p) \cup NodesOf(shown)

With(p, k, e) == SubSeq(p, 1, k) \o <<e>> \o SubSeq(p, k + 1, Len(p))

Without(p, e) ==
    LET kept == InOrder({k \in DOMAIN p : p[k] # e /\ e.node \notin p[k].inside})
    IN  [k \in DOMAIN kept |-> p[kept[k]]]

\* What a page can be after an event of one of its elements.
Edited(p) ==
    {p} \cup {Without(p, p[k]) : k \in DOMAIN p}
        \cup {q \in {With(p, k, Placed(s, Fresh(p), {})) :
                       k \in 0..Len(p), s \in Added}
                : Len(q) <= MaxLen /\ Nested(q)}

\* Another page, after a navigation: bound to one element.
Elsewhere ==
    {<<>>} \cup {<<Placed(s, Fresh(<<>>), {})>> : s \in Added}

----------------------------------------------------------------------------
AgentInit ==
    /\ page = <<>> /\ shown = <<>>
    /\ at = "open"
    /\ step = 0
    /\ calls = <<>> /\ blocks = <<>>
    /\ messages = <<>>
    /\ steps = <<>> /\ answer = NoAnswer /\ stop = "max_steps"
    /\ verdicts = <<>>
    /\ acted = NothingActed

\* Show the model the page: the first message, and the last block of the others.
Show(p, results) ==
    /\ shown' = Listing(p)
    /\ messages' = Append(messages, Message("user", results))

\* The job loop: BrowseSession::open on a session of its own.
Open ==
    /\ at = "open" /\ Len(verdicts) < Jobs
    /\ \E p \in Opened : page' = p /\ Show(p, <<>>)
    /\ at' = "ask"
    /\ UNCHANGED <<step, turn, trajectory, verdicts, acted>>

\* run_task returned: the next job starts with nothing of this one.
NextJob(success) ==
    /\ verdicts' = Append(verdicts, success)
    /\ at' = IF Len(verdicts) + 1 = Jobs THEN "end" ELSE "open"
    /\ page' = <<>> /\ shown' = <<>> /\ step' = 0
    /\ calls' = <<>> /\ blocks' = <<>> /\ messages' = <<>>
    /\ steps' = <<>> /\ answer' = NoAnswer /\ stop' = "max_steps"
    /\ acted' = NothingActed

\* A `?` of run_task: the page did not open, the model did not answer or sent
\* what does not parse, or the snapshot failed.  No trajectory is scored.
HarnessError ==
    /\ \/ at = "open" /\ Len(verdicts) < Jobs
       \/ at = "ask" /\ step < MaxSteps
       \/ at = "call" /\ calls = <<>>
    /\ NextJob(FALSE)

\* Judge::score: the substrings a task expects, or a rubric of WebArena's that
\* asks for a string match, for what is not supported, or for nothing.
Judged(rubric) ==
    /\ stop = "done"
    /\ rubric # "unsupported"
    /\ rubric \in {"substrings", "string_match"} => answer = "right"

Score ==
    /\ at = "over"
    /\ \E rubric \in {"substrings", "string_match", "unsupported", "nothing"} :
         NextJob(Judged(rubric))

\* The for loop is over without `done`.
OutOfSteps ==
    /\ at = "ask" /\ step = MaxSteps
    /\ at' = "over"
    /\ UNCHANGED <<session, step, turn, messages, trajectory, verdicts, acted>>

\* A turn with tool calls; ids are unique in the conversation.
Turn ==
    /\ at = "ask" /\ step < MaxSteps
    /\ \E n \in 1..MaxCalls :
         LET ids == [k \in 1..n |-> <<step, k>>]
         IN  /\ calls' = ids
             /\ messages' = Append(messages, Message("assistant", ids))
    /\ blocks' = <<>>
    /\ step' = step + 1 /\ at' = "call"
    /\ UNCHANGED <<session, trajectory, verdicts, acted>>

\* A turn without calls; its message is kept if it has text.
NoCalls ==
    /\ at = "ask" /\ step < MaxSteps
    /\ \/ messages' = Append(messages, Message("assistant", <<>>))
       \/ UNCHANGED messages
    /\ step' = step + 1 /\ at' = "over" /\ stop' = "error"
    /\ acted' = NothingActed
    /\ UNCHANGED <<session, turn, steps, answer, verdicts>>

----------------------------------------------------------------------------
(* Dispatching one call *)

Calling == at = "call" /\ calls # <<>>

IsFirst == blocks = <<>>

\* Seeded bug for the runs: a failed call is recorded but not answered.
AnsweredIfOk(result) ==
    /\ steps' = Append(steps, [id |-> Head(calls), result |-> result])
    /\ blocks' = IF result = "error" THEN blocks ELSE Append(blocks, Head(calls))
    /\ calls' = Tail(calls)

\* Whatever became of it, the call gets a step and a tool_result.
Answered(result) ==
    /\ steps' = Append(steps, [id |-> Head(calls), result |-> result])
    /\ blocks' = Append(blocks, Head(calls))
    /\ calls' = Tail(calls)

Refused ==
    /\ Answered("error")
    /\ UNCHANGED page

\* click, fill, submit, select_option, press_key on what sel leads to.
ActOn(sel) ==
    IF QueryFirst(page, sel) = NoNode THEN Refused
    ELSE /\ page' \in Edited(page) \cup Elsewhere
         /\ \E result \in {"ok", "error"} : Answered(result)

\* Seeded bug for the runs: an index is looked up by its place, from one.
ResolvedFromOne(i) ==
    {shown[k].selector : k \in {k \in DOMAIN shown : k = i % IndexWidth}}

\* resolve_target takes the index through a snapshot of its own.
Resolved(i) == SelectorsForIndex(Listing(page), i % IndexWidth)

ByIndex ==
    /\ Calling
    /\ \E i \in Sent :
         LET entries == {shown[k] : k \in {k \in DOMAIN shown : k = i + 1}}
             hits == {QueryFirst(page, s) : s \in Resolved(i)}
         IN  /\ IF Resolved(i) = {} THEN Refused
                ELSE \E s \in Resolved(i) : ActOn(s)
             /\ acted' = [first |-> IsFirst, sent |-> i,
                          named |-> IF entries = {} THEN NoNode
                                    ELSE (CHOOSE e \in entries : TRUE).node,
                          sure |-> \A e \in entries :
                                      IsUnique(page, e.selector)
                                      /\ Parsed(e.selector) = e.selector,
                          hit |-> IF hits = {} THEN NoNode
                                  ELSE CHOOSE n \in hits : TRUE]
    /\ UNCHANGED <<shown, at, step, messages, answer, stop, verdicts>>

\* A click on the link or button with a text.
ByText ==
    /\ Calling
    /\ \E t \in Texts :
         LET found == TextMatches(page, t)
         IN  IF found = <<>> THEN Refused
             ELSE ActOn(UniqueSelector(page, page[found[1]]))
    /\ acted' = NothingActed
    /\ UNCHANGED <<shown, at, step, messages, answer, stop, verdicts>>

\* The same tools with a selector of the model's own, and goto and back.
BySelector ==
    /\ Calling
    /\ \/ \E k \in DOMAIN page : ActOn(Selector("tag", page[k].tag))
       \/ page' \in {page} \cup Elsewhere /\ \E result \in {"ok", "error"} : Answered(result)
    /\ acted' = NothingActed
    /\ UNCHANGED <<shown, at, step, messages, answer, stop, verdicts>>

\* read and wait_for; an unknown tool or a missing argument is an error.
Look ==
    /\ Calling
    /\ \E result \in {"ok", "error"} : Answered(result)
    /\ acted' = NothingActed
    /\ UNCHANGED <<page, shown, at, step, messages, answer, stop, verdicts>>

\* Seeded bug for the runs: the calls after `done` are still dispatched.
AfterDoneAll == IF calls' = <<>> THEN "over" ELSE "call"

AfterDone == "over"

\* The rest of the turn is not looked at, and no result is sent.
Done ==
    /\ Calling
    /\ Answered("done")
    /\ \E a \in Answers : answer' = a
    /\ stop' = "done" /\ at' = AfterDone
    /\ acted' = NothingActed
    /\ UNCHANGED <<session, step, messages, verdicts>>

\* The turn is over: a fresh snapshot goes out with the results.
Refresh ==
    /\ at = "call" /\ calls = <<>>
    /\ Show(page, blocks)
    /\ at' = "ask"
    /\ acted' = NothingActed
    /\ UNCHANGED <<page, step, turn, trajectory, verdicts>>

Dispatch == ByIndex \/ ByText \/ BySelector \/ Look \/ Done

AgentNext ==
    Open \/ HarnessError \/ Score \/ OutOfSteps \/ Turn \/ NoCalls \/ Dispatch \/ Refresh

Ended == at = "end" /\ UNCHANGED agentVars

AgentSpec == AgentInit /\ [][AgentNext \/ Ended]_agentVars

----------------------------------------------------------------------------
(* Properties *)

\* The list a model is shown names every element it can act on, once: forms,
\* fields in and out of forms, links and buttons share one numbering
\* (PageSnapshot::from_document).
ListIsComplete == at = "ask" => ListsEach(page, shown)

\* The first call of a turn meets the page the model was shown: an index of that
\* list acts on the element shown under it, if its selector is sound, and any
\* other index that fits in 32 bits is refused.
FirstIndexActs ==
    acted.first /\ acted.sent < IndexWidth =>
        /\ acted.named = NoNode => acted.hit = NoNode
        /\ acted.named # NoNode /\ acted.sure => acted.hit = acted.named

\* Whenever the model is asked, the conversation is one the API accepts: the
\* roles alternate, and each message with tool calls is followed by one that
\* answers those calls, all of them, in order, failed ones included.
ConversationValid ==
    at = "ask" =>
        /\ Len(messages) % 2 = 1
        /\ \A k \in DOMAIN messages :
              IF k % 2 = 1 THEN messages[k].role = "user"
              ELSE /\ messages[k].role = "assistant"
                   /\ messages[k + 1].ids = messages[k].ids

CallIds ==
    FlattenSeq([k \in DOMAIN messages |->
        IF messages[k].role = "assistant" THEN messages[k].ids ELSE <<>>])

\* The trajectory a judge sees is what happened: its steps are the calls of the
\* conversation in order, less those not dispatched, and it has an answer
\* exactly when it stopped on `done`, which then is its last step.
TrajectoryTrue ==
    /\ [k \in DOMAIN steps |-> steps[k].id] \o calls = CallIds
    /\ (answer # NoAnswer) = (stop = "done")
    /\ \A k \in DOMAIN steps :
          steps[k].result = "done" <=> stop = "done" /\ k = Len(steps)
    /\ stop = "done" => at = "over" /\ steps # <<>>
============================================================================
