----------------------------- MODULE Frontends -----------------------------
(***************************************************************************)
(* The two front ends that turn what they are asked into commands of a     *)
(* browse session: the bouncy_browse_* tools of the MCP server, whose      *)
(* callers share a session, and `bouncy browse`, which runs the steps of a *)
(* script or the lines of a REPL on a session of its own.                  *)
(*                                                                         *)
(* The session is an environment: a command may or may not change its page,*)
(* and may fail after it did (BrowseSession says when); a chain is one     *)
(* command (SessionActor).  A step is told apart by what becomes of it:    *)
(* bad ones do not parse or convert, read returns matches and leaves the   *)
(* page, eval and act return a snapshot.  The placeholders of secrets and  *)
(* the values they stand for are left out.                                 *)
(***************************************************************************)
EXTENDS Integers, Sequences, FiniteSets

CONSTANTS
    Clients,      \* the callers of the MCP tools
    MaxSteps,     \* bound: steps of a chain or a script
    MaxCalls,     \* bound: tool calls, lines of a REPL
    MaxPage       \* bound: changes of the page

ASSUME FrontendsAssumption == {MaxSteps, MaxCalls, MaxPage} \subseteq Nat

VARIABLES
    front,        \* mcp, script or repl
    page,         \* how often the session's page has changed
    there,        \* the session is in the store
    calls,        \* tool calls made
    call,         \* the call each client is in, or its answer
    ran,          \* history: <<call, step>> executed; the CLI is call 0
    script, json, \* the CLI's --do steps and its --json
    line,         \* steps of the script that succeeded; lines of the REPL
    printed,      \* history: what it wrote to standard output
    last,         \* the script's last_snapshot
    status        \* running, ok, error

mcp == <<there, calls, call>>
cli == <<script, json, line, printed, last, status>>
vars == <<front, page, mcp, ran, cli>>

\* ChainStep and Operation.
Step == [op : {"bad", "read", "eval", "act"}]

Scripts == UNION {[1..n -> Step] : n \in 1..MaxSteps}

Idle == [st |-> "idle", id |-> 0, steps |-> <<>>,
         outs |-> <<>>, final |-> {}, now |-> 0]

\* Something printed: what it is, the step it is about, and the page it shows.
Doc == [of : {"opened", "echo", "read", "eval", "act", "done", "final"},
        step : Nat, shows : SUBSET Nat]

Output(of, n, shows) == <<[of |-> of, step |-> n, shows |-> shows]>>

Init ==
    /\ front \in {"mcp", "script", "repl"}
    /\ page = 0
    /\ there = TRUE /\ calls = 0 /\ call = [c \in Clients |-> Idle]
    /\ ran = {}
    /\ script \in IF front = "script" THEN Scripts ELSE {<<>>}
    /\ json \in IF front = "mcp" THEN {FALSE} ELSE BOOLEAN
    /\ printed = IF front = "script" /\ ~json THEN Output("opened", 0, {0}) ELSE <<>>
    /\ line = 0 /\ last = 0 /\ status = "running"

----------------------------------------------------------------------------
(* One command on the session *)

\* How far a command gets: all its steps, or up to the one that fails; the steps
\* in moved change the page.
Runs(steps) ==
    {r \in [upto : 0..Len(steps), moved : SUBSET (1..Len(steps))] :
        /\ \A k \in 1..r.upto : steps[k].op # "bad"
        /\ \A k \in r.moved : k <= r.upto + 1 /\ steps[k].op \notin {"read", "bad"}
        /\ page + Cardinality(r.moved) <= MaxPage}

Attempted(steps, r) == {k \in 1..Len(steps) : k <= r.upto + 1}

PageAfter(r, k) == page + Cardinality({i \in r.moved : i <= k})

Executed(id, first, steps, r) ==
    /\ page' = page + Cardinality(r.moved)
    /\ ran' = ran \cup {<<id, first + k>> : k \in Attempted(steps, r)}

\* What each step that succeeded returned: at most one snapshot, which shows the
\* page as the step left it.
Outs(steps, r) ==
    [k \in 1..r.upto |-> IF steps[k].op = "read" THEN {} ELSE {PageAfter(r, k)}]

----------------------------------------------------------------------------
(* The MCP tools *)

\* Seeded bug for the runs: the later steps are converted when their turn comes.
ConvertibleFirst(steps) == \A k \in DOMAIN steps : k = 1 => steps[k].op # "bad"

\* target_from_pair, parse_read_mode, ...: every step converts.
Convertible(steps) == \A k \in DOMAIN steps : steps[k].op # "bad"

\* touch, then the conversion of the input, then the command is sent.
Asked(c, steps) ==
    /\ front = "mcp" /\ call[c].st = "idle" /\ calls < MaxCalls
    /\ calls' = calls + 1
    /\ call' = [call EXCEPT ![c] =
                   [Idle EXCEPT !.st = IF there /\ Convertible(steps) THEN "sent"
                                       ELSE "refused",
                                !.id = calls + 1, !.steps = steps]]
    /\ UNCHANGED <<front, page, there, ran, cli>>

\* bouncy_browse_click, fill, submit, goto, read, eval, ...
CallTool(c) == \E s \in Step : Asked(c, <<s>>)

CallChain(c) == \E steps \in Scripts : Asked(c, steps)

\* Seeded bug for the runs: the first snapshot is taken.
FinalSnapshotFirst(outs) ==
    LET shots == {k \in DOMAIN outs : outs[k] # {}}
    IN  UNION {outs[k] : k \in {k \in shots : \A j \in shots : k <= j}}

\* outs.iter().rev().find_map: the last snapshot that a step returned, if any.
FinalSnapshot(outs) ==
    LET shots == {k \in DOMAIN outs : outs[k] # {}}
    IN  UNION {outs[k] : k \in {k \in shots : \A j \in shots : j <= k}}

\* The actor executes the command; its answer carries what the steps returned if
\* all succeeded, and otherwise an error.
Finish(c) ==
    /\ call[c].st = "sent"
    /\ \E r \in Runs(call[c].steps) :
         LET steps == call[c].steps
             ok == r.upto = Len(steps)
             outs == IF ok THEN Outs(steps, r) ELSE <<>>
         IN  /\ Executed(call[c].id, 0, steps, r)
             /\ call' = [call EXCEPT ![c].st = IF ok THEN "ok" ELSE "error",
                                     ![c].outs = outs,
                                     ![c].final = FinalSnapshot(outs),
                                     ![c].now = page']
    /\ UNCHANGED <<front, there, calls, cli>>

Return(c) ==
    /\ call[c].st \in {"ok", "error", "refused"}
    /\ call' = [call EXCEPT ![c] = Idle]
    /\ UNCHANGED <<front, page, there, calls, ran, cli>>

\* bouncy_browse_close, or the reaper.  A command that was sent is still executed.
Gone ==
    /\ front = "mcp" /\ there
    /\ there' = FALSE
    /\ UNCHANGED <<front, page, calls, call, ran, cli>>

----------------------------------------------------------------------------
(* bouncy browse *)

\* Seeded bug for the runs: the snapshot that eval returns is not kept.
LastSnapshotOfActs(step, r) ==
    IF step.op \in {"read", "eval"} THEN last ELSE PageAfter(r, 1)

LastSnapshot(step, r) == IF step.op = "read" THEN last ELSE PageAfter(r, 1)

\* A step's result: the matches of a read, the value of an eval, a snapshot.
\* Matches are one line each, so there may be none; under --json they are one
\* document.
Results(step, r) ==
    {Output(step.op, line + 1, IF step.op = "act" THEN {PageAfter(r, 1)} ELSE {})}
    \cup {out \in {<<>>} : step.op = "read" /\ ~json}

\* Seeded bug for the runs: the arm of eval is written like that of a snapshot.
StepResultsQuiet(step, r) ==
    IF json /\ step.op # "read" THEN {<<>>} ELSE Results(step, r)

\* Under --json a script keeps its snapshots to itself until it ends.
StepResults(step, r) ==
    IF json /\ step.op = "act" THEN {<<>>} ELSE Results(step, r)

\* "> step", before it is executed.
Echo == IF json THEN <<>> ELSE Output("echo", line + 1, {})

\* Operation::execute in a script: an error ends the command.
Took(step, r) ==
    /\ Executed(0, line, <<step>>, r)
    /\ IF r.upto = 0
       THEN /\ printed' = printed \o Echo
            /\ status' = "error"
            /\ UNCHANGED <<line, last>>
       ELSE /\ \E out \in StepResults(step, r) : printed' = printed \o Echo \o out
            /\ last' = LastSnapshot(step, r)
            /\ line' = line + 1
            /\ UNCHANGED status
    /\ UNCHANGED <<front, mcp, script, json>>

\* One --do: parsed only now, executed if it parses.
DoStep ==
    /\ front = "script" /\ status = "running" /\ line < Len(script)
    /\ LET step == script[line + 1]
       IN  IF step.op = "bad"
           THEN /\ status' = "error"
                /\ UNCHANGED <<front, page, mcp, ran, script, json, line, printed, last>>
           ELSE \E r \in Runs(<<step>>) : Took(step, r)

\* The final snapshot, or "done.".
DoneScript ==
    /\ front = "script" /\ status = "running" /\ line = Len(script)
    /\ status' = "ok"
    /\ printed' = printed \o (IF json THEN Output("final", line, {last})
                             ELSE Output("done", line, {}))
    /\ UNCHANGED <<front, page, mcp, ran, script, json, line, last>>

\* A line of the REPL: an error goes to standard error and the session goes on.
ReplLine ==
    /\ front = "repl" /\ status = "running" /\ line < MaxCalls
    /\ line' = line + 1
    /\ \E step \in Step :
         IF step.op = "bad"
         THEN UNCHANGED <<page, ran, printed>>
         ELSE \E r \in Runs(<<step>>) :
                /\ Executed(0, line, <<step>>, r)
                /\ IF r.upto = 0 THEN UNCHANGED printed
                   ELSE \E out \in Results(step, r) : printed' = printed \o out
    /\ UNCHANGED <<front, mcp, script, json, last, status>>

\* exit, quit, or the end of the input.
ReplEnd ==
    /\ front = "repl" /\ status = "running"
    /\ status' = "ok"
    /\ UNCHANGED <<front, page, mcp, ran, script, json, line, printed, last>>

Quiet ==
    /\ IF front = "mcp"
       THEN calls = MaxCalls /\ \A c \in Clients : call[c].st = "idle"
       ELSE status # "running"
    /\ UNCHANGED vars

Next ==
    \/ \E c \in Clients : CallTool(c) \/ CallChain(c) \/ Finish(c) \/ Return(c)
    \/ Gone \/ DoStep \/ DoneScript \/ ReplLine \/ ReplEnd \/ Quiet

Spec == Init /\ [][Next]_vars

----------------------------------------------------------------------------
(* Properties *)

Calls == [st : {"idle", "sent", "refused", "ok", "error"}, id : 0..MaxCalls,
          steps : Seq(Step), outs : Seq(SUBSET Nat), final : SUBSET Nat, now : Nat]

TypeOK ==
    /\ front \in {"mcp", "script", "repl"}
    /\ page \in 0..MaxPage
    /\ there \in BOOLEAN /\ calls \in 0..MaxCalls /\ call \in [Clients -> Calls]
    /\ ran \subseteq Nat \X Nat
    /\ script \in Seq(Step) /\ json \in BOOLEAN /\ line \in Nat
    /\ printed \in Seq(Doc) /\ last \in Nat
    /\ status \in {"running", "ok", "error"}

RanOf(id) == {e[2] : e \in {e \in ran : e[1] = id}}

\* A call with a step that does not convert does nothing at all, however many
\* good steps come before it; one that is answered ok did all of its steps.
AllOrRefused ==
    \A c \in Clients :
        /\ (\E k \in DOMAIN call[c].steps : call[c].steps[k].op = "bad") =>
              RanOf(call[c].id) = {}
        /\ call[c].st = "ok" => RanOf(call[c].id) = DOMAIN call[c].steps

\* The snapshot a chain's answer ends with shows the page as the chain left it,
\* whatever steps without a snapshot come after it.
FinalSnapshotHolds == \A c \in Clients : call[c].final \subseteq {call[c].now}

\* The steps that something of these kinds was printed about.
Told(kinds) == {printed[k].step : k \in {k \in DOMAIN printed : printed[k].of \in kinds}}

ResultKinds == {"read", "eval", "act"}

Endings == {"done", "final"}

Before(a, b) ==
    \/ a.step < b.step
    \/ a.step = b.step /\ (b.of \in Endings \/ (a.of = "echo" /\ b.of \in ResultKinds))

\* In text every step that was sent is announced, the failing one included, and every
\* one that succeeded reports, unless it is a read without a match; under --json reads
\* and evals that succeeded have a document each, steps that return a snapshot none.
TellsSteps ==
    /\ \A j, k \in DOMAIN printed : j < k => Before(printed[j], printed[k])
    /\ 1..line \subseteq RanOf(0) /\ RanOf(0) \subseteq 1..(line + 1)
    /\ json => Told(ResultKinds) = {k \in 1..line : script[k].op # "act"}
    /\ ~json => /\ Told({"echo"}) = RanOf(0)
                /\ Told(ResultKinds) \subseteq 1..line
                /\ {k \in 1..line : script[k].op # "read"} \subseteq Told(ResultKinds)

\* The script says that it is done when all its steps succeeded and only then, and
\* the last document of --json is the page as it is then: the canonical result.
EndsWithPage ==
    /\ (Told(Endings) # {}) <=> (status = "ok")
    /\ status = "ok" =>
          /\ line = Len(script)
          /\ printed[Len(printed)].of = IF json THEN "final" ELSE "done"
          /\ json => printed[Len(printed)].shows = {page}

\* What a script prints tells, in order and in the way of its mode, what it did, and
\* its end is the end of all its steps and shows what they made of the page.
ScriptReports == front = "script" => TellsSteps /\ EndsWithPage
============================================================================
