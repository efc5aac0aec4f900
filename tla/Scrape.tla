------------------------------- MODULE Scrape -------------------------------
(***************************************************************************)
(* bouncy scrape (crates/bouncy-cli/src/scrape.rs): a list of URLs is      *)
(* fetched by one task that keeps at most `concurrency' rows in progress   *)
(* (buffer_unordered), takes a permit of the URL's host before the first   *)
(* attempt (HostLimiter, a FIFO semaphore per host), and retries transient *)
(* answers with a backoff.  Each row reports what it does as ScrapeEvents. *)
(*                                                                         *)
(* A step is what a row does between two awaits.  The contents of a page   *)
(* (title, --eval, --select) are left out: they are computed without an    *)
(* await between the last answer and the final event, and cannot fail the  *)
(* row.                                                                    *)
(***************************************************************************)
EXTENDS Naturals, Sequences, FiniteSets

CONSTANTS
    NRows,        \* the number of URLs on the command line
    Urls,
    Hosts,
    NoHost,       \* host_of gives None
    UrlOf,        \* the URL of each row
    HostOf,       \* host_of
    Concurrency,  \* --concurrency
    Throttled,    \* whether --per-host-concurrency is given
    PerHost,      \* and its value
    Retry,        \* --retry
    Tui           \* whether --tui is given, so that events have a receiver

Rows == 1..NRows

ASSUME ScrapeAssumption ==
    /\ NRows \in Nat
    /\ NoHost \notin Hosts
    /\ UrlOf \in [Rows -> Urls]
    /\ HostOf \in [Urls -> Hosts \cup {NoHost}]
    /\ Concurrency \in Nat
    /\ Throttled \in BOOLEAN
    /\ PerHost \in Nat
    /\ Retry \in Nat
    /\ Tui \in BOOLEAN

VARIABLES
    task,     \* the task that runs scrape()
    pulled,   \* rows taken from the list into the window
    stage,    \* where each row is
    free,     \* the permits left of each host's semaphore
    queue,    \* the rows waiting for one, in order
    retries,
    tried,    \* requests each row has made
    result,   \* the final answer of each row
    saved,    \* whether the cookie jar has been written back
    events    \* the channel of ScrapeEvents

rowVars == <<pulled, stage, free, queue, retries, tried, result>>
vars == <<task, pulled, stage, free, queue, retries, tried, result, saved, events>>

Tasks == {"starting", "running", "over", "error", "aborted"}

\* "ready": in the window, not polled yet; "limited": waiting for a permit;
\* "granted": the permit was handed over, the row not polled since.
Stages == {"queued", "ready", "limited", "granted", "fetching", "backoff", "done"}

Results == {"none", "good", "transient", "failed"}

Kinds == {"Queued", "RequestStart", "Response", "BackoffStart", "Completed", "Failed"}

Event == [kind : Kinds, row : Rows, n : 0..(Retry + 1)]

Window == IF Concurrency = 0 THEN 1 ELSE Concurrency

Limit == IF PerHost = 0 THEN 1 ELSE PerHost

TypeOK ==
    /\ task \in Tasks
    /\ pulled \in 0..NRows
    /\ stage \in [Rows -> Stages]
    /\ free \in [Hosts -> 0..Limit]
    /\ queue \in [Hosts -> Seq(Rows)]
    /\ retries \in [Rows -> 0..Retry]
    /\ tried \in [Rows -> 0..(Retry + 1)]
    /\ result \in [Rows -> Results]
    /\ saved \in BOOLEAN
    /\ events \in Seq(Event)

Host(r) == HostOf[UrlOf[r]]

Init ==
    /\ task = "starting"
    /\ pulled = 0
    /\ stage = [r \in Rows |-> "queued"]
    /\ free = [h \in Hosts |-> Limit]
    /\ queue = [h \in Hosts |-> <<>>]
    /\ retries = [r \in Rows |-> 0]
    /\ tried = [r \in Rows |-> 0]
    /\ result = [r \in Rows |-> "none"]
    /\ saved = FALSE
    /\ events = <<>>

Ev(kind, r, n) == [kind |-> kind, row |-> r, n |-> n]

\* emit: without a receiver no event is made.
Emit(evs) == events' = IF Tui THEN events \o evs ELSE events

----------------------------------------------------------------------------
(* The task *)

\* The jar or a CA file cannot be read, or the fetcher cannot be built.
SetupFails ==
    /\ task = "starting"
    /\ task' = "error"
    /\ UNCHANGED <<rowVars, saved, events>>

\* Every URL is announced, and the first window is filled.
Setup ==
    /\ task = "starting"
    /\ task' = "running"
    /\ pulled' = IF Window < NRows THEN Window ELSE NRows
    /\ stage' = [r \in Rows |-> IF r <= Window THEN "ready" ELSE "queued"]
    /\ Emit([r \in Rows |-> Ev("Queued", r, 0)])
    /\ UNCHANGED <<free, queue, retries, tried, result, saved>>

AllDone == \A r \in Rows : stage[r] = "done"

\* The summary is written (not under --tui), then the jar.
WriteBack ==
    /\ task = "running"
    /\ AllDone
    /\ task' = "over"
    /\ saved' = TRUE
    /\ UNCHANGED <<rowVars, events>>

\* Writing either of them fails.
WriteFails ==
    /\ task = "running"
    /\ AllDone
    /\ task' = "error"
    /\ UNCHANGED <<rowVars, saved, events>>

----------------------------------------------------------------------------
(* One row *)

\* The limiter is on and the URL has a host.
Throttles(r) == Throttled /\ Host(r) # NoHost

\* The row's first poll finds a permit, or needs none.
Enter(r) ==
    /\ task = "running"
    /\ stage[r] = "ready"
    /\ Throttles(r) => free[Host(r)] > 0
    /\ stage' = [stage EXCEPT ![r] = "fetching"]
    /\ free' = IF Throttles(r) THEN [free EXCEPT ![Host(r)] = @ - 1] ELSE free
    /\ tried' = [tried EXCEPT ![r] = 1]
    /\ Emit(<<Ev("RequestStart", r, 0)>>)
    /\ UNCHANGED <<task, pulled, queue, retries, result, saved>>

\* The row's first poll finds no permit.
Wait(r) ==
    /\ task = "running"
    /\ stage[r] = "ready"
    /\ Throttles(r)
    /\ free[Host(r)] = 0
    /\ stage' = [stage EXCEPT ![r] = "limited"]
    /\ queue' = [queue EXCEPT ![Host(r)] = Append(@, r)]
    /\ UNCHANGED <<task, pulled, free, retries, tried, result, saved, events>>

\* The row is polled with the permit it was handed.
Resume(r) ==
    /\ task = "running"
    /\ stage[r] = "granted"
    /\ stage' = [stage EXCEPT ![r] = "fetching"]
    /\ tried' = [tried EXCEPT ![r] = 1]
    /\ Emit(<<Ev("RequestStart", r, 0)>>)
    /\ UNCHANGED <<task, pulled, free, queue, retries, result, saved>>

\* A URL without a host is one the fetcher refuses.
Answers(r) == IF Host(r) = NoHost THEN {"failed"} ELSE {"good", "transient", "failed"}

\* Seeded bug for the runs: one retry too few.
ExhaustedEarly(r) == retries[r] + 1 >= Retry

Exhausted(r) == retries[r] >= Retry

\* The answer is transient or an error, and there are retries left.
BackOff(r, k) ==
    /\ task = "running"
    /\ stage[r] = "fetching"
    /\ k \in Answers(r) \ {"good"}
    /\ ~Exhausted(r)
    /\ stage' = [stage EXCEPT ![r] = "backoff"]
    /\ Emit((IF k = "failed" THEN <<>> ELSE <<Ev("Response", r, 0)>>)
            \o <<Ev("BackoffStart", r, retries[r])>>)
    /\ UNCHANGED <<task, pulled, free, queue, retries, tried, result, saved>>

RetryNow(r) ==
    /\ task = "running"
    /\ stage[r] = "backoff"
    /\ stage' = [stage EXCEPT ![r] = "fetching"]
    /\ retries' = [retries EXCEPT ![r] = @ + 1]
    /\ tried' = [tried EXCEPT ![r] = @ + 1]
    /\ Emit(<<Ev("RequestStart", r, retries[r] + 1)>>)
    /\ UNCHANGED <<task, pulled, free, queue, result, saved>>

\* Seeded bug for the runs: nobody wakes the rows that wait.
HeirsNone(r) == {}

\* The row its permit goes to, if one is waiting.
Heirs(r) ==
    IF Throttles(r) /\ queue[Host(r)] # <<>> THEN {Head(queue[Host(r)])} ELSE {}

\* Seeded bug for the runs: a permit that is handed over is freed too.
ReleasedAlways(r) == Throttles(r)

\* The permit goes back to the semaphore.
Released(r) == Throttles(r) /\ Heirs(r) = {}

\* The row is over: its permit is handed to the next waiter or freed, and the
\* next row enters the window.
Leave(r) ==
    /\ stage' = [s \in Rows |->
                    IF s = r THEN "done"
                    ELSE IF s \in Heirs(r) THEN "granted"
                    ELSE IF s = pulled + 1 THEN "ready"
                    ELSE stage[s]]
    /\ queue' = IF Heirs(r) = {} THEN queue
                ELSE [queue EXCEPT ![Host(r)] = Tail(@)]
    /\ free' = IF Released(r) THEN [free EXCEPT ![Host(r)] = @ + 1] ELSE free
    /\ pulled' = IF pulled < NRows THEN pulled + 1 ELSE pulled

\* A response that needs no retry, or has none left.
Complete(r, k) ==
    /\ task = "running"
    /\ stage[r] = "fetching"
    /\ k \in Answers(r) \ {"failed"}
    /\ k = "good" \/ Exhausted(r)
    /\ Leave(r)
    /\ result' = [result EXCEPT ![r] = k]
    /\ Emit(<<Ev("Response", r, 0), Ev("Completed", r, retries[r])>>)
    /\ UNCHANGED <<task, retries, tried, saved>>

\* An error with no retry left.
Fail(r) ==
    /\ task = "running"
    /\ stage[r] = "fetching"
    /\ Exhausted(r)
    /\ Leave(r)
    /\ result' = [result EXCEPT ![r] = "failed"]
    /\ Emit(<<Ev("Failed", r, retries[r] + 1)>>)
    /\ UNCHANGED <<task, retries, tried, saved>>

Answered(r) == Fail(r) \/ \E k \in Results : BackOff(r, k) \/ Complete(r, k)

Polled(r) == Enter(r) \/ Wait(r) \/ Resume(r) \/ RetryNow(r)

Ended == task \in {"over", "error", "aborted"}

\* The command has returned.
Exit == Ended /\ UNCHANGED vars

Work ==
    \/ SetupFails \/ Setup \/ WriteBack \/ WriteFails
    \/ \E r \in Rows : Polled(r) \/ Answered(r)

Next == Work \/ Exit

Spec == Init /\ [][Next]_vars

\* The task is scheduled and the backoff timers fire; no server has to answer.
Scheduling ==
    /\ WF_vars(Setup \/ SetupFails)
    /\ WF_vars(WriteBack \/ WriteFails)
    /\ \A r \in Rows : WF_vars(Polled(r))

FairSpec == Spec /\ Scheduling

----------------------------------------------------------------------------
(* Properties *)

\* The rows that hold a permit of h.
Holders(h) ==
    {r \in Rows : Throttles(r) /\ Host(r) = h /\ stage[r] \in {"granted", "fetching", "backoff"}}

\* At most PerHost rows of a host are past the limiter, retries included.
HostCap == Throttled => \A h \in Hosts : Cardinality(Holders(h)) <= Limit

\* A permit is never left free while a row waits for it, and a row waits only
\* behind rows of its own host that will hand theirs over.
NoIdlePermit ==
    \A r \in Rows : stage[r] = "limited" =>
        /\ free[Host(r)] = 0
        /\ Holders(Host(r)) # {}
        /\ \E i \in DOMAIN queue[Host(r)] : queue[Host(r)][i] = r

\* A row that ends made as many requests as it reports, never more than
\* --retry allows, and gave up only on the last of them.
RetryBudget ==
    \A r \in Rows :
        /\ tried[r] <= Retry + 1
        /\ stage[r] = "done" =>
              /\ tried[r] = retries[r] + 1
              /\ result[r] # "good" => tried[r] = Retry + 1

\* --timeout is the "Per-URL timeout in seconds": a URL is given up in time.
UrlsTimeOut == \A r \in Rows : stage[r] = "fetching" ~> stage[r] # "fetching"
============================================================================
