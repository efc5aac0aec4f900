------------------------------ MODULE ScrapeTui ------------------------------
(***************************************************************************)
(* bouncy scrape --tui: the dashboard (crates/bouncy-cli/src/scrape_tui.rs) *)
(* beside the scrape task, and what main.rs does when the user leaves it.  *)
(* The display is a task of its own that drains the channel of events into *)
(* an AppState keyed by URL; q aborts the scrape.                          *)
(*                                                                         *)
(* Latencies, titles and the sliding window of the throughput are left     *)
(* out; hist counts what the status histogram holds.                       *)
(***************************************************************************)
EXTENDS Scrape

VARIABLES
    phase,      \* UrlState.phase, "unknown" if the map has no such URL
    attempts,   \* UrlState.attempts
    active,
    completed,
    failed,
    hist,       \* the sum of status_hist
    finished,
    quit        \* the user has left, the display is gone

display == <<phase, attempts, active, completed, failed, hist, finished>>

tuiVars == <<vars, display, quit>>

Phases == {"unknown", "Queued", "InFlight", "BackingOff", "Done", "Failed"}

TuiTypeOK ==
    /\ phase \in [Urls -> Phases]
    /\ attempts \in [Urls -> 0..(Retry + 1)]
    /\ {active, completed, failed, hist} \subseteq 0..NRows
    /\ {finished, quit} \subseteq BOOLEAN

TuiInit ==
    /\ Init
    /\ phase = [u \in Urls |-> "unknown"]
    /\ attempts = [u \in Urls |-> 0]
    /\ active = 0
    /\ completed = 0
    /\ failed = 0
    /\ hist = 0
    /\ finished = FALSE
    /\ quit = FALSE

----------------------------------------------------------------------------
(* AppState::apply *)

Announce(u) ==
    /\ phase' = [phase EXCEPT ![u] = IF @ = "unknown" THEN "Queued" ELSE @]
    /\ UNCHANGED <<attempts, active, completed, failed, hist>>

\* Seeded bug for the runs: a URL that was backing off counts again.
IsNewUnlessFlying(u) == phase[u] # "InFlight"

\* The URL was not active before this attempt.
IsNew(u) == phase[u] \in {"unknown", "Queued"}

StartAttempt(u, attempt) ==
    /\ active' = IF IsNew(u) THEN active + 1 ELSE active
    /\ phase' = [phase EXCEPT ![u] = "InFlight"]
    /\ attempts' = [attempts EXCEPT ![u] = attempt + 1]
    /\ UNCHANGED <<completed, failed, hist>>

StartBackoff(u, attempt) ==
    /\ phase' = IF phase[u] = "unknown" THEN phase
                ELSE [phase EXCEPT ![u] = "BackingOff"]
    /\ attempts' = IF phase[u] = "unknown" THEN attempts
                   ELSE [attempts EXCEPT ![u] = attempt + 1]
    /\ UNCHANGED <<active, completed, failed, hist>>

\* The URL has no final answer yet, and was active.
IsOpen(u) == phase[u] \notin {"Done", "Failed"}

WasActive(u) == phase[u] \in {"InFlight", "BackingOff"}

\* saturating_sub
Deactivate(u) == active' = IF WasActive(u) /\ active > 0 THEN active - 1 ELSE active

ShowCompleted(u) ==
    /\ Deactivate(u)
    /\ completed' = IF IsOpen(u) THEN completed + 1 ELSE completed
    /\ phase' = [phase EXCEPT ![u] = "Done"]
    /\ hist' = hist + 1
    /\ UNCHANGED <<attempts, failed>>

ShowFailed(u, n) ==
    /\ Deactivate(u)
    /\ failed' = IF IsOpen(u) THEN failed + 1 ELSE failed
    /\ phase' = [phase EXCEPT ![u] = "Failed"]
    /\ attempts' = [attempts EXCEPT ![u] = n]
    /\ UNCHANGED <<completed, hist>>

Apply(e) ==
    LET u == UrlOf[e.row] IN
    \/ e.kind = "Queued" /\ Announce(u)
    \/ e.kind = "RequestStart" /\ StartAttempt(u, e.n)
    \/ e.kind = "Response" /\ UNCHANGED <<phase, attempts, active, completed, failed, hist>>
    \/ e.kind = "BackoffStart" /\ StartBackoff(u, e.n)
    \/ e.kind = "Completed" /\ ShowCompleted(u)
    \/ e.kind = "Failed" /\ ShowFailed(u, e.n)

----------------------------------------------------------------------------
(* run_tui and its caller *)

\* try_recv gives an event.
Show ==
    /\ ~quit
    /\ events # <<>>
    /\ Apply(Head(events))
    /\ events' = Tail(events)
    /\ UNCHANGED <<task, rowVars, saved, finished, quit>>

\* Seeded bug for the runs: the end of the task is taken for the end of its
\* events.
DrainedEarly == TRUE

Drained == events = <<>>

\* try_recv reports the channel closed: the task is gone and all it sent has
\* been applied.
ShowEnd ==
    /\ ~quit
    /\ ~finished
    /\ Ended
    /\ Drained
    /\ finished' = TRUE
    /\ UNCHANGED <<vars, phase, attempts, active, completed, failed, hist, quit>>

\* q or Esc.
Quit ==
    /\ ~quit
    /\ quit' = TRUE
    /\ UNCHANGED <<vars, display>>

\* scrape_handle.abort(): the task stops at its next await.
Abort ==
    /\ quit
    /\ ~Ended
    /\ task' = "aborted"
    /\ UNCHANGED <<rowVars, saved, events, display, quit>>

Left == quit /\ Ended /\ UNCHANGED tuiVars

TuiNext ==
    \/ Work /\ UNCHANGED <<display, quit>>
    \/ Show \/ ShowEnd \/ Quit \/ Abort \/ Left

TuiSpec == TuiInit /\ [][TuiNext]_tuiVars

\* As for Scrape; servers answer, as Fetcher's CallsEnd has it of a fetcher with
\* a timeout; and the display keeps ticking.  The user need not leave.
TuiFairSpec ==
    /\ TuiSpec
    /\ WF_tuiVars((Setup \/ SetupFails) /\ UNCHANGED <<display, quit>>)
    /\ WF_tuiVars((WriteBack \/ WriteFails) /\ UNCHANGED <<display, quit>>)
    /\ \A r \in Rows :
          WF_tuiVars((Polled(r) \/ Answered(r)) /\ UNCHANGED <<display, quit>>)
    /\ WF_tuiVars(Show)
    /\ WF_tuiVars(ShowEnd)
    /\ WF_tuiVars(Abort)

----------------------------------------------------------------------------
(* Properties *)

InPhase(phases) == {u \in Urls : phase[u] \in phases}

PhaseOf(r) ==
    CASE stage[r] = "fetching" -> "InFlight"
      [] stage[r] = "backoff" -> "BackingOff"
      [] stage[r] = "done" /\ result[r] = "failed" -> "Failed"
      [] stage[r] = "done" /\ result[r] # "failed" -> "Done"
      [] OTHER -> "Queued"

\* Whatever it has seen so far, the header agrees with the list below it: each
\* URL is counted once, where its line says it is.  A display that has caught up
\* shows what each row is doing, and how many attempts it has made.
DisplayAgrees ==
    /\ active = Cardinality(InPhase({"InFlight", "BackingOff"}))
    /\ completed = Cardinality(InPhase({"Done"})) /\ hist = completed
    /\ failed = Cardinality(InPhase({"Failed"}))
    /\ events = <<>> /\ task # "starting" /\ pulled > 0 /\ ~quit =>
          \A r \in Rows : /\ phase[UrlOf[r]] = PhaseOf(r)
                          /\ attempts[UrlOf[r]] = tried[r]

\* "finished" appears only when nothing is left to show: after a scrape that
\* ran to its end every URL is counted.
FinishedIsComplete ==
    finished => active = 0 /\ (pulled > 0 => completed + failed = NRows)

\* With servers that answer, the scrape ends and the dashboard says so, unless
\* the user has left, and then it is stopped.
FinishShown == <>(finished \/ (quit /\ Ended))
============================================================================
