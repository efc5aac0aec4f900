--------------------------- MODULE BrowseSession ---------------------------
(***************************************************************************)
(* The state a browse session's actor owns and the commands that change it *)
(* (crates/bouncy-browse/src/session.rs, with load, run_inline_scripts and *)
(* take_pending_nav of crates/bouncy-js/src/runtime.rs): the current URL,  *)
(* the loaded page, the queued location.href navigation and the back and   *)
(* forward stacks.                                                         *)
(*                                                                         *)
(* The actor runs one command at a time, but a command makes one HTTP      *)
(* request per hop and any hop can fail, so each hop is an action.  A      *)
(* chain is a sequence of commands here; its outputs are SessionActor's.   *)
(*                                                                         *)
(* A page is known by the URL it was loaded from.  Its scripts may queue   *)
(* any navigation, or throw; the network may fail any request.             *)
(***************************************************************************)
EXTENDS Integers, Sequences, SequencesExt

CONSTANTS
    Urls,
    NoUrl,        \* the empty string current_url starts as
    NoNav,        \* None in the NavSlot
    MaxNavHops,   \* MAX_NAV_HOPS
    MaxEntries    \* bound on the entries of both stacks together

ASSUME SessionAssumption ==
    /\ NoUrl \notin Urls
    /\ NoNav \notin [to : Urls, from : Urls]
    /\ MaxNavHops \in Nat
    /\ MaxEntries \in Nat

VARIABLES
    status,         \* "new" until open's Goto is answered, then open or closed
    current_url,
    page,           \* the URL given to the last Runtime::load
    nav,            \* the NavSlot: where to, and the page that asked
    back_stack,
    forward_stack,
    op,             \* the command the actor is executing
    last            \* the reply to the last command

vars == <<status, current_url, page, nav, back_stack, forward_stack, op, last>>

NavKinds == {"goto", "submit_get", "back", "forward"}
DrainKinds == {"script", "submit_post"}
Kinds == NavKinds \cup DrainKinds \cup {"observe"}

Navs == [to : Urls, from : Urls]

NoOp == [mode |-> "idle"]

\* In navigate_blocking_inner: prev, the URL of the next request, the loop
\* iterations left, and the entry Back or Forward popped.
Navigating ==
    [mode : {"navigate"}, kind : NavKinds, prev : Urls \cup {NoUrl},
     popped : Urls \cup {NoUrl}, next : Urls, left : 1..(MaxNavHops + 1)]

\* In drain_navs; a POST first loads the response to its own request.
Posting == [mode : {"post"}, kind : {"submit_post"}, next : Urls]
Draining ==
    [mode : {"drain"}, kind : DrainKinds, left : 0..(MaxNavHops + 1)]

TypeOK ==
    /\ status \in {"new", "open", "closed"}
    /\ current_url \in Urls \cup {NoUrl}
    /\ page \in Urls \cup {NoUrl}
    /\ nav \in Navs \cup {NoNav}
    /\ back_stack \in Seq(Urls)
    /\ forward_stack \in Seq(Urls)
    /\ op \in {NoOp} \cup Navigating \cup Posting \cup Draining
    /\ last \in [kind : Kinds \cup {"none"}, ok : BOOLEAN]

Init ==
    /\ status = "new"
    /\ current_url = NoUrl
    /\ page = NoUrl
    /\ nav = NoNav
    /\ back_stack = <<>>
    /\ forward_stack = <<>>
    /\ op = NoOp
    /\ last = [kind |-> "none", ok |-> TRUE]

history == <<back_stack, forward_stack>>

----------------------------------------------------------------------------
(* Replies *)

\* The reply to a command; when it answers open's Goto, an error drops the
\* session.
Reply(kind, ok) ==
    /\ last' = [kind |-> kind, ok |-> ok]
    /\ status' = IF status # "new" THEN status
                 ELSE IF ok THEN "open" ELSE "closed"
    /\ op' = NoOp

\* The session takes its next command.
Ready == op = NoOp /\ status = "open"

StartNavigate(kind, url, popped) ==
    /\ op' = [mode |-> "navigate", kind |-> kind, prev |-> current_url,
              popped |-> popped, next |-> url, left |-> MaxNavHops + 1]
    /\ UNCHANGED <<status, current_url, page, nav, last>>

----------------------------------------------------------------------------
(* Commands *)

EntriesBound == Len(back_stack) + Len(forward_stack) < MaxEntries

Goto(u) ==
    /\ op = NoOp
    /\ status # "closed"
    /\ EntriesBound
    /\ StartNavigate("goto", u, NoUrl)
    /\ UNCHANGED history

\* run_submit on a form with an action and method GET.
SubmitGet(u) ==
    /\ Ready
    /\ EntriesBound
    /\ StartNavigate("submit_get", u, NoUrl)
    /\ UNCHANGED history

\* run_submit on a form with an action and another method.
SubmitPost(u) ==
    /\ Ready
    /\ op' = [mode |-> "post", kind |-> "submit_post", next |-> u]
    /\ UNCHANGED <<status, current_url, page, nav, history, last>>

Back ==
    /\ Ready
    /\ back_stack # <<>>
    /\ back_stack' = Front(back_stack)
    /\ StartNavigate("back", Last(back_stack), Last(back_stack))
    /\ UNCHANGED forward_stack

Forward ==
    /\ Ready
    /\ forward_stack # <<>>
    /\ forward_stack' = Front(forward_stack)
    /\ StartNavigate("forward", Last(forward_stack), Last(forward_stack))
    /\ UNCHANGED back_stack

\* Back or Forward with nothing to pop.
NothingToPop ==
    /\ Ready
    /\ \/ back_stack = <<>> /\ Reply("back", FALSE)
       \/ forward_stack = <<>> /\ Reply("forward", FALSE)
    /\ UNCHANGED <<current_url, page, nav, history>>

\* What the NavSlot holds after a script of the current page ran.
AfterScript == {nav} \cup [to : Urls, from : {page}]

\* Seeded bug for the runs: drain_navs is not reached.
EvalReturnedUndrained ==
    /\ Ready
    /\ nav' \in AfterScript
    /\ Reply("script", TRUE)
    /\ UNCHANGED <<current_url, page, history>>

\* The eval of click, fill, select, key, eval or a JS-only submit returned a
\* value (a navigation may be queued all the same, from a promise job), and
\* drain_navs follows.
EvalReturned ==
    /\ Ready
    /\ nav' \in AfterScript
    /\ op' = [mode |-> "drain", kind |-> "script", left |-> MaxNavHops + 1]
    /\ UNCHANGED <<status, current_url, page, history, last>>

\* The eval failed: no match, an exception, or NavTerminated because the
\* script set location.href.  The error is returned before drain_navs.
EvalFailed ==
    /\ Ready
    /\ nav' \in AfterScript
    /\ Reply("script", FALSE)
    /\ UNCHANGED <<current_url, page, history>>

\* snapshot, read, wait_ms, wait_for and wait_for_text only look at the page;
\* the latter two fail when they time out.
Observe ==
    /\ Ready
    /\ \E ok \in BOOLEAN : Reply("observe", ok)
    /\ UNCHANGED <<current_url, page, nav, history>>

----------------------------------------------------------------------------
(* One request of the running command *)

\* Seeded bug for the runs: load leaves the NavSlot as it was.
AfterLoadKept(u) == {nav} \cup [to : Urls, from : {u}]

\* load resets the NavSlot, then the inline scripts of u may queue one
\* navigation (the last one wins).
AfterLoad(u) == {NoNav} \cup [to : Urls, from : {u}]

\* Seeded bug for the runs: the hop budget is not spent.
HopSpentNever(left) == left

HopSpent(left) == left - 1

Requesting ==
    \/ op.mode \in {"navigate", "post"}
    \/ op.mode = "drain" /\ op.left > 0 /\ nav # NoNav

Target == IF op.mode = "drain" THEN nav.to ELSE op.next

\* The request failed, or its body is not UTF-8.  drain_navs had already
\* taken the queued navigation.
FetchFails ==
    /\ Requesting
    /\ nav' = IF op.mode = "drain" THEN NoNav ELSE nav
    /\ Reply(op.kind, FALSE)
    /\ UNCHANGED <<current_url, page, history>>

\* The page was loaded, then an inline script threw: current_url is not
\* updated.
ScriptsThrow ==
    /\ Requesting
    /\ page' = Target
    /\ nav' \in AfterLoad(Target)
    /\ Reply(op.kind, FALSE)
    /\ UNCHANGED <<current_url, history>>

\* A hop of navigate_blocking_inner whose page queued another one.
NavigateOn ==
    /\ op.mode = "navigate"
    /\ page' = op.next
    /\ current_url' = op.next
    /\ nav' = NoNav
    /\ \E n \in AfterLoad(op.next) \ {NoNav} :
          IF op.left > 1
          THEN /\ op' = [mode |-> "navigate", kind |-> op.kind, prev |-> op.prev,
                          popped |-> op.popped, next |-> n.to,
                          left |-> HopSpent(op.left)]
               /\ UNCHANGED <<status, last>>
          ELSE Reply(op.kind, FALSE)
    /\ UNCHANGED history

\* Seeded bug for the runs: Back leaves the page it came from nowhere.
CommitBackLost ==
    IF op.kind = "forward"
    THEN /\ back_stack' = Append(back_stack, op.prev)
         /\ UNCHANGED forward_stack
    ELSE UNCHANGED history

\* There is a page to remember.  goto and submit forget a reload of it.
LeavesAPage ==
    op.prev # NoUrl /\ (op.kind \in {"goto", "submit_get"} => op.prev # op.next)

\* The stacks once the navigation has landed on op.next.
Commit ==
    \/ /\ LeavesAPage /\ op.kind \in {"goto", "submit_get"}
       /\ back_stack' = Append(back_stack, op.prev)
       /\ forward_stack' = <<>>
    \/ /\ LeavesAPage /\ op.kind = "back"
       /\ forward_stack' = Append(forward_stack, op.prev)
       /\ UNCHANGED back_stack
    \/ /\ LeavesAPage /\ op.kind = "forward"
       /\ back_stack' = Append(back_stack, op.prev)
       /\ UNCHANGED forward_stack
    \/ ~LeavesAPage /\ UNCHANGED history

\* The hop whose page queued nothing ends the navigation.
NavigateLands ==
    /\ op.mode = "navigate"
    /\ NoNav \in AfterLoad(op.next)
    /\ page' = op.next
    /\ current_url' = op.next
    /\ nav' = NoNav
    /\ Commit
    /\ Reply(op.kind, TRUE)

\* The response to a POST, or to a drained navigation, is loaded.
Load ==
    /\ Requesting
    /\ op.mode # "navigate"
    /\ page' = Target
    /\ current_url' = Target
    /\ nav' \in AfterLoad(Target)
    /\ op' = [mode |-> "drain", kind |-> op.kind,
              left |-> IF op.mode = "post" THEN MaxNavHops + 1 ELSE HopSpent(op.left)]
    /\ UNCHANGED <<status, history, last>>

\* drain_navs returns: nothing queued, or its iterations are used up (then
\* whatever the last page queued stays in the slot).
DrainEnds ==
    /\ op.mode = "drain"
    /\ op.left = 0 \/ nav = NoNav
    /\ Reply(op.kind, op.left > 0)
    /\ UNCHANGED <<current_url, page, nav, history>>

Begin ==
    \/ \E u \in Urls : Goto(u) \/ SubmitGet(u) \/ SubmitPost(u)
    \/ Back \/ Forward \/ NothingToPop
    \/ EvalReturned \/ EvalFailed \/ Observe

Step ==
    \/ FetchFails \/ ScriptsThrow
    \/ NavigateOn \/ NavigateLands
    \/ Load \/ DrainEnds

Next == Begin \/ Step

Spec == Init /\ [][Next]_vars

\* Every request is eventually answered and every script returns; callers owe
\* nothing.
FairSpec == Spec /\ WF_vars(Step)

----------------------------------------------------------------------------
(* Properties *)

\* A command that replies Ok has settled: nothing is queued, and for the
\* commands that load a page the URL reported is the URL of the page.
SuccessIsSettled ==
    op = NoOp /\ last.ok /\ last.kind \in NavKinds \cup DrainKinds
        => /\ nav = NoNav
           /\ last.kind # "script" => page = current_url

\* A queued navigation was queued by the page that is loaded: it never
\* survives into the next page, however the commands in between failed.
NavOfThisPage == nav # NoNav => nav.from = page

\* No redirect loop between pages can keep the actor busy: every command is
\* answered.
CommandsEnd == (op # NoOp) ~> (op = NoOp)

\* Seen from outside, the stacks and the current URL change by whole history
\* operations only: a navigation is committed when it lands and only then says
\* Ok, a failing one never pushes, a page is never pushed in both directions,
\* and a traversal that says Ok lost no entry.
Moving == op.mode = "navigate"

AsHistory ==
    INSTANCE History WITH
        here <- IF Moving THEN op.prev ELSE current_url,
        past <- IF Moving /\ op.kind = "back"
                THEN Append(back_stack, op.popped) ELSE back_stack,
        future <- IF Moving /\ op.kind = "forward"
                  THEN Append(forward_stack, op.popped) ELSE forward_stack,
        ok <- last.ok

HistorySpec == AsHistory!Spec
============================================================================
