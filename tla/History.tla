------------------------------ MODULE History ------------------------------
(***************************************************************************)
(* What a session history promises, whatever a command does between its    *)
(* first and its last step: a current entry, a stack of entries behind it, *)
(* a stack of entries ahead of it and the last answer, changed by atomic   *)
(* operations only.  BrowseSession implements it.                          *)
(***************************************************************************)
EXTENDS Sequences, SequencesExt

CONSTANTS Urls, NoUrl

VARIABLES
    past, here, future,
    ok                  \* whether the last command said it succeeded

hvars == <<past, here, future, ok>>

Init ==
    /\ past = <<>>
    /\ here = NoUrl
    /\ future = <<>>
    /\ ok = TRUE

\* The first page.
Open(u) ==
    /\ here = NoUrl
    /\ here' = u
    /\ ok' = TRUE
    /\ UNCHANGED <<past, future>>

\* A navigation to another page: the entry left behind goes onto the past,
\* and whatever was ahead of it is forgotten.
Visit(u) ==
    /\ here # NoUrl
    /\ past' = Append(past, here)
    /\ here' = u
    /\ future' = <<>>
    /\ ok' = TRUE

\* The current entry shows another URL: its page went elsewhere by itself, or
\* a navigation failed on its way.  No command succeeds by this.
Replace(u) ==
    /\ here' = u
    /\ ok' => ok
    /\ UNCHANGED <<past, future>>

\* A command that leaves the history alone, a reload included.
Answer ==
    /\ ok' \in BOOLEAN
    /\ UNCHANGED <<past, here, future>>

\* Traversal by one entry; the page reached may have redirected to u.
StepBack(u) ==
    /\ past # <<>>
    /\ past' = Front(past)
    /\ here' = u
    /\ future' = Append(future, here)
    /\ ok' = TRUE

StepForward(u) ==
    /\ future # <<>>
    /\ future' = Front(future)
    /\ here' = u
    /\ past' = Append(past, here)
    /\ ok' = TRUE

\* A traversal that failed: the entry it was heading for is gone, and the
\* current entry may have moved on to u.
LoseBack(u) ==
    /\ past # <<>>
    /\ past' = Front(past)
    /\ here' = u
    /\ ok' = FALSE
    /\ UNCHANGED future

LoseForward(u) ==
    /\ future # <<>>
    /\ future' = Front(future)
    /\ here' = u
    /\ ok' = FALSE
    /\ UNCHANGED past

Next ==
    \/ Answer
    \/ \E u \in Urls :
          \/ Open(u) \/ Visit(u) \/ Replace(u) \/ StepBack(u) \/ StepForward(u)
          \/ LoseBack(u) \/ LoseForward(u)

Spec == Init /\ [][Next]_hvars
============================================================================
