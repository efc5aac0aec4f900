------------------------ MODULE BrowseSession_proofs ------------------------
(***************************************************************************)
(* Theorems about BrowseSession, for every set of URLs, hop limit and      *)
(* number of history entries.                                              *)
(***************************************************************************)
EXTENDS BrowseSession, SequenceTheorems, TLAPS

----------------------------------------------------------------------------
(* Sequences *)

LEMMA FrontLast ==
    ASSUME NEW S, NEW s \in Seq(S), s # <<>>
    PROVE  /\ Front(s) \in Seq(S)
           /\ Last(s) \in S
           /\ Append(Front(s), Last(s)) = s
<1>1. Len(s) \in Nat /\ Len(s) > 0
  BY EmptySeq
<1>2. Front(s) = SubSeq(s, 1, Len(s) - 1) /\ Last(s) = s[Len(s)]
  BY DEF Front, Last
<1>3. s = Append(SubSeq(s, 1, Len(s) - 1), s[Len(s)])
  BY <1>1
<1>4. QED
  BY <1>1, <1>2, <1>3

LEMMA FrontOfAppend ==
    ASSUME NEW S, NEW s \in Seq(S), NEW x \in S
    PROVE  Front(Append(s, x)) = s /\ Append(s, x) # <<>>
BY DEF Front

----------------------------------------------------------------------------
(* Types *)

LEMMA ReplyTypes ==
    ASSUME TypeOK, NEW k \in Kinds, NEW ok \in BOOLEAN, Reply(k, ok)
    PROVE  /\ status' \in {"new", "open", "closed"}
           /\ last' \in [kind : Kinds \cup {"none"}, ok : BOOLEAN]
           /\ op' = NoOp
BY DEF Reply, TypeOK

LEMMA StartTypes ==
    ASSUME TypeOK, NEW k \in NavKinds, NEW u \in Urls,
           NEW p \in Urls \cup {NoUrl}, StartNavigate(k, u, p)
    PROVE  /\ op' \in Navigating
           /\ UNCHANGED <<status, current_url, page, nav, last>>
BY SessionAssumption DEF StartNavigate, TypeOK, Navigating

\* What op is in each mode.
LEMMA Modes ==
    ASSUME TypeOK
    PROVE  /\ op.mode \in {"idle", "navigate", "post", "drain"}
           /\ op.mode = "idle" => op = NoOp
           /\ op.mode = "navigate" => op \in Navigating
           /\ op.mode = "post" => op \in Posting
           /\ op.mode = "drain" => op \in Draining
BY DEF TypeOK, NoOp, Navigating, Posting, Draining

LEMMA TargetTypes ==
    ASSUME TypeOK, Requesting
    PROVE  Target \in Urls /\ op.kind \in Kinds
<1>1. CASE op.mode = "navigate"
  BY <1>1, Modes DEF Target, Navigating, Kinds
<1>2. CASE op.mode = "post"
  BY <1>2, Modes DEF Target, Posting, Kinds, DrainKinds
<1>3. CASE op.mode = "drain"
  BY <1>3, Modes DEF Target, Requesting, Draining, Kinds, TypeOK, Navs
<1>4. QED
  BY <1>1, <1>2, <1>3 DEF Requesting

----------------------------------------------------------------------------
(* The inductive invariant *)

\* Until open's Goto is answered nothing but a Goto runs, and once it is
\* answered there is a page and a URL.
Started ==
    /\ status = "open" => page # NoUrl /\ current_url # NoUrl
    /\ op.mode # "idle" /\ op.kind # "goto" => status = "open"
    /\ op.mode = "navigate" /\ current_url = NoUrl => op.prev = NoUrl
    /\ op.mode = "navigate" /\ op.kind \in {"back", "forward"}
          => op.popped # NoUrl
    /\ op.mode = "navigate" /\ op.kind # "goto" => op.prev # NoUrl

\* A POST whose response is loaded is on the page it names.
PostLoaded ==
    op.mode = "drain" /\ op.kind = "submit_post" => page = current_url

IInv ==
    /\ TypeOK
    /\ Started
    /\ NavOfThisPage
    /\ SuccessIsSettled
    /\ PostLoaded

LEMMA InitInv == Init => IInv
BY SessionAssumption
   DEF Init, IInv, TypeOK, Started, NavOfThisPage, SuccessIsSettled, PostLoaded,
       NoOp, Kinds, NavKinds, DrainKinds

\* What a script may leave in the NavSlot is well typed and of its page.
LEMMA AfterTypes ==
    ASSUME TypeOK, NavOfThisPage, NEW n
    PROVE  /\ page \in Urls /\ n \in AfterScript
                => n \in Navs \cup {NoNav} /\ (n # NoNav => n.from = page)
           /\ \A u \in Urls : n \in AfterLoad(u)
                => n \in Navs \cup {NoNav} /\ (n # NoNav => n.from = u)
BY DEF AfterScript, AfterLoad, Navs, TypeOK, NavOfThisPage

\* Starting a navigation keeps the invariant.
LEMMA StartInv ==
    ASSUME IInv, NEW k \in NavKinds, NEW u \in Urls,
           NEW p \in Urls \cup {NoUrl}, StartNavigate(k, u, p),
           back_stack' \in Seq(Urls), forward_stack' \in Seq(Urls),
           k # "goto" => status = "open",
           k \in {"back", "forward"} => p # NoUrl
    PROVE  IInv'
<1>1. TypeOK'
  BY StartTypes DEF IInv, TypeOK
<1>2. Started'
  BY DEF IInv, Started, StartNavigate
<1>3. NavOfThisPage' /\ SuccessIsSettled' /\ PostLoaded'
  BY DEF IInv, StartNavigate, NavOfThisPage, SuccessIsSettled, PostLoaded, NoOp
<1>4. QED
  BY <1>1, <1>2, <1>3 DEF IInv

\* So does a reply, when what it reports is true of the state it leaves.
LEMMA ReplyInv ==
    ASSUME IInv, NEW k \in Kinds, NEW ok \in BOOLEAN, Reply(k, ok),
           current_url' \in Urls \cup {NoUrl}, page' \in Urls \cup {NoUrl},
           nav' \in Navs \cup {NoNav},
           back_stack' \in Seq(Urls), forward_stack' \in Seq(Urls),
           nav' # NoNav => nav'.from = page',
           ok /\ k # "observe" => nav' = NoNav,
           ok /\ k \notin {"script", "observe"} => page' = current_url',
           status = "open" \/ ok => page' # NoUrl /\ current_url' # NoUrl
    PROVE  IInv'
<1>1. TypeOK'
  BY ReplyTypes DEF IInv, TypeOK
<1>2. Started'
  BY DEF IInv, TypeOK, Started, Reply, NoOp
<1>3. NavOfThisPage' /\ PostLoaded'
  BY DEF Reply, NavOfThisPage, PostLoaded, NoOp
<1>4. SuccessIsSettled'
  BY DEF Reply, SuccessIsSettled, Kinds, NavKinds, DrainKinds
<1>5. QED
  BY <1>1, <1>2, <1>3, <1>4 DEF IInv

----------------------------------------------------------------------------
(* The steps that begin a command *)

LEMMA BeginInv == IInv /\ Begin => IInv'
<1> SUFFICES ASSUME IInv, Begin PROVE IInv'
  OBVIOUS
<1>0. TypeOK
  BY DEF IInv
<1>1. ASSUME NEW u \in Urls, Goto(u)
      PROVE  IInv'
  BY <1>0, <1>1, StartInv DEF Goto, history, NavKinds, TypeOK
<1>2. ASSUME NEW u \in Urls, SubmitGet(u)
      PROVE  IInv'
  BY <1>0, <1>2, StartInv DEF SubmitGet, Ready, history, NavKinds, TypeOK
<1>3. ASSUME NEW u \in Urls, SubmitPost(u)
      PROVE  IInv'
  <2>1. TypeOK'
    BY <1>0, <1>3 DEF SubmitPost, history, TypeOK, Posting
  <2>2. QED
    BY <2>1, <1>3 DEF SubmitPost, Ready, IInv, Started, NavOfThisPage,
                      SuccessIsSettled, PostLoaded, NoOp
<1>4. CASE Back
  <2>1. Front(back_stack) \in Seq(Urls) /\ Last(back_stack) \in Urls
    BY <1>0, <1>4, FrontLast DEF Back, TypeOK
  <2>2. QED
    BY <1>0, <1>4, <2>1, StartInv, SessionAssumption
       DEF Back, Ready, NavKinds, TypeOK
<1>5. CASE Forward
  <2>1. Front(forward_stack) \in Seq(Urls) /\ Last(forward_stack) \in Urls
    BY <1>0, <1>5, FrontLast DEF Forward, TypeOK
  <2>2. QED
    BY <1>0, <1>5, <2>1, StartInv, SessionAssumption
       DEF Forward, Ready, NavKinds, TypeOK
<1>6. CASE NothingToPop
  <2>1. PICK k \in {"back", "forward"} : Reply(k, FALSE)
    BY <1>6 DEF NothingToPop
  <2>2. UNCHANGED <<current_url, page, nav, back_stack, forward_stack>>
    BY <1>6 DEF NothingToPop, history
  <2>3. QED
    BY <1>0, <2>1, <2>2, ReplyInv
       DEF Kinds, NavKinds, IInv, TypeOK, Started, NavOfThisPage
<1>7. CASE EvalReturned
  <2>1. page \in Urls /\ nav' \in Navs \cup {NoNav}
    BY <1>0, <1>7, AfterTypes DEF EvalReturned, Ready, IInv, Started, TypeOK
  <2>2. NavOfThisPage'
    BY <1>0, <1>7, <2>1, AfterTypes DEF EvalReturned, IInv, NavOfThisPage
  <2>3. TypeOK'
    BY <1>0, <1>7, <2>1, SessionAssumption
       DEF EvalReturned, history, TypeOK, Draining, DrainKinds
  <2>4. QED
    BY <1>7, <2>2, <2>3 DEF EvalReturned, Ready, IInv, Started,
                            SuccessIsSettled, PostLoaded, NoOp
<1>8. CASE EvalFailed
  <2>1. page \in Urls /\ nav' \in Navs \cup {NoNav}
    BY <1>0, <1>8, AfterTypes DEF EvalFailed, Ready, IInv, Started, TypeOK
  <2>2. nav' # NoNav => nav'.from = page'
    BY <1>0, <1>8, <2>1, AfterTypes DEF EvalFailed, IInv
  <2>3. QED
    BY <1>0, <1>8, <2>1, <2>2, ReplyInv
       DEF EvalFailed, Ready, history, Kinds, DrainKinds, IInv, TypeOK, Started
<1>9. CASE Observe
  <2>1. PICK ok \in BOOLEAN : Reply("observe", ok)
    BY <1>9 DEF Observe
  <2>2. status = "open"
       /\ UNCHANGED <<current_url, page, nav, back_stack, forward_stack>>
    BY <1>9 DEF Observe, Ready, history
  <2>3. QED
    BY <1>0, <2>1, <2>2, ReplyInv
       DEF Kinds, IInv, TypeOK, Started, NavOfThisPage
<1>10. QED
  BY <1>1, <1>2, <1>3, <1>4, <1>5, <1>6, <1>7, <1>8, <1>9 DEF Begin

----------------------------------------------------------------------------
(* The steps of a running command *)

LEMMA CommitTypes ==
    ASSUME TypeOK, op \in Navigating, Commit
    PROVE  back_stack' \in Seq(Urls) /\ forward_stack' \in Seq(Urls)
<1>1. op.prev \in Urls \cup {NoUrl}
  BY DEF Navigating
<1>2. CASE ~LeavesAPage
  BY <1>2 DEF Commit, history, TypeOK
<1>3. CASE LeavesAPage
  <2>1. op.prev \in Urls
    BY <1>1, <1>3 DEF LeavesAPage
  <2>2. /\ back_stack' \in {back_stack, Append(back_stack, op.prev)}
        /\ forward_stack' \in
              {forward_stack, Append(forward_stack, op.prev), <<>>}
    BY <1>3 DEF Commit
  <2>3. <<>> \in Seq(Urls)
    BY EmptySeq
  <2>4. \A s \in Seq(Urls) : Append(s, op.prev) \in Seq(Urls)
    BY <2>1
  <2>5. QED
    BY <2>2, <2>3, <2>4 DEF TypeOK
<1>4. QED
  BY <1>2, <1>3

LEMMA StepInv == IInv /\ Step => IInv'
<1> SUFFICES ASSUME IInv, Step PROVE IInv'
  OBVIOUS
<1>0. TypeOK
  BY DEF IInv
<1>1. CASE FetchFails
  <2>1. op.kind \in Kinds /\ Reply(op.kind, FALSE)
    BY <1>0, <1>1, TargetTypes DEF FetchFails
  <2>2. /\ UNCHANGED <<current_url, page, back_stack, forward_stack>>
        /\ nav' \in {nav, NoNav}
    BY <1>1 DEF FetchFails, history
  <2>3. QED
    BY <1>0, <2>1, <2>2, ReplyInv DEF IInv, TypeOK, Started, NavOfThisPage
<1>2. CASE ScriptsThrow
  <2>1. op.kind \in Kinds /\ Target \in Urls /\ Reply(op.kind, FALSE)
    BY <1>0, <1>2, TargetTypes DEF ScriptsThrow
  <2>2. nav' \in Navs \cup {NoNav} /\ (nav' # NoNav => nav'.from = Target)
    BY <1>0, <1>2, <2>1, AfterTypes DEF ScriptsThrow, IInv
  <2>3. /\ page' = Target
        /\ UNCHANGED <<current_url, back_stack, forward_stack>>
    BY <1>2 DEF ScriptsThrow, history
  <2>4. QED
    BY <1>0, <2>1, <2>2, <2>3, ReplyInv, SessionAssumption
       DEF IInv, TypeOK, Started
<1>3. CASE NavigateOn
  <2>1. op \in Navigating /\ op.kind \in Kinds /\ op.next \in Urls
    BY <1>0, <1>3, Modes DEF NavigateOn, Navigating, Kinds
  <2>2. /\ page' = op.next /\ current_url' = op.next /\ nav' = NoNav
        /\ UNCHANGED <<back_stack, forward_stack>>
    BY <1>3 DEF NavigateOn, history
  <2>3. PICK n \in AfterLoad(op.next) \ {NoNav} :
          IF op.left > 1
          THEN /\ op' = [mode |-> "navigate", kind |-> op.kind, prev |-> op.prev,
                          popped |-> op.popped, next |-> n.to,
                          left |-> HopSpent(op.left)]
               /\ UNCHANGED <<status, last>>
          ELSE Reply(op.kind, FALSE)
    BY <1>3 DEF NavigateOn
  <2>4. n.to \in Urls
    BY <2>1, <2>3 DEF AfterLoad
  <2>5. CASE op.left > 1
    <3>1. /\ op' \in Navigating
          /\ op'.kind = op.kind /\ op'.prev = op.prev /\ op'.mode = "navigate"
          /\ op'.popped = op.popped
      BY <2>1, <2>3, <2>4, <2>5, SessionAssumption DEF Navigating, HopSpent
    <3>2. UNCHANGED <<status, last>>
      BY <2>3, <2>5
    <3>3. TypeOK'
      BY <1>0, <2>1, <2>2, <3>1, <3>2 DEF TypeOK
    <3>4. Started'
      BY <1>3, <2>1, <2>2, <3>1, <3>2, SessionAssumption
         DEF IInv, Started, NavigateOn
    <3>5. QED
      BY <2>2, <3>1, <3>3, <3>4
         DEF IInv, NavOfThisPage, SuccessIsSettled, PostLoaded, NoOp
  <2>6. CASE ~(op.left > 1)
    BY <1>0, <2>1, <2>2, <2>3, <2>6, ReplyInv, SessionAssumption
       DEF IInv, TypeOK
  <2>7. QED
    BY <2>5, <2>6
<1>4. CASE NavigateLands
  <2>1. op \in Navigating /\ op.kind \in Kinds /\ op.next \in Urls
    BY <1>0, <1>4, Modes DEF NavigateLands, Navigating, Kinds
  <2>2. back_stack' \in Seq(Urls) /\ forward_stack' \in Seq(Urls)
    BY <1>0, <1>4, <2>1, CommitTypes DEF NavigateLands
  <2>3. QED
    BY <1>0, <1>4, <2>1, <2>2, ReplyInv, SessionAssumption
       DEF NavigateLands, TypeOK
<1>5. CASE Load
  <2>1. Target \in Urls
    BY <1>0, <1>5, TargetTypes DEF Load
  <2>2. nav' \in Navs \cup {NoNav} /\ (nav' # NoNav => nav'.from = Target)
    BY <1>0, <1>5, <2>1, AfterTypes DEF Load, IInv
  <2>3. /\ page' = Target /\ current_url' = Target
        /\ UNCHANGED <<status, last, back_stack, forward_stack>>
    BY <1>5 DEF Load, history
  <2>4. /\ op' \in Draining
        /\ op'.mode = "drain" /\ op'.kind = op.kind
    <3>1. CASE op.mode = "post"
      BY <1>0, <1>5, <3>1, Modes, SessionAssumption
         DEF Load, Posting, Draining, DrainKinds
    <3>2. CASE op.mode = "drain" /\ op.left > 0
      BY <1>0, <1>5, <3>2, Modes, SessionAssumption DEF Load, Draining, HopSpent
    <3>3. QED
      BY <1>5, <3>1, <3>2 DEF Load, Requesting
  <2>5. TypeOK'
    BY <1>0, <2>1, <2>2, <2>3, <2>4 DEF TypeOK
  <2>6. Started'
    BY <1>5, <2>1, <2>3, <2>4, SessionAssumption
       DEF IInv, Started, Load, Requesting
  <2>7. QED
    BY <2>2, <2>3, <2>4, <2>5, <2>6
       DEF IInv, NavOfThisPage, SuccessIsSettled, PostLoaded, NoOp
<1>6. CASE DrainEnds
  <2>1. op \in Draining /\ op.kind \in Kinds
    BY <1>0, <1>6, Modes DEF DrainEnds, Draining, Kinds
  <2>2. op.left > 0 => nav = NoNav
    BY <1>6, <2>1 DEF DrainEnds, Draining
  <2>3. op.kind \in DrainKinds /\ (op.left > 0) \in BOOLEAN
    BY <2>1 DEF Draining
  <2>4. /\ Reply(op.kind, op.left > 0)
        /\ UNCHANGED <<current_url, page, nav, back_stack, forward_stack>>
    BY <1>6 DEF DrainEnds, history
  <2>5. status = "open" /\ page # NoUrl /\ current_url # NoUrl
    BY <1>6, <2>3 DEF DrainEnds, DrainKinds, IInv, Started
  <2>6. op.kind \notin {"script", "observe"} => page = current_url
    BY <1>6, <2>3 DEF DrainEnds, DrainKinds, IInv, PostLoaded
  <2>7. QED
    BY <1>0, <2>1, <2>2, <2>3, <2>4, <2>5, <2>6, ReplyInv
       DEF IInv, TypeOK, NavOfThisPage
<1>7. QED
  BY <1>1, <1>2, <1>3, <1>4, <1>5, <1>6 DEF Step

LEMMA Inductive == IInv /\ [Next]_vars => IInv'
<1>1. IInv /\ UNCHANGED vars => IInv'
  BY DEF vars, IInv, TypeOK, Started, NavOfThisPage, SuccessIsSettled, PostLoaded
<1>2. QED
  BY <1>1, BeginInv, StepInv DEF Next

THEOREM Invariant == Spec => []IInv
BY InitInv, Inductive, PTL DEF Spec

\* Type correctness of the session's state.
THEOREM TypeCorrect == Spec => []TypeOK
<1>1. IInv => TypeOK
  BY DEF IInv
<1>2. QED
  BY <1>1, Invariant, PTL

\* A command that replied Ok left nothing queued, and reports the URL of the
\* page that is loaded.
THEOREM SuccessSettles == Spec => []SuccessIsSettled
<1>1. IInv => SuccessIsSettled
  BY DEF IInv
<1>2. QED
  BY <1>1, Invariant, PTL

\* A queued navigation never outlives the page that queued it.
THEOREM NavBelongsToPage == Spec => []NavOfThisPage
<1>1. IInv => NavOfThisPage
  BY DEF IInv
<1>2. QED
  BY <1>1, Invariant, PTL

----------------------------------------------------------------------------
(* BrowseSession implements History *)

\* The mapped state, named for the proofs.
here == IF Moving THEN op.prev ELSE current_url
past == IF Moving /\ op.kind = "back"
        THEN Append(back_stack, op.popped) ELSE back_stack
future == IF Moving /\ op.kind = "forward"
          THEN Append(forward_stack, op.popped) ELSE forward_stack

ok == last.ok

Stutter == UNCHANGED <<here, past, future, ok>>

\* The step changes nothing that History sees but the last answer.
Answers == UNCHANGED <<here, past, future>> /\ ok' \in BOOLEAN

\* Starting a navigation changes nothing that History sees.
LEMMA StartStutters ==
    ASSUME IInv, op = NoOp, NEW k, NEW u, NEW p, StartNavigate(k, u, p),
           IF k = "back" THEN Append(back_stack', p) = back_stack
                         ELSE UNCHANGED back_stack,
           IF k = "forward" THEN Append(forward_stack', p) = forward_stack
                            ELSE UNCHANGED forward_stack
    PROVE  Stutter
BY DEF StartNavigate, Stutter, here, past, future, ok, Moving, NoOp

LEMMA BeginAnswers == IInv /\ Begin => Stutter \/ Answers
<1> SUFFICES ASSUME IInv, Begin PROVE Stutter \/ Answers
  OBVIOUS
<1>1. ASSUME NEW u \in Urls, Goto(u) \/ SubmitGet(u)
      PROVE  Stutter
  BY <1>1, StartStutters DEF Goto, SubmitGet, Ready, history
<1>2. ASSUME NEW u \in Urls, SubmitPost(u)
      PROVE  Stutter
  BY <1>2 DEF SubmitPost, Ready, history, Stutter, here, past, future, ok,
              Moving, NoOp
<1>3. CASE Back
  <2>1. Append(Front(back_stack), Last(back_stack)) = back_stack
    BY <1>3, FrontLast DEF Back, IInv, TypeOK
  <2>2. QED
    BY <1>3, <2>1, StartStutters DEF Back, Ready
<1>4. CASE Forward
  <2>1. Append(Front(forward_stack), Last(forward_stack)) = forward_stack
    BY <1>4, FrontLast DEF Forward, IInv, TypeOK
  <2>2. QED
    BY <1>4, <2>1, StartStutters DEF Forward, Ready
<1>5. CASE NothingToPop \/ EvalReturned \/ EvalFailed \/ Observe
  <2>1. last' = last \/ \E k \in Kinds, b \in BOOLEAN : Reply(k, b)
    BY <1>5 DEF NothingToPop, EvalReturned, EvalFailed, Observe,
                Kinds, NavKinds, DrainKinds
  <2>2. ok' \in BOOLEAN
    BY <2>1 DEF Reply, ok, IInv, TypeOK
  <2>3. UNCHANGED <<here, past, future>>
    BY <1>5 DEF NothingToPop, EvalReturned, EvalFailed, Observe, Ready, Reply,
                history, here, past, future, Moving, NoOp
  <2>4. QED
    BY <2>2, <2>3 DEF Answers
<1>6. QED
  BY <1>1, <1>2, <1>3, <1>4, <1>5 DEF Begin

\* The operations of History in terms of the mapped state.
LEMMA Mapped ==
    ASSUME NEW u \in Urls
    PROVE  /\ here' = u /\ (ok' => ok) /\ UNCHANGED <<past, future>>
              => AsHistory!Next
           /\ Answers => AsHistory!Next
           /\ here = NoUrl /\ here' = u /\ ok' = TRUE /\ UNCHANGED <<past, future>>
              => AsHistory!Next
           /\ /\ here # NoUrl /\ ok' = TRUE
              /\ past' = Append(past, here) /\ here' = u /\ future' = <<>>
              => AsHistory!Next
           /\ /\ past # <<>>
              /\ past' = Front(past) /\ here' = u
              /\ \/ future' = future /\ ok' = FALSE
                 \/ future' = Append(future, here) /\ ok' = TRUE
              => AsHistory!Next
           /\ /\ future # <<>>
              /\ future' = Front(future) /\ here' = u
              /\ \/ past' = past /\ ok' = FALSE
                 \/ past' = Append(past, here) /\ ok' = TRUE
              => AsHistory!Next
<1>1. here' = u /\ (ok' => ok) /\ UNCHANGED <<past, future>>
      => AsHistory!Replace(u)
  BY DEF AsHistory!Replace, here, past, future, ok
<1>2. Answers => AsHistory!Answer
  BY DEF AsHistory!Answer, Answers, here, past, future, ok
<1>3. here = NoUrl /\ here' = u /\ ok' = TRUE /\ UNCHANGED <<past, future>>
      => AsHistory!Open(u)
  BY DEF AsHistory!Open, here, past, future, ok
<1>4. /\ here # NoUrl /\ ok' = TRUE
      /\ past' = Append(past, here) /\ here' = u /\ future' = <<>>
      => AsHistory!Visit(u)
  BY DEF AsHistory!Visit, here, past, future, ok
<1>5. /\ past # <<>> /\ past' = Front(past) /\ here' = u
      /\ future' = future /\ ok' = FALSE
      => AsHistory!LoseBack(u)
  BY DEF AsHistory!LoseBack, AsHistory!Front, Front, here, past, future, ok
<1>6. /\ past # <<>> /\ past' = Front(past) /\ here' = u
      /\ future' = Append(future, here) /\ ok' = TRUE
      => AsHistory!StepBack(u)
  BY DEF AsHistory!StepBack, AsHistory!Front, Front, here, past, future, ok
<1>7. /\ future # <<>> /\ future' = Front(future) /\ here' = u
      /\ past' = past /\ ok' = FALSE
      => AsHistory!LoseForward(u)
  BY DEF AsHistory!LoseForward, AsHistory!Front, Front, here, past, future, ok
<1>8. /\ future # <<>> /\ future' = Front(future) /\ here' = u
      /\ past' = Append(past, here) /\ ok' = TRUE
      => AsHistory!StepForward(u)
  BY DEF AsHistory!StepForward, AsHistory!Front, Front, here, past, future, ok
<1>9. QED
  BY <1>1, <1>2, <1>3, <1>4, <1>5, <1>6, <1>7, <1>8 DEF AsHistory!Next

\* A navigation that ends without landing loses the entry it popped, and may
\* have moved the current entry.
LEMMA GivingUp ==
    ASSUME IInv, op.mode = "navigate", op' = NoOp, last'.ok = FALSE,
           UNCHANGED <<back_stack, forward_stack>>,
           current_url' \in {current_url} \cup Urls
    PROVE  AsHistory!Next
<1>1. op \in Navigating /\ current_url \in Urls \cup {NoUrl}
  BY Modes DEF IInv, TypeOK
<1>2. /\ here' = current_url' /\ past' = back_stack /\ future' = forward_stack
      /\ back_stack \in Seq(Urls) /\ forward_stack \in Seq(Urls)
      /\ ok' = FALSE
  BY DEF here, past, future, ok, Moving, NoOp, IInv, TypeOK
<1>3. \/ here' \in Urls
      \/ here' = here /\ op.kind \notin {"back", "forward"}
  BY <1>1, <1>2, SessionAssumption DEF here, Moving, IInv, Started
<1>4. CASE op.kind \notin {"back", "forward"}
  <2>1. past' = past /\ future' = future
    BY <1>2, <1>4 DEF past, future
  <2>2. CASE here' \in Urls
    BY <1>2, <2>1, <2>2, Mapped
  <2>3. CASE here' = here
    <3>1. Answers
      BY <1>2, <2>1, <2>3 DEF Answers
    <3>2. op.next \in Urls
      BY <1>1 DEF Navigating
    <3>3. QED
      BY <3>1, <3>2, Mapped
  <2>4. QED
    BY <1>3, <2>2, <2>3
<1>5. CASE op.kind = "back"
  <2>1. op.popped \in Urls
    BY <1>1, <1>5 DEF Navigating, IInv, Started
  <2>2. past = Append(back_stack, op.popped) /\ future = forward_stack
    BY <1>5 DEF past, future, Moving
  <2>3. past # <<>> /\ past' = Front(past) /\ future' = future
    BY <1>2, <2>1, <2>2, FrontOfAppend
  <2>4. QED
    BY <1>2, <1>3, <1>5, <2>3, Mapped
<1>6. CASE op.kind = "forward"
  <2>1. op.popped \in Urls
    BY <1>1, <1>6 DEF Navigating, IInv, Started
  <2>2. future = Append(forward_stack, op.popped) /\ past = back_stack
    BY <1>6 DEF past, future, Moving
  <2>3. future # <<>> /\ future' = Front(future) /\ past' = past
    BY <1>2, <2>1, <2>2, FrontOfAppend
  <2>4. QED
    BY <1>2, <1>3, <1>6, <2>3, Mapped
<1>7. QED
  BY <1>4, <1>5, <1>6

\* A navigation that lands commits one operation of History.
LEMMA Landing ==
    ASSUME IInv, NavigateLands
    PROVE  AsHistory!Next
<1>1. /\ op \in Navigating /\ op.mode = "navigate"
      /\ op.prev \in Urls \cup {NoUrl}
      /\ op.next \in Urls
      /\ op.kind \in NavKinds
      /\ back_stack \in Seq(Urls) /\ forward_stack \in Seq(Urls)
  BY Modes DEF NavigateLands, Navigating, IInv, TypeOK
<1>2. /\ here = op.prev /\ here' = op.next
      /\ past' = back_stack' /\ future' = forward_stack'
      /\ ok' = TRUE
      /\ op.kind # "goto" => op.prev # NoUrl
  BY DEF NavigateLands, Reply, here, past, future, ok, Moving, NoOp, IInv, Started
<1>3. CASE op.kind \notin {"back", "forward"}
  <2>1. past = back_stack /\ future = forward_stack
    BY <1>3 DEF past, future
  <2>2. \/ here # NoUrl /\ past' = Append(past, here) /\ future' = <<>>
        \/ /\ past' = past /\ future' = future
           /\ here = NoUrl \/ here' = here
    BY <1>2, <1>3, <2>1 DEF NavigateLands, Commit, LeavesAPage, history
  <2>3. past' = past /\ future' = future /\ here' = here => Answers
    BY <1>2 DEF Answers
  <2>4. QED
    BY <1>1, <1>2, <2>2, <2>3, Mapped
<1>4. CASE op.kind = "back"
  <2>1. op.popped \in Urls
    BY <1>1, <1>4 DEF Navigating, IInv, Started
  <2>2. past = Append(back_stack, op.popped) /\ future = forward_stack
    BY <1>1, <1>4 DEF past, future, Moving
  <2>3. past # <<>> /\ Front(past) = back_stack
    BY <1>1, <2>1, <2>2, FrontOfAppend
  <2>4. back_stack' = back_stack
        /\ forward_stack' = Append(forward_stack, op.prev)
    BY <1>2, <1>4 DEF NavigateLands, Commit, LeavesAPage
  <2>5. QED
    BY <1>1, <1>2, <2>2, <2>3, <2>4, Mapped
<1>5. CASE op.kind = "forward"
  <2>1. op.popped \in Urls
    BY <1>1, <1>5 DEF Navigating, IInv, Started
  <2>2. future = Append(forward_stack, op.popped) /\ past = back_stack
    BY <1>1, <1>5 DEF past, future, Moving
  <2>3. future # <<>> /\ Front(future) = forward_stack
    BY <1>1, <2>1, <2>2, FrontOfAppend
  <2>4. forward_stack' = forward_stack
        /\ back_stack' = Append(back_stack, op.prev)
    BY <1>2, <1>5 DEF NavigateLands, Commit, LeavesAPage
  <2>5. QED
    BY <1>1, <1>2, <2>2, <2>3, <2>4, Mapped
<1>6. QED
  BY <1>3, <1>4, <1>5

\* Every step of a running command is one operation of History or invisible.
LEMMA StepMapped == IInv /\ Step => AsHistory!Next \/ Stutter \/ Answers
<1> SUFFICES ASSUME IInv, Step PROVE AsHistory!Next \/ Stutter \/ Answers
  OBVIOUS
<1>0. TypeOK
  BY DEF IInv
<1>1. CASE FetchFails \/ ScriptsThrow
  <2>1. /\ op' = NoOp /\ last'.ok = FALSE /\ Requesting
        /\ UNCHANGED <<back_stack, forward_stack, current_url>>
    BY <1>1 DEF FetchFails, ScriptsThrow, Reply, history
  <2>2. CASE op.mode = "navigate"
    BY <2>1, <2>2, GivingUp
  <2>3. CASE op.mode # "navigate"
    BY <2>1, <2>3 DEF Answers, here, past, future, ok, Moving, NoOp
  <2>4. QED
    BY <2>2, <2>3
<1>2. CASE NavigateOn
  <2>1. /\ op.mode = "navigate" /\ op.next \in Urls /\ current_url' = op.next
        /\ UNCHANGED <<back_stack, forward_stack>>
    BY <1>0, <1>2, Modes DEF NavigateOn, Navigating, history
  <2>2. \/ op' = NoOp /\ last'.ok = FALSE
        \/ /\ op'.mode = "navigate" /\ op'.kind = op.kind
           /\ op'.prev = op.prev /\ op'.popped = op.popped
           /\ last' = last
    BY <1>2 DEF NavigateOn, Reply
  <2>3. QED
    BY <2>1, <2>2, GivingUp DEF Stutter, here, past, future, ok, Moving
<1>3. CASE NavigateLands
  BY <1>3, Landing
<1>4. CASE Load
  <2>1. /\ op.mode # "navigate" /\ op'.mode # "navigate"
        /\ current_url' \in Urls /\ last' = last
        /\ UNCHANGED <<back_stack, forward_stack>>
    BY <1>0, <1>4, TargetTypes DEF Load, history
  <2>2. here' = current_url' /\ ok' = ok /\ UNCHANGED <<past, future>>
    BY <2>1 DEF here, past, future, ok, Moving
  <2>3. QED
    BY <2>1, <2>2, Mapped
<1>5. CASE DrainEnds
  <2>1. op \in Draining /\ ok' = (op.left > 0) /\ (op.left > 0) \in BOOLEAN
    BY <1>0, <1>5, Modes DEF DrainEnds, Reply, ok
  <2>2. UNCHANGED <<here, past, future>>
    BY <1>5 DEF DrainEnds, Reply, history, here, past, future, Moving, NoOp
  <2>3. QED
    BY <2>1, <2>2 DEF Answers
<1>6. QED
  BY <1>1, <1>2, <1>3, <1>4, <1>5 DEF Step

\* The session's history, seen from outside a command, obeys History.
THEOREM ImplementsHistory == Spec => HistorySpec
<1>1. Init => AsHistory!Init
  BY DEF Init, AsHistory!Init, Moving, NoOp
<1>2. Stutter => UNCHANGED AsHistory!hvars
  BY DEF Stutter, AsHistory!hvars, here, past, future, ok
<1>3. UNCHANGED vars => Stutter
  BY DEF vars, Stutter, here, past, future, ok, Moving
<1>4. Answers => AsHistory!Next
  BY DEF Answers, AsHistory!Next, AsHistory!Answer, here, past, future, ok
<1>5. IInv /\ [Next]_vars => [AsHistory!Next]_AsHistory!hvars
  BY <1>2, <1>3, <1>4, BeginAnswers, StepMapped DEF Next
<1>6. QED
  BY <1>1, <1>5, Invariant, PTL DEF Spec, HistorySpec, AsHistory!Spec
============================================================================
