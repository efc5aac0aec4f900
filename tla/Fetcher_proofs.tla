--------------------------- MODULE Fetcher_proofs ---------------------------
(***************************************************************************)
(* Theorems about Fetcher, for any callers, origins, inputs and redirect   *)
(* budget.                                                                 *)
(***************************************************************************)
EXTENDS Fetcher, TLAPS

LEMMA PlainType == Plain \in Input
BY DEF Plain, Input

LEMMA NoResponseType == NoResponse \in Response
BY DEF NoResponse, Response

\* rewrite_for_redirect yields a request.
LEMMA RewrittenType ==
    ASSUME NEW r \in Input, NEW status
    PROVE  Rewritten(r, status) \in Input
BY DEF Rewritten, Input

\* Type correctness of the calls, the jar and the clocks.
THEOREM TypeCorrect == Spec => []TypeOK
<1> USE FetcherAssumption
<1>1. Init => TypeOK
  BY PlainType, NoResponseType DEF Init, TypeOK, Stages, Unseen
<1>2. TypeOK /\ [Next]_vars => TypeOK'
  <2> SUFFICES ASSUME TypeOK, [Next]_vars
               PROVE  TypeOK'
    OBVIOUS
  <2> USE DEF TypeOK, To, Stages, clocks
  <2>1. ASSUME NEW c \in Calls, NEW in \in Inputs, NEW o \in Origins, Begin(c, in, o)
        PROVE  TypeOK'
    BY <2>1 DEF Begin
  <2>2. ASSUME NEW c \in Calls, Send(c)
        PROVE  TypeOK'
    <3>1. \A k \in Attached(c) : k \in Cookie \cup {NoCookie}
      BY DEF Attached
    <3>2. cookie' \in [Calls -> Cookie \cup {NoCookie}]
      BY <2>2, <3>1 DEF Send
    <3>3. sends' \in [Calls -> 0..(MaxRedirects + 2)]
      BY <2>2 DEF Send, Counted
    <3>4. timer' \in [Calls -> 0..RequestTimeout]
      BY <2>2 DEF Send
    <3>5. QED
      BY <2>2, <3>2, <3>3, <3>4 DEF Send
  <2>3. ASSUME NEW c \in Calls, Fail(c) \/ TimeOut(c) \/ Done(c) \/ NotFollowed(c)
        PROVE  TypeOK'
    BY <2>3 DEF Fail, TimeOut, Done, NotFollowed
  <2>4. ASSUME NEW c \in Calls, NEW r \in Response, NEW set \in BOOLEAN, Head(c, r, set)
        PROVE  TypeOK'
    <3>1. set => received + 1 \in 1..MaxCookies
      BY <2>4 DEF Head
    <3>2. received' \in 0..MaxCookies
      BY <2>4, <3>1 DEF Head
    <3>3. jar' \in [Origins -> Cookie \cup {NoCookie}]
      <4>1. set => [by |-> target[c], at |-> received + 1] \in Cookie
        BY <3>1 DEF Cookie
      <4>2. QED
        BY <2>4, <4>1 DEF Head, Harvest
    <3>4. seen' \in [Calls -> [Origins -> 0..MaxCookies]]
      <4>1. CASE set
        <5>1. [seen[c] EXCEPT ![target[c]] = received + 1] \in [Origins -> 0..MaxCookies]
          BY <3>1, <4>1
        <5>2. QED
          BY <2>4, <4>1, <5>1 DEF Head
      <4>2. QED
        BY <2>4, <4>1 DEF Head
    <3>5. QED
      BY <2>4, <3>2, <3>3, <3>4 DEF Head
  <2>5. ASSUME NEW c \in Calls, Redirect(c)
        PROVE  TypeOK'
    <3>1. hops' \in [Calls -> 0..MaxRedirects]
      BY <2>5 DEF Redirect, Spent, HopsAfter
    <3>2. req' \in [Calls -> Input]
      BY <2>5, RewrittenType DEF Redirect
    <3>3. QED
      BY <2>5, <3>1, <3>2, NoResponseType DEF Redirect
  <2>6. ASSUME NEW c \in Calls, Leave(c)
        PROVE  TypeOK'
    BY <2>6, PlainType, NoResponseType DEF Leave, Unseen
  <2>7. CASE Tick
    <3>1. timer' \in [Calls -> 0..RequestTimeout]
      BY <2>7 DEF Tick
    <3>2. waited' \in [Calls -> 0..MaxWaited]
      BY <2>7 DEF Tick, Counted
    <3>3. QED
      BY <2>7, <3>1, <3>2 DEF Tick
  <2>8. CASE UNCHANGED vars
    BY <2>8 DEF vars
  <2>9. QED
    BY <2>1, <2>2, <2>3, <2>4, <2>5, <2>6, <2>7, <2>8 DEF Next, Answered
<1>3. QED
  BY <1>1, <1>2, PTL DEF Spec

----------------------------------------------------------------------------
(* Redirects *)

\* Where a call is in its budget: a request is on the wire for each redirect
\* followed and for the first URL.
BudgetInv ==
    \A c \in Calls :
        /\ sends[c] <= hops[c] + 1
        /\ stage[c] \in {"idle", "ready"} => sends[c] <= hops[c]

\* What a call has waited for the heads it has seen, and for the next one.
WaitInv ==
    \A c \in Calls :
        /\ waited[c] <= RequestTimeout * sends[c]
        /\ stage[c] = "waiting" =>
              sends[c] > 0 /\ waited[c] <= RequestTimeout * (sends[c] - 1) + timer[c]

LEMMA OneMore ==
    ASSUME NEW t \in Nat, NEW n \in Nat
    PROVE  /\ t * n \in Nat
           /\ t * (n + 1) = t * n + t
           /\ t * 0 = 0
OBVIOUS

\* A call puts at most max_redirects + 1 requests on the wire.
THEOREM BudgetHolds == Spec => []RedirectBudget
<1> USE FetcherAssumption
<1>1. Init => BudgetInv
  <2> SUFFICES ASSUME Init, NEW c \in Calls
               PROVE  sends[c] <= hops[c] + 1 /\ sends[c] <= hops[c]
    BY DEF BudgetInv
  <2>1. sends[c] = 0 /\ hops[c] = 0
    BY DEF Init
  <2>2. QED
    BY <2>1
<1>2. TypeOK /\ BudgetInv /\ [Next]_vars => BudgetInv'
  <2> SUFFICES ASSUME TypeOK, BudgetInv, [Next]_vars
               PROVE  BudgetInv'
    OBVIOUS
  <2> USE DEF TypeOK, BudgetInv, To, clocks
  <2>1. ASSUME NEW c \in Calls, NEW in \in Inputs, NEW o \in Origins, Begin(c, in, o)
        PROVE  BudgetInv'
    BY <2>1 DEF Begin
  <2>2. ASSUME NEW c \in Calls, Send(c)
        PROVE  BudgetInv'
    BY <2>2 DEF Send, Counted
  <2>3. ASSUME NEW c \in Calls, Fail(c) \/ TimeOut(c) \/ Done(c) \/ NotFollowed(c)
        PROVE  BudgetInv'
    BY <2>3 DEF Fail, TimeOut, Done, NotFollowed
  <2>4. ASSUME NEW c \in Calls, Answered(c)
        PROVE  BudgetInv'
    BY <2>4 DEF Answered, Head
  <2>5. ASSUME NEW c \in Calls, Redirect(c)
        PROVE  BudgetInv'
    BY <2>5 DEF Redirect, HopsAfter
  <2>6. ASSUME NEW c \in Calls, Leave(c)
        PROVE  BudgetInv'
    BY <2>6 DEF Leave
  <2>7. CASE Tick \/ UNCHANGED vars
    BY <2>7 DEF Tick, vars
  <2>8. QED
    BY <2>1, <2>2, <2>3, <2>4, <2>5, <2>6, <2>7 DEF Next
<1>3. Init => WaitInv
  <2> SUFFICES ASSUME Init, NEW c \in Calls
               PROVE  waited[c] <= RequestTimeout * sends[c] /\ stage[c] # "waiting"
    BY DEF WaitInv
  <2>1. sends[c] = 0 /\ waited[c] = 0 /\ stage[c] = "idle"
    BY DEF Init
  <2>2. QED
    BY <2>1, OneMore
<1>4. TypeOK /\ BudgetInv /\ WaitInv /\ [Next]_vars => WaitInv'
  <2> SUFFICES ASSUME TypeOK, BudgetInv, WaitInv, [Next]_vars
               PROVE  WaitInv'
    OBVIOUS
  <2> USE DEF TypeOK, To, clocks
  <2>1. ASSUME NEW c \in Calls,
               \/ \E in \in Inputs, o \in Origins : Begin(c, in, o)
               \/ Fail(c) \/ TimeOut(c) \/ Done(c) \/ NotFollowed(c)
               \/ Answered(c) \/ Redirect(c)
        PROVE  WaitInv'
    <3>1. UNCHANGED <<sends, waited, timer>>
      BY <2>1 DEF Begin, Fail, TimeOut, Done, NotFollowed, Answered, Head, Redirect
    <3>2. \A d \in Calls : stage'[d] = "waiting" => stage[d] = "waiting"
      BY <2>1 DEF Begin, Fail, TimeOut, Done, NotFollowed, Answered, Head, Redirect
    <3>3. QED
      BY <3>1, <3>2 DEF WaitInv
  <2>2. ASSUME NEW c \in Calls, Send(c)
        PROVE  WaitInv'
    <3>1. sends[c] <= MaxRedirects
      BY <2>2 DEF Send, BudgetInv
    <3>2. sends'[c] = sends[c] + 1 /\ timer'[c] = 0 /\ waited' = waited
      BY <2>2, <3>1 DEF Send, Counted
    <3>3. \A d \in Calls \ {c} :
             sends'[d] = sends[d] /\ timer'[d] = timer[d] /\ stage'[d] = stage[d]
      BY <2>2 DEF Send
    <3>4. sends[c] \in Nat /\ waited[c] \in Nat
      OBVIOUS
    <3>5. RequestTimeout * (sends[c] + 1) = RequestTimeout * sends[c] + RequestTimeout
      BY <3>4, OneMore
    <3>6. RequestTimeout * sends[c] \in Nat
      BY <3>4, OneMore
    <3>7. waited[c] <= RequestTimeout * sends[c]
      BY DEF WaitInv
    <3>8. sends'[c] - 1 = sends[c]
      BY <3>2, <3>4
    <3>9. /\ waited'[c] <= RequestTimeout * sends'[c]
          /\ sends'[c] > 0
          /\ waited'[c] <= RequestTimeout * (sends'[c] - 1) + timer'[c]
      BY <3>2, <3>4, <3>5, <3>6, <3>7, <3>8
    <3>10. \A d \in Calls \ {c} :
             /\ waited'[d] <= RequestTimeout * sends'[d]
             /\ stage'[d] = "waiting" =>
                  /\ sends'[d] > 0
                  /\ waited'[d] <= RequestTimeout * (sends'[d] - 1) + timer'[d]
      BY <3>2, <3>3 DEF WaitInv
    <3>11. QED
      BY <3>9, <3>10 DEF WaitInv
  <2>3. ASSUME NEW c \in Calls, Leave(c)
        PROVE  WaitInv'
    <3>1. sends'[c] = 0 /\ waited'[c] = 0 /\ stage'[c] = "idle"
      BY <2>3 DEF Leave
    <3>2. RequestTimeout * 0 = 0
      BY OneMore
    <3>3. \A d \in Calls \ {c} : /\ sends'[d] = sends[d] /\ timer'[d] = timer[d]
                                 /\ waited'[d] = waited[d] /\ stage'[d] = stage[d]
      BY <2>3 DEF Leave
    <3>4. QED
      BY <3>1, <3>2, <3>3 DEF WaitInv
  <2>4. CASE Tick
    <3> SUFFICES ASSUME NEW d \in Calls
                 PROVE  /\ waited'[d] <= RequestTimeout * sends'[d]
                        /\ stage'[d] = "waiting" =>
                             /\ sends'[d] > 0
                             /\ waited'[d] <= RequestTimeout * (sends'[d] - 1) + timer'[d]
      BY DEF WaitInv
    <3>1. stage' = stage /\ sends' = sends
      BY <2>4 DEF Tick
    <3>2. CASE stage[d] # "waiting"
      <4>1. waited'[d] = waited[d]
        BY <2>4, <3>2 DEF Tick
      <4>2. QED
        BY <3>1, <3>2, <4>1 DEF WaitInv
    <3>3. CASE stage[d] = "waiting"
      <4>1. timer'[d] = timer[d] + 1 /\ timer[d] < RequestTimeout
        BY <2>4, <3>3 DEF Tick
      <4>2. waited'[d] <= waited[d] + 1 /\ waited'[d] \in Nat
        BY <2>4, <3>3 DEF Tick, Counted
      <4>3. sends[d] > 0 /\ waited[d] <= RequestTimeout * (sends[d] - 1) + timer[d]
        BY <3>3 DEF WaitInv
      <4>4. PICK n \in Nat : sends[d] = n + 1
        <5>1. sends[d] \in Nat /\ sends[d] - 1 \in Nat /\ sends[d] = (sends[d] - 1) + 1
          BY <4>3
        <5>2. QED
          BY <5>1
      <4>5. sends[d] - 1 = n
        BY <4>4
      <4>6. RequestTimeout * n \in Nat
        BY OneMore
      <4>7. RequestTimeout * sends[d] = RequestTimeout * n + RequestTimeout
        BY <4>4, OneMore
      <4>8. timer[d] \in Nat /\ waited[d] \in Nat
        OBVIOUS
      <4>9. waited'[d] <= RequestTimeout * n + timer'[d]
        BY <4>1, <4>2, <4>3, <4>5, <4>6, <4>8
      <4>10. timer'[d] <= RequestTimeout /\ timer'[d] \in Nat
        BY <4>1, <4>8
      <4>11. waited'[d] <= RequestTimeout * sends[d]
        BY <4>2, <4>6, <4>7, <4>9, <4>10
      <4>12. QED
        BY <3>1, <4>3, <4>5, <4>9, <4>11
    <3>4. QED
      BY <3>2, <3>3
  <2>5. CASE UNCHANGED vars
    BY <2>5 DEF vars, WaitInv
  <2>6. QED
    BY <2>1, <2>2, <2>3, <2>4, <2>5 DEF Next
<1>5. TypeOK /\ BudgetInv /\ WaitInv => RedirectBudget
  <2> SUFFICES ASSUME TypeOK, BudgetInv, WaitInv, NEW c \in Calls
               PROVE  /\ sends[c] <= MaxRedirects + 1
                      /\ waited[c] <= RequestTimeout * sends[c]
    BY DEF RedirectBudget
  <2>1. sends[c] \in 0..(MaxRedirects + 2) /\ hops[c] \in 0..MaxRedirects
    BY DEF TypeOK
  <2>2. sends[c] <= MaxRedirects + 1
    BY <2>1 DEF BudgetInv
  <2>3. QED
    BY <2>2 DEF WaitInv
<1>6. QED
  BY <1>1, <1>2, <1>3, <1>4, <1>5, TypeCorrect, PTL DEF Spec

\* r is what redirects can make of the request a, whatever their statuses.
Coherent(a, r) ==
    /\ r.body => a.body /\ r.method = a.method
    /\ a.body /\ r.content => r.body
    /\ r.method = "HEAD" <=> a.method = "HEAD"

\* One more redirect keeps a request coherent with what the caller asked.
LEMMA RewrittenCoherent ==
    ASSUME NEW a \in Input, NEW r \in Input, NEW status, Coherent(a, r)
    PROVE  Coherent(a, Rewritten(r, status))
BY DEF Coherent, Rewritten, Input

CoherentInv == \A c \in Calls : Coherent(asked[c], req[c])

\* What is sent after any sequence of redirects hangs together with what the
\* caller asked for.
THEOREM RewritesAreCoherent == Spec => []RewriteCoherent
<1>1. Init => CoherentInv
  BY DEF Init, CoherentInv, Coherent, Plain
<1>2. TypeOK /\ CoherentInv /\ [Next]_vars => CoherentInv'
  <2> SUFFICES ASSUME TypeOK, CoherentInv, [Next]_vars
               PROVE  CoherentInv'
    OBVIOUS
  <2> USE DEF TypeOK, CoherentInv, clocks
  <2>1. ASSUME NEW c \in Calls, NEW in \in Inputs, NEW o \in Origins, Begin(c, in, o)
        PROVE  CoherentInv'
    <3>1. Coherent(in, in)
      BY FetcherAssumption DEF Coherent, Input
    <3>2. QED
      BY <2>1, <3>1 DEF Begin
  <2>2. ASSUME NEW c \in Calls, Redirect(c)
        PROVE  CoherentInv'
    <3>1. Coherent(asked[c], Rewritten(req[c], resp[c].status))
      BY RewrittenCoherent
    <3>2. QED
      BY <2>2, <3>1 DEF Redirect
  <2>3. ASSUME NEW c \in Calls, Leave(c)
        PROVE  CoherentInv'
    <3>1. Coherent(Plain, Plain)
      BY DEF Coherent, Plain
    <3>2. QED
      BY <2>3, <3>1 DEF Leave
  <2>4. ASSUME NEW c \in Calls,
               \/ Send(c) \/ Fail(c) \/ Answered(c) \/ TimeOut(c)
               \/ Done(c) \/ NotFollowed(c)
        PROVE  CoherentInv'
    <3>1. UNCHANGED <<asked, req>>
      BY <2>4 DEF Send, Fail, Answered, Head, TimeOut, Done, NotFollowed
    <3>2. QED
      BY <3>1
  <2>5. CASE Tick \/ UNCHANGED vars
    BY <2>5 DEF Tick, vars
  <2>6. QED
    BY <2>1, <2>2, <2>3, <2>4, <2>5 DEF Next
<1>3. CoherentInv => RewriteCoherent
  BY DEF CoherentInv, Coherent, RewriteCoherent
<1>4. QED
  BY <1>1, <1>2, <1>3, TypeCorrect, PTL DEF Spec

----------------------------------------------------------------------------
(* The cookie jar *)

\* The jar holds, for each origin, the last cookie that origin set, so at
\* least as new a one as any call has seen from it.
JarInv ==
    \A o \in Origins :
        /\ jar[o] # NoCookie => jar[o].by = o
        /\ \A c \in Calls :
              /\ seen[c][o] <= received
              /\ seen[c][o] # 0 => jar[o] # NoCookie /\ jar[o].at >= seen[c][o]

\* A request on the wire carries what the jar held when it was sent.
WireInv == CookiesStayHome /\ ReadsOwnCookies

\* Both parts together are inductive over the typed states.
LEMMA JarInductive ==
    TypeOK /\ JarInv /\ WireInv /\ [Next]_vars => JarInv' /\ WireInv'
<1> SUFFICES ASSUME TypeOK, JarInv, WireInv, [Next]_vars
             PROVE  JarInv' /\ WireInv'
  OBVIOUS
<1> USE FetcherAssumption
<1> USE DEF TypeOK, WireInv, CookiesStayHome, ReadsOwnCookies, To, clocks
<1>1. ASSUME NEW c \in Calls, NEW in \in Inputs, NEW o \in Origins, Begin(c, in, o)
      PROVE  JarInv' /\ WireInv'
  BY <1>1 DEF Begin, JarInv
<1>2. ASSUME NEW c \in Calls, Send(c)
      PROVE  JarInv' /\ WireInv'
  <2>1. cookie' = [cookie EXCEPT ![c] = IF req[c].own THEN NoCookie ELSE jar[target[c]]]
    BY <1>2 DEF Send, Attached
  <2>2. UNCHANGED <<req, target, seen, jar, received>>
    BY <1>2 DEF Send
  <2>3. \A d \in Calls \ {c} : cookie'[d] = cookie[d] /\ stage'[d] = stage[d]
    BY <1>2, <2>1 DEF Send
  <2>4. cookie'[c] = IF req[c].own THEN NoCookie ELSE jar[target[c]]
    BY <2>1
  <2>5. JarInv'
    BY <2>2 DEF JarInv
  <2>6. CookiesStayHome'
    <3> SUFFICES ASSUME NEW d \in Calls, stage'[d] = "waiting", cookie'[d] # NoCookie
                 PROVE  cookie'[d].by = target'[d]
      OBVIOUS
    <3>1. CASE d = c
      <4>1. target[c] \in Origins /\ cookie'[c] = jar[target[c]]
        BY <2>4, <3>1
      <4>2. QED
        BY <2>2, <3>1, <4>1 DEF JarInv
    <3>2. CASE d # c
      BY <2>2, <2>3, <3>2
    <3>3. QED
      BY <3>1, <3>2
  <2>7. ReadsOwnCookies'
    BY <2>2, <2>3, <2>4 DEF JarInv
  <2>8. QED
    BY <2>5, <2>6, <2>7
<1>3. ASSUME NEW c \in Calls, Fail(c) \/ TimeOut(c) \/ Done(c) \/ NotFollowed(c)
      PROVE  JarInv' /\ WireInv'
  <2>1. UNCHANGED <<req, target, seen, jar, received, cookie>>
    BY <1>3 DEF Fail, TimeOut, Done, NotFollowed
  <2>2. \A d \in Calls : stage'[d] = "waiting" => stage[d] = "waiting"
    BY <1>3 DEF Fail, TimeOut, Done, NotFollowed
  <2>3. QED
    BY <2>1, <2>2 DEF JarInv
<1>4. ASSUME NEW c \in Calls, NEW r \in Response, NEW set \in BOOLEAN, Head(c, r, set)
      PROVE  JarInv' /\ WireInv'
  <2>1. UNCHANGED <<req, target, cookie>>
    BY <1>4 DEF Head
  <2>2. \A d \in Calls : stage'[d] = "waiting" => stage[d] = "waiting" /\ d # c
    BY <1>4 DEF Head
  <2>3. CASE ~set
    <3>1. UNCHANGED <<jar, seen, received>>
      BY <1>4, <2>3 DEF Head, Harvest
    <3>2. QED
      BY <2>1, <2>2, <3>1 DEF JarInv
  <2>4. CASE set
    <3>1. received' = received + 1 /\ received \in Nat
      BY <1>4, <2>4 DEF Head
    <3>2. jar' = [jar EXCEPT ![target[c]] = [by |-> target[c], at |-> received + 1]]
      BY <1>4, <2>4 DEF Head, Harvest
    <3>3. seen' = [seen EXCEPT ![c] = [seen[c] EXCEPT ![target[c]] = received + 1]]
      BY <1>4, <2>4 DEF Head
    <3>4. [by |-> target[c], at |-> received + 1] # NoCookie
      <4>1. received + 1 \in 1..MaxCookies
        BY <1>4, <2>4 DEF Head
      <4>2. QED
        BY <4>1 DEF Cookie
    <3>5. \A d \in Calls \ {c} : seen'[d] = seen[d]
      BY <3>3
    <3>6. \A o \in Origins : seen'[c][o] = IF o = target[c] THEN received + 1 ELSE seen[c][o]
      BY <3>3
    <3>7. \A o \in Origins : o # target[c] => jar'[o] = jar[o]
      BY <3>2
    <3>8. jar'[target[c]] = [by |-> target[c], at |-> received + 1]
      BY <3>2
    <3>9. ASSUME NEW o \in Origins
          PROVE  /\ jar'[o] # NoCookie => jar'[o].by = o
                 /\ \A d \in Calls :
                      /\ seen'[d][o] <= received'
                      /\ seen'[d][o] # 0 => jar'[o] # NoCookie /\ jar'[o].at >= seen'[d][o]
      <4>1. \A d \in Calls : seen[d][o] \in Nat /\ seen[d][o] <= received
        BY DEF JarInv
      <4>2. CASE o = target[c]
        <5>1. jar'[o] # NoCookie /\ jar'[o].by = o /\ jar'[o].at = received + 1
          BY <3>4, <3>8, <4>2
        <5>2. \A d \in Calls : seen'[d][o] \in Nat /\ seen'[d][o] <= received + 1
          BY <3>1, <3>5, <3>6, <4>1, <4>2
        <5>3. QED
          BY <3>1, <5>1, <5>2
      <4>3. CASE o # target[c]
        <5>1. jar'[o] = jar[o] /\ \A d \in Calls : seen'[d][o] = seen[d][o]
          BY <3>5, <3>6, <3>7, <4>3
        <5>2. \A d \in Calls : seen[d][o] <= received + 1
          BY <3>1, <4>1
        <5>3. QED
          BY <3>1, <5>1, <5>2 DEF JarInv
      <4>4. QED
        BY <4>2, <4>3
    <3>10. JarInv'
      BY <3>9 DEF JarInv
    <3>11. WireInv'
      BY <2>1, <2>2, <3>5
    <3>12. QED
      BY <3>10, <3>11
  <2>5. QED
    BY <2>3, <2>4
<1>5. ASSUME NEW c \in Calls, Redirect(c)
      PROVE  JarInv' /\ WireInv'
  BY <1>5 DEF Redirect, JarInv
<1>6. ASSUME NEW c \in Calls, Leave(c)
      PROVE  JarInv' /\ WireInv'
  <2>1. UNCHANGED <<target, jar, received>>
    BY <1>6 DEF Leave
  <2>2. \A d \in Calls \ {c} :
           /\ stage'[d] = stage[d] /\ req'[d] = req[d]
           /\ cookie'[d] = cookie[d] /\ seen'[d] = seen[d]
    BY <1>6 DEF Leave
  <2>3. stage'[c] = "idle" /\ seen'[c] = Unseen
    BY <1>6 DEF Leave
  <2>4. \A o \in Origins : seen'[c][o] = 0
    BY <2>3 DEF Unseen
  <2>5. 0 <= received
    OBVIOUS
  <2>6. JarInv'
    <3>1. ASSUME NEW o \in Origins, NEW d \in Calls
          PROVE  /\ seen'[d][o] <= received'
                 /\ seen'[d][o] # 0 => jar'[o] # NoCookie /\ jar'[o].at >= seen'[d][o]
      <4>1. CASE d = c
        BY <2>1, <2>4, <2>5, <4>1
      <4>2. CASE d # c
        BY <2>1, <2>2, <4>2 DEF JarInv
      <4>3. QED
        BY <4>1, <4>2
    <3>2. \A o \in Origins : jar'[o] # NoCookie => jar'[o].by = o
      BY <2>1 DEF JarInv
    <3>3. QED
      BY <3>1, <3>2 DEF JarInv
  <2>7. WireInv'
    BY <2>1, <2>2, <2>3
  <2>8. QED
    BY <2>6, <2>7
<1>7. CASE Tick \/ UNCHANGED vars
  <2>1. UNCHANGED <<stage, req, target, cookie, seen, jar, received>>
    BY <1>7 DEF Tick, vars
  <2>2. QED
    BY <2>1 DEF JarInv
<1>8. QED
  BY <1>1, <1>2, <1>3, <1>4, <1>5, <1>6, <1>7 DEF Next, Answered

LEMMA JarInitially == Init => JarInv /\ WireInv
BY DEF Init, JarInv, WireInv, CookiesStayHome, ReadsOwnCookies, Unseen

\* An origin is only ever sent cookies it set, however calls share the jar.
THEOREM CookiesAreHome == Spec => []CookiesStayHome
<1>1. JarInv /\ WireInv => CookiesStayHome
  BY DEF WireInv
<1>2. QED
  BY <1>1, TypeCorrect, JarInductive, JarInitially, PTL DEF Spec

\* A call never sends an origin an older cookie than the one it got from it.
THEOREM CookiesAreRead == Spec => []ReadsOwnCookies
<1>1. JarInv /\ WireInv => ReadsOwnCookies
  BY DEF WireInv
<1>2. QED
  BY <1>1, TypeCorrect, JarInductive, JarInitially, PTL DEF Spec
=============================================================================
