------------------------------ MODULE Fetcher ------------------------------
(***************************************************************************)
(* bouncy's HTTP client (crates/bouncy-fetch/src/lib.rs): Fetcher::request *)
(* follows redirects by sending one request per hop, rewriting it on the   *)
(* way; the calls in flight share one cookie jar.                          *)
(*                                                                         *)
(* A hop is three steps, because other calls run during its two awaits:    *)
(* send the request, receive the head of the response, collect its body.   *)
(*                                                                         *)
(* Only the origin of a URL matters here (the key of the cookie jar, what  *)
(* the blocklist looks at), so an origin stands for its URLs.  An origin   *)
(* sets one cookie; its values are told apart by who set them and by the   *)
(* order in which they were received.                                      *)
(***************************************************************************)
EXTENDS Naturals

CONSTANTS
    Calls,          \* concurrent callers of request()
    Origins,
    Blocked,        \* the origins the tracker blocklist matches
    Inputs,         \* what callers pass in
    MaxRedirects,   \* max_redirects
    RequestTimeout, \* request_timeout in ticks, 0 for None
    NoCookie,
    MaxCookies,     \* bound on the cookies received
    MaxWaited       \* up to where a call's ticks are counted

\* content: the request has Content-Type or Content-Length headers.
\* own: it has a Cookie header the caller set.
Input ==
    [method : {"GET", "HEAD", "POST"}, body : BOOLEAN, content : BOOLEAN, own : BOOLEAN]

Cookie == [by : Origins, at : 1..MaxCookies]

ASSUME FetcherAssumption ==
    /\ Blocked \subseteq Origins
    /\ Inputs \subseteq Input
    /\ MaxRedirects \in Nat
    /\ RequestTimeout \in Nat
    /\ NoCookie \notin Cookie
    /\ MaxCookies \in Nat
    /\ MaxWaited \in Nat

VARIABLES
    stage,     \* where each call is
    asked,     \* what its caller passed in
    req,       \* the request as rewritten so far
    target,    \* the request's URL
    hops,      \* redirects followed
    sends,     \* requests put on the wire, counted to one over the budget
    cookie,    \* the jar's cookie attached to the last of them
    resp,      \* the head of the last response
    seen,      \* per call and origin, the last cookie received (0: none)
    jar,       \* the CookieJar
    received,  \* cookies received by all calls
    timer,     \* ticks since the current request was sent
    waited     \* history: ticks spent waiting for heads, up to MaxWaited

vars == <<stage, asked, req, target, hops, sends, cookie, resp, seen, jar,
          received, timer, waited>>

clocks == <<timer, waited>>

Stages == {"idle", "ready", "waiting", "reading", "ok", "error"}

Plain == [method |-> "GET", body |-> FALSE, content |-> FALSE, own |-> FALSE]

Response ==
    [status : {"final", "see_other", "temporary"},
     location : Origins \cup {"none", "bad"}]

NoResponse == [status |-> "final", location |-> "none"]

TypeOK ==
    /\ stage \in [Calls -> Stages]
    /\ asked \in [Calls -> Input]
    /\ req \in [Calls -> Input]
    /\ target \in [Calls -> Origins]
    /\ hops \in [Calls -> 0..MaxRedirects]
    /\ sends \in [Calls -> 0..(MaxRedirects + 2)]
    /\ cookie \in [Calls -> Cookie \cup {NoCookie}]
    /\ resp \in [Calls -> Response]
    /\ seen \in [Calls -> [Origins -> 0..MaxCookies]]
    /\ jar \in [Origins -> Cookie \cup {NoCookie}]
    /\ received \in 0..MaxCookies
    /\ timer \in [Calls -> 0..RequestTimeout]
    /\ waited \in [Calls -> 0..MaxWaited]

Unseen == [o \in Origins |-> 0]

Init ==
    /\ stage = [c \in Calls |-> "idle"]
    /\ asked = [c \in Calls |-> Plain]
    /\ req = [c \in Calls |-> Plain]
    /\ target \in {[c \in Calls |-> o] : o \in Origins}
    /\ hops = [c \in Calls |-> 0]
    /\ sends = [c \in Calls |-> 0]
    /\ cookie = [c \in Calls |-> NoCookie]
    /\ resp = [c \in Calls |-> NoResponse]
    /\ seen = [c \in Calls |-> Unseen]
    /\ jar = [o \in Origins |-> NoCookie]
    /\ received = 0
    /\ timer = [c \in Calls |-> 0]
    /\ waited = [c \in Calls |-> 0]

To(c, st) == stage' = [stage EXCEPT ![c] = st]

----------------------------------------------------------------------------
(* request() *)

\* A call to a blocked host is answered with a synthetic 204; any other
\* enters the redirect loop.
Begin(c, in, o) ==
    /\ stage[c] = "idle"
    /\ To(c, IF o \in Blocked THEN "ok" ELSE "ready")
    /\ asked' = [asked EXCEPT ![c] = in]
    /\ req' = [req EXCEPT ![c] = in]
    /\ target' = [target EXCEPT ![c] = o]
    /\ UNCHANGED <<hops, sends, cookie, resp, seen, jar, received, clocks>>

\* Seeded bug for the runs: the cookie of another origin is attached.
AttachedAny(c) ==
    {jar[o] : o \in Origins}

\* The Cookie header send_one adds: the jar's, unless the caller set one.
Attached(c) == {IF req[c].own THEN NoCookie ELSE jar[target[c]]}

Counted(n, most) == IF n < most THEN n + 1 ELSE most

Send(c) ==
    /\ stage[c] = "ready"
    /\ To(c, "waiting")
    /\ sends' = [sends EXCEPT ![c] = Counted(@, MaxRedirects + 2)]
    /\ \E k \in Attached(c) : cookie' = [cookie EXCEPT ![c] = k]
    /\ timer' = [timer EXCEPT ![c] = 0]
    /\ UNCHANGED <<asked, req, target, hops, resp, seen, jar, received, waited>>

\* The URL is not http or https, a header or the method is invalid, the
\* connection fails, or the body cannot be read or decoded.
Fail(c) ==
    /\ stage[c] \in {"ready", "waiting", "reading"}
    /\ To(c, "error")
    /\ UNCHANGED <<asked, req, target, hops, sends, cookie, resp, seen, jar,
                   received, clocks>>

\* Seeded bug for the runs: only the cookies of the last hop are kept.
HarvestLast(c, set, status) ==
    IF set /\ status = "final"
    THEN jar' = [jar EXCEPT ![target[c]] = [by |-> target[c], at |-> received + 1]]
    ELSE UNCHANGED jar

\* Set-Cookie goes into the jar under the origin of this hop.
Harvest(c, set, status) ==
    IF set THEN jar' = [jar EXCEPT ![target[c]] = [by |-> target[c], at |-> received + 1]]
           ELSE UNCHANGED jar

Head(c, r, set) ==
    /\ stage[c] = "waiting"
    /\ set => received < MaxCookies
    /\ To(c, "reading")
    /\ resp' = [resp EXCEPT ![c] = r]
    /\ Harvest(c, set, r.status)
    /\ received' = IF set THEN received + 1 ELSE received
    /\ seen' = IF set THEN [seen EXCEPT ![c] = [@ EXCEPT ![target[c]] = received + 1]]
                      ELSE seen
    /\ UNCHANGED <<asked, req, target, hops, sends, cookie, clocks>>

\* tokio::time::timeout around the send: armed for the head of each hop.
TimeOut(c) ==
    /\ stage[c] = "waiting"
    /\ RequestTimeout # 0
    /\ timer[c] >= RequestTimeout
    /\ To(c, "error")
    /\ UNCHANGED <<asked, req, target, hops, sends, cookie, resp, seen, jar,
                   received, clocks>>

\* A response that is not followed.
Final(c) ==
    \/ resp[c].status = "final"
    \/ MaxRedirects = 0
    \/ hops[c] < MaxRedirects /\ resp[c].location = "none"

Done(c) ==
    /\ stage[c] = "reading"
    /\ Final(c)
    /\ To(c, "ok")
    /\ UNCHANGED <<asked, req, target, hops, sends, cookie, resp, seen, jar,
                   received, clocks>>

Spent(c) == hops[c] >= MaxRedirects

\* TooManyRedirects or BadRedirectLocation.
NotFollowed(c) ==
    /\ stage[c] = "reading"
    /\ ~Final(c)
    /\ Spent(c) \/ resp[c].location = "bad"
    /\ To(c, "error")
    /\ UNCHANGED <<asked, req, target, hops, sends, cookie, resp, seen, jar,
                   received, clocks>>

\* Seeded bug for the runs: the headers of a dropped body are kept.
RewrittenKeepsHeaders(r, status) ==
    IF status = "temporary" THEN r
    ELSE [method |-> IF r.method = "HEAD" THEN "HEAD" ELSE "GET",
          body |-> FALSE,
          content |-> r.content,
          own |-> r.own]

\* rewrite_for_redirect: 301, 302 and 303 turn the method into GET, except
\* HEAD, and drop a body with the headers that describe it.
Rewritten(r, status) ==
    IF status = "temporary" THEN r
    ELSE [method |-> IF r.method = "HEAD" THEN "HEAD" ELSE "GET",
          body |-> FALSE,
          content |-> r.content /\ ~r.body,
          own |-> r.own]

\* Seeded bug for the runs: hops are not counted.
HopsAfterNever(n) == n

HopsAfter(n) == n + 1

Redirect(c) ==
    /\ stage[c] = "reading"
    /\ ~Final(c)
    /\ ~Spent(c)
    /\ resp[c].location \in Origins
    /\ To(c, "ready")
    /\ req' = [req EXCEPT ![c] = Rewritten(req[c], resp[c].status)]
    /\ target' = [target EXCEPT ![c] = resp[c].location]
    /\ hops' = [hops EXCEPT ![c] = HopsAfter(hops[c])]
    /\ resp' = [resp EXCEPT ![c] = NoResponse]
    /\ UNCHANGED <<asked, sends, cookie, seen, jar, received, clocks>>

\* The caller has its answer, or drops the future wherever it is (as
\* fetch_with_timeout does); what the jar learned stays.
Leave(c) ==
    /\ stage[c] # "idle"
    /\ To(c, "idle")
    /\ asked' = [asked EXCEPT ![c] = Plain]
    /\ req' = [req EXCEPT ![c] = Plain]
    /\ hops' = [hops EXCEPT ![c] = 0]
    /\ sends' = [sends EXCEPT ![c] = 0]
    /\ cookie' = [cookie EXCEPT ![c] = NoCookie]
    /\ resp' = [resp EXCEPT ![c] = NoResponse]
    /\ seen' = [seen EXCEPT ![c] = Unseen]
    /\ timer' = [timer EXCEPT ![c] = 0]
    /\ waited' = [waited EXCEPT ![c] = 0]
    /\ UNCHANGED <<target, jar, received>>

Busy(c) == stage[c] \in {"ready", "waiting", "reading"}

\* A timer that has expired fires before the clock moves on.
Tick ==
    /\ RequestTimeout # 0
    /\ \E c \in Calls : Busy(c)
    /\ \A c \in Calls : stage[c] = "waiting" => timer[c] < RequestTimeout
    /\ timer' = [c \in Calls |-> IF stage[c] = "waiting" THEN timer[c] + 1 ELSE timer[c]]
    /\ waited' = [c \in Calls |->
                    IF stage[c] = "waiting" THEN Counted(waited[c], MaxWaited)
                    ELSE waited[c]]
    /\ UNCHANGED <<stage, asked, req, target, hops, sends, cookie, resp, seen,
                   jar, received>>

Answered(c) == \E r \in Response, set \in BOOLEAN : Head(c, r, set)

Next ==
    \/ \E c \in Calls :
          \/ \E in \in Inputs, o \in Origins : Begin(c, in, o)
          \/ Send(c) \/ Fail(c) \/ Answered(c) \/ TimeOut(c)
          \/ Done(c) \/ NotFollowed(c) \/ Redirect(c)
          \/ Leave(c)
    \/ Tick

Spec == Init /\ [][Next]_vars

\* Time passes, an expired timer fires, and a body comes to an end (nothing
\* in the code bounds it); no server has to answer.
FairSpec ==
    /\ Spec
    /\ WF_vars(Tick)
    /\ \A c \in Calls :
          /\ WF_vars(Send(c))
          /\ WF_vars(TimeOut(c))
          /\ WF_vars(Done(c) \/ NotFollowed(c) \/ Redirect(c))

----------------------------------------------------------------------------
(* Properties *)

\* max_redirects bounds what one call puts on the wire, the first request and that
\* many more; request_timeout, armed again for each of them, bounds the time spent
\* waiting for their heads, though not the whole call.
RedirectBudget ==
    \A c \in Calls :
        /\ sends[c] <= MaxRedirects + 1
        /\ waited[c] <= RequestTimeout * sends[c]

\* However 301, 302, 303, 307 and 308 follow each other, what is sent hangs
\* together: a body goes only with the caller's own method, headers about a
\* dropped body never outlive it, and HEAD stays HEAD.
RewriteCoherent ==
    \A c \in Calls : stage[c] = "waiting" =>
        /\ req[c].body => asked[c].body /\ req[c].method = asked[c].method
        /\ asked[c].body /\ req[c].content => req[c].body
        /\ req[c].method = "HEAD" <=> asked[c].method = "HEAD"

\* The jar gives an origin only what that origin set.
CookiesStayHome ==
    \A c \in Calls : stage[c] = "waiting" /\ cookie[c] # NoCookie =>
        cookie[c].by = target[c]

\* A cookie set by one hop is what the next hop to that origin sends, unless
\* a newer one has arrived meanwhile: a login that redirects stays logged in,
\* whatever other calls do with the jar.
ReadsOwnCookies ==
    \A c \in Calls :
        stage[c] = "waiting" /\ ~req[c].own /\ seen[c][target[c]] # 0 =>
            cookie[c] # NoCookie /\ cookie[c].at >= seen[c][target[c]]

\* With a timeout set, neither a server that never answers nor a ring of
\* redirects can hold a caller.
CallsEnd == \A c \in Calls : Busy(c) ~> ~Busy(c)
============================================================================
