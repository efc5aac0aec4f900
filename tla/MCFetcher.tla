----------------------------- MODULE MCFetcher -----------------------------
(* Small instances of Fetcher for TLC. *)
EXTENDS Fetcher, TLC

\* GET requests, with and without a Cookie header of the caller's.
Gets == {in \in Input : in.method = "GET" /\ ~in.body /\ ~in.content}

\* The plain GET every session and scrape makes.
PlainGet == {Plain}

Symmetry == Permutations(Calls)
============================================================================
