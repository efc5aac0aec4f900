------------------------------ MODULE MCScrape ------------------------------
(* Small instances of Scrape for TLC: distinct URLs named by their host. *)
EXTENDS Scrape

CONSTANTS a, b

\* Four rows, three of one host, one of another.
ThreeToOne == [r \in 1..4 |-> <<r, IF r = 4 THEN b ELSE a>>]

UrlSet == (1..5) \X {a, b, NoHost}

HostPart == [u \in UrlSet |-> u[2]]
============================================================================
