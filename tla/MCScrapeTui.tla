----------------------------- MODULE MCScrapeTui -----------------------------
(* Small instances of ScrapeTui for TLC: URLs are numbers, all on one host. *)
EXTENDS ScrapeTui

CONSTANT a

Distinct == [r \in Rows |-> r]

OneHost == [u \in Urls |-> a]
==============================================================================
