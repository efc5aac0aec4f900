----------------------------- MODULE MCDomTree -----------------------------
(***************************************************************************)
(* Instances of DomTree.  The document, html and body take three cells.     *)
(***************************************************************************)
EXTENDS DomTree, TLC

\* The cells of nodes other than the document are alike.
Symmetry == Permutations(Cells \ {Root})
============================================================================
