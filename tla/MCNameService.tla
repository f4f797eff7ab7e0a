--------------------------- MODULE MCNameService ---------------------------
(***************************************************************************)
(* NameService for TLC: two names, which one pattern matches.              *)
(***************************************************************************)
EXTENDS NameService
CONSTANTS n1, n2
OnePattern == {{n1, n2}}
=============================================================================
