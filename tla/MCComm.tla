------------------------------ MODULE MCComm ------------------------------
(***************************************************************************)
(* Small instances of Comm for TLC.                                        *)
(***************************************************************************)
EXTENDS Comm, TLC

\* Processes that behave alike may be exchanged.
Symmetry == Permutations(Proc)
=============================================================================
