----------------------------- MODULE MCControl ------------------------------
(* The control path, for model checking.                                   *)
EXTENDS Control
=============================================================================
