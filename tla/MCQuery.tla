------------------------------- MODULE MCQuery -------------------------------
(***************************************************************************)
(* Small instances of the query transport for TLC.                         *)
(***************************************************************************)
EXTENDS QueryProperties

=============================================================================
