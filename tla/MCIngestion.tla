----------------------------- MODULE MCIngestion -----------------------------
(***************************************************************************)
(* Small instances of ingestion for TLC.                                   *)
(***************************************************************************)
EXTENDS IngestionProperties, TLC

Symmetry == Permutations(Requests)

\* Either an error event of the worker or a round of retention, not both.
OneDisturbance == errors + rounds <= 1

=============================================================================
