----------------------------- MODULE QueryService -----------------------------
(***************************************************************************)
(* What the isolated query transport promises its callers, without workers *)
(* or messages: queries are served one at a time in the order they were    *)
(* made, each runs at most once and settles exactly once, and an answer    *)
(* comes from its own run.                                                 *)
(***************************************************************************)
EXTENDS Sequences

CONSTANT Queries

VARIABLES
  line,    \* the queries waiting or in service, in the order they were made
  outcome, \* per query: "none", "answered", "timeout", "aborted" or "failed"
  run      \* the queries that were run

Init ==
  /\ line = <<>>
  /\ outcome = [q \in Queries |-> "none"]
  /\ run = {}

Ask(q) ==
  /\ outcome[q] = "none"
  /\ \A i \in DOMAIN line : line[i] # q
  /\ line' = Append(line, q)
  /\ UNCHANGED <<outcome, run>>

Run(q) ==
  /\ line # <<>> /\ Head(line) = q
  /\ q \notin run
  /\ run' = run \cup {q}
  /\ UNCHANGED <<line, outcome>>

Settle(q, kind) ==
  /\ line # <<>> /\ Head(line) = q
  /\ kind = "answered" => q \in run
  /\ line' = Tail(line)
  /\ outcome' = [outcome EXCEPT ![q] = kind]
  /\ UNCHANGED run

Next ==
  \E q \in Queries :
    \/ Ask(q)
    \/ Run(q)
    \/ \E kind \in {"answered", "timeout", "aborted", "failed"} : Settle(q, kind)

Spec == Init /\ [][Next]_<<line, outcome, run>>

=============================================================================
