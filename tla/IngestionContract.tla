-------------------------- MODULE IngestionContract --------------------------
(***************************************************************************)
(* What OTLP ingestion promises an exporter, without queue, worker or      *)
(* failure: a request is committed at most once, a 200 is only sent for a  *)
(* committed request, and a request answered 400, 413, 415 or 429 is not   *)
(* committed, then or later.  A 503 or a lost connection promises nothing: *)
(* the telemetry may be stored before, after or never.                     *)
(***************************************************************************)
EXTENDS Naturals

CONSTANT Requests

VARIABLES
  store,  \* per request: how many times it was committed
  reply   \* per request: "none", "acknowledged", "refused" or "unknown"

TypeInvariant ==
  /\ store \in [Requests -> {0, 1}]
  /\ reply \in [Requests -> {"none", "acknowledged", "refused", "unknown"}]

Init ==
  /\ store = [r \in Requests |-> 0]
  /\ reply = [r \in Requests |-> "none"]

Commit(r) ==
  /\ store[r] = 0
  /\ reply[r] # "refused"
  /\ store' = [store EXCEPT ![r] = 1]
  /\ UNCHANGED reply

Reply(r, kind) ==
  /\ reply[r] = "none"
  /\ reply' = [reply EXCEPT ![r] = kind]
  /\ UNCHANGED store

Acknowledge(r) == store[r] = 1 /\ Reply(r, "acknowledged")

Refuse(r) == store[r] = 0 /\ Reply(r, "refused")

GiveUp(r) == Reply(r, "unknown")

Next == \E r \in Requests : Commit(r) \/ Acknowledge(r) \/ Refuse(r) \/ GiveUp(r)

Spec == Init /\ [][Next]_<<store, reply>>

=============================================================================
