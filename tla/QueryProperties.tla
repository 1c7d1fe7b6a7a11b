--------------------------- MODULE QueryProperties ---------------------------
(***************************************************************************)
(* What is expected of QueryTransport.                                     *)
(***************************************************************************)
EXTENDS QueryTransport, FiniteSets

\* No worker is leaked and none is referred to after its disposal: the live
\* workers are the initialized one and the starting one, never both
\* (query-transport.ts ensureState and dispose).
OneWorker ==
  /\ live = {current, starting} \ {None}
  /\ Cardinality(live) <= 1

\* The pending maps hold exactly the query whose turn it is: no waiter is lost,
\* none waits on a disposed worker, and two queries never share a worker.
OneWaiter ==
  /\ \A q \in Queries :
       /\ call[q] = "posted" <=> \E w \in live : QueryCall(q) \in pending[w]
       /\ call[q] \in {"starting", "posted"} => HasTurn(q)
  /\ \A w \in Workers : Cardinality(pending[w]) <= 1

\* close leaves no worker and nobody waiting for one (query-transport.ts close).
ClosedClean ==
  phase = "closed" =>
    /\ live = {}
    /\ \A q \in Queries : call[q] \notin {"starting", "posted"}

\* Nothing that was called before or after close starts a worker once close
\* has begun, which nobody would terminate.
NoWorkerAfterClose == [][phase # "open" => live' \subseteq live]_vars

OutcomeOf(state) == IF state \in Outcomes THEN state ELSE "none"

Service == INSTANCE QueryService
  WITH line <- turns, outcome <- [q \in Queries |-> OutcomeOf(call[q])], run <- served

\* The transport serves queries in order, runs each at most once and answers
\* only from that run, across deadlines, aborts and lost workers: a late
\* response never reaches another query.
ImplementsService == Service!Spec

\* Every query settles, whatever the workers do (deadlines bound both its
\* initialization and its execution), also when the transport is closed.
QuerySettles == \A q \in Queries : call[q] = "queued" ~> call[q] \in Outcomes

\* close returns even with a worker that does not answer.
CloseReturns == phase = "closing" ~> phase = "closed"

-----------------------------------------------------------------------------
(* Strengthenings that make the invariants inductive (QueryProofs).         *)

\* At most one worker lives, and one that was disposed of holds nothing.
LiveInv ==
  /\ live = {current, starting} \ {None}
  /\ current = None \/ starting = None
  /\ \A w \in Workers : w \notin live => pending[w] = {} /\ inbox[w] = <<>> /\ outbox[w] = <<>>

\* A query is in the turn chain once, unsettled, and beyond its queueing only
\* while it is at the head.
TurnInv ==
  /\ \A i, j \in DOMAIN turns : turns[i] = turns[j] => i = j
  /\ \A i \in DOMAIN turns : call[turns[i]] \in {"queued", "starting", "posted"}
  /\ \A q \in Queries : call[q] \in {"starting", "posted"} => HasTurn(q)

\* Whom each pending map waits for.
WaiterInv ==
  /\ \A w \in Workers : pending[w] = {} \/ \E id \in Ids : pending[w] = {id}
  /\ \A w \in Workers : InitCall \in pending[w] <=> w = starting
  /\ \A w \in Workers : ShutdownCall \in pending[w] => phase # "open"
  /\ \A q \in Queries : call[q] = "posted" <=> \E w \in Workers : QueryCall(q) \in pending[w]
  /\ \A q \in Queries : call[q] = "starting" => starting # None

\* close has every live worker in hand.
PhaseInv ==
  /\ phase = "sweeping" => live \subseteq sweep
  /\ phase = "closed" => live = {}

\* A query is with a worker once: waiting in its inbox, not yet executed, or
\* executed, before any of its answers is on the way.
DeliveryInv ==
  /\ \A w \in Workers, q \in Queries :
       /\ \A i, j \in DOMAIN inbox[w] : inbox[w][i] = QueryCall(q) /\ inbox[w][j] = QueryCall(q) => i = j
       /\ \A i \in DOMAIN inbox[w] : inbox[w][i] = QueryCall(q) => QueryCall(q) \in pending[w] /\ q \notin served
       /\ \A i \in DOMAIN outbox[w] : outbox[w][i] = QueryCall(q) => q \in served
  /\ \A q \in served : call[q] \notin {"idle", "queued", "starting"}

=============================================================================
