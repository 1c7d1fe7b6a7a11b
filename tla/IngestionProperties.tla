------------------------- MODULE IngestionProperties -------------------------
(***************************************************************************)
(* What is expected of IngestionAdmission.                                 *)
(***************************************************************************)
EXTENDS IngestionAdmission

Holders == {r \in Requests : slot[r] # "free"}

\* Capacity accounting (admission.ts releaseCapacity, reserve, release): the
\* counters are exactly the requests that hold a slot, whatever the order of
\* hand-off, abort, failure and completion, so that no clamp at zero ever hides
\* a double release and the configured bounds are never exceeded.
CapacityAccounting ==
  /\ requests = Cardinality(Holders)
  /\ bytes = requests * MaxCompressedBytes
  /\ requests <= RequestCapacity
  /\ bytes <= ByteCapacity

\* A request that got its reservation is never turned away by the queue itself
\* while the queue is open (admission.ts offers to a dropping queue of the same
\* capacity after the body was read).
ReservationHonoured ==
  \A r \in Requests : slot[r] = "reserved" /\ open => Len(queue) < RequestCapacity

\* Until the scope closes, a refusal handed to recordRejected is in exactly the
\* backlog shutdown waits for, and the counter is the size of that backlog.
BacklogCounted ==
  open => rejectionsPending = Len(rejections) + (IF recorder = None THEN 0 ELSE 1)

\* No rejection is lost while the queues are open: a request refused with a
\* rejection record is waiting, being recorded, or counted, as persisted or as
\* unpersisted (admission.ts recordRejected and diagnosticConsumer).
RejectionsAccounted ==
  \A r \in Requests :
    client[r] \in {"refused", "too_large"} /\ open =>
      \/ \E i \in DOMAIN rejections : rejections[i] = r
      \/ recorder = r
      \/ rejected[r] + unpersisted[r] > 0

\* A shutdown that did not give up has completed every request that was handed
\* off: nobody is left waiting on a Deferred of a closed queue (docs/11: "drains
\* already accepted requests").
DrainedShutdown ==
  phase \in {"closing_worker", "closed", "terminated"} /\ ~drainExpired =>
    \A r \in Requests : client[r] = "open" => deferred[r] # "none"

\* The exporter's view: what was answered, and what is in the Store.
ReplyOf(state) ==
  CASE state \in {"idle", "open"} -> "none"
    [] state = "ok"               -> "acknowledged"
    [] state \in Refusals       -> "refused"
    [] OTHER                      -> "unknown"

Contract == INSTANCE IngestionContract
  WITH store <- stored, reply <- [r \in Requests |-> ReplyOf(client[r])]

\* Ingestion implements its contract: 200 only after the commit, at most one
\* commit, and nothing of a request answered 4xx is committed, before or later.
ImplementsContract == Contract!Spec

\* Once the writer failed, whoever noticed it, no request is admitted any more
\* and none that was not yet reserved reaches the queue (docs/06: failures
\* "atomically stop new admission").
FailureStopsAdmission ==
  [][writerFailure =>
       /\ writerFailure' /\ ~accepting'
       /\ \A r \in Requests : slot'[r] # "free" => slot[r] # "free"]_vars

\* A request handed to the queue is answered or its client leaves, whatever the
\* worker does, unless the queue is closed under it: the response timeout bounds
\* every call the consumer waits for.
AcceptedAnswered ==
  \A r \in Requests :
    client[r] = "open" /\ slot[r] = "queued" ~>
      client[r] # "open" \/ phase \in {"closed", "terminated"}

\* Shutdown terminates, even with a worker that never answers.
ShutdownTerminates == phase = "draining" ~> phase = "terminated"

-----------------------------------------------------------------------------
(* Strengthenings that make the invariants inductive (IngestionProofs).     *)

\* Where a request's reservation is: with its fiber, once in the queue, or with
\* the consumer.
SlotInv ==
  /\ \A r \in Requests : client[r] = "idle" => slot[r] = "free"
  /\ \A i \in DOMAIN queue : slot[queue[i]] = "queued"
  /\ \A i, j \in DOMAIN queue : queue[i] = queue[j] => i = j
  /\ consumer # None => slot[consumer] = "calling"

\* A response says whether the request was committed.
Committed(response) == IF response = "ingest-success" THEN 1 ELSE 0

Unsettled(r) == call[IngestCall(r)] \in {"pending", "failed"}

Posted(r)   == \E i \in DOMAIN inbox : inbox[i] = IngestCall(r)
Replied(r)  == \E i \in DOMAIN outbox : outbox[i].call = IngestCall(r)
Executed(r) == job.call = IngestCall(r)

\* Between its post and its answer an ingest call is at one place at most: in
\* the inbox, where nothing of it is committed, in execution, or in the outbox.
ChannelInv ==
  \A r \in Requests :
    /\ stored[r] \in {0, 1}
    /\ \A i, j \in DOMAIN inbox : inbox[i] = IngestCall(r) /\ inbox[j] = IngestCall(r) => i = j
    /\ \A i, j \in DOMAIN outbox :
         outbox[i].call = IngestCall(r) /\ outbox[j].call = IngestCall(r) => i = j
    /\ Posted(r) => Unsettled(r) /\ stored[r] = 0 /\ ~Executed(r) /\ ~Replied(r)
    /\ Executed(r) => Unsettled(r) /\ stored[r] = Committed(job.response) /\ ~Replied(r)
    /\ \A i \in DOMAIN outbox :
         outbox[i].call = IngestCall(r) => Unsettled(r) /\ stored[r] = Committed(outbox[i].response)
    /\ call[IngestCall(r)] = "idle" => stored[r] = 0
    /\ call[IngestCall(r)] \in Responses => stored[r] = Committed(call[IngestCall(r)])

\* What a fiber is told follows from the outcome of its worker call.
ReplyInv ==
  \A r \in Requests :
    /\ slot[r] \in {"reserved", "queued"} \/ client[r] \in {"idle", "refused"}
         => call[IngestCall(r)] = "idle" /\ deferred[r] = "none"
    /\ client[r] = "refused" => slot[r] = "free"
    /\ slot[r] = "calling" => call[IngestCall(r)] # "idle"
    /\ deferred[r] # "none" =>
         /\ call[IngestCall(r)] \notin {"idle", "pending"}
         /\ deferred[r] = ResultOf(call[IngestCall(r)])
    /\ client[r] \in {"ok", "malformed", "too_large"} => deferred[r] = client[r]

\* How far shutdown is: the queues are open until it closes them, a shutdown
\* that drained left no reservation, and there are no new ones.
ShutdownInv ==
  /\ open <=> phase \notin {"closed", "terminated"}
  /\ phase # "open" => ~accepting
  /\ phase \in {"draining_rejections", "closing_worker", "closed", "terminated"} /\ ~drainExpired
       => requests = 0

\* The writer's failure is known together with the end of admission.
FailureInv == writerFailure => ~accepting

\* A request that gave its reservation back while its client waits has its answer.
AnsweredInv == \A r \in Requests : client[r] = "open" /\ slot[r] = "free" => deferred[r] # "none"

\* A successful answer to "record-rejected" follows the increment, wherever it is.
Recorded(r, response) ==
  /\ response \in MaintenanceResponses
  /\ response = "maintenance-success" => rejected[r] > 0

RecorderInv ==
  \A r \in Requests :
    /\ call[RejectCall(r)] \in {"idle", "pending", "failed"} \/ Recorded(r, call[RejectCall(r)])
    /\ job.call = RejectCall(r) => Recorded(r, job.response)
    /\ \A i \in DOMAIN outbox : outbox[i].call = RejectCall(r) => Recorded(r, outbox[i].response)
    /\ recorder = r => call[RejectCall(r)] # "idle"
=============================================================================
