-------------------------- MODULE IngestionAdmission --------------------------
(***************************************************************************)
(* OTLP admission in the Daemon: handleOtlpRequest of routes.ts, and the   *)
(* capacity reservation, the bounded queue and its consumer, the rejection *)
(* queue and its consumer, the retention loop and the shutdown of          *)
(* admission.ts, over the writer worker of WriterChannel.                  *)
(*                                                                         *)
(* A step is what one fiber does between two suspensions.                  *)
(***************************************************************************)
EXTENDS WriterChannel, FiniteSets

CONSTANTS
  RequestCapacity,    \* options.queueRequestCapacity
  ByteCapacity,       \* options.queueByteCapacity
  MaxCompressedBytes, \* what the HTTP route reserves for every request
  None                \* no item in hand

ASSUME AdmissionAssumption ==
  /\ RequestCapacity \in Nat \ {0}
  /\ MaxCompressedBytes \in Nat \ {0}
  /\ ByteCapacity \in Nat
  /\ IsFiniteSet(Requests)
  /\ None \notin Requests

VARIABLES
  accepting, writerFailure, requests, bytes,  \* the capacity Ref
  client,      \* per request: the HTTP fiber, "idle", "open", "aborted" or its answer
  slot,        \* per request: "free", "reserved", "queued" (handed off) or "calling"
  deferred,    \* per request: the Deferred its fiber awaits, "none" or an answer
  queue,       \* the ingestion queue
  open,        \* FALSE once Queue.shutdown ran on both queues
  consumer,    \* the queued request whose worker call the consumer awaits, or None
  rejections,  \* diagnosticQueue
  rejectionsPending, \* diagnosticPending
  recorder,    \* the rejection whose worker call diagnosticConsumer awaits, or None
  unpersisted, \* per request: its share of unpersistedRejectedRequests
  rounds,      \* retention rounds started
  retaining,   \* the retention loop awaits round `rounds`
  phase,       \* progress of shutdown
  drainExpired \* the drain gave up at drainTimeoutMs

capacityVars  == <<accepting, writerFailure, requests, bytes>>
requestVars   == <<client, slot, deferred>>
queueVars     == <<queue, consumer>>
rejectionVars == <<rejections, rejectionsPending, recorder, unpersisted>>
retentionVars == <<rounds, retaining>>
shutdownVars  == <<phase, drainExpired, open>>
vars == <<channelVars, capacityVars, requestVars, queueVars, rejectionVars, retentionVars, shutdownVars>>

\* What the fiber answers: "ok" is 200, "malformed" 400 and "too_large" 413 from
\* the worker, "refused" the 413, 415 or 429 the main thread decides itself, and
\* "unavailable" 503.
Refusals == {"refused", "malformed", "too_large"}
Results  == {"ok", "unavailable"} \cup Refusals
Phases     == {"open", "draining", "draining_rejections", "closing_worker", "closed", "terminated"}

TypeOK ==
  /\ ChannelTypeOK
  /\ accepting \in BOOLEAN /\ writerFailure \in BOOLEAN
  /\ requests \in Nat /\ bytes \in Nat
  /\ client \in [Requests -> {"idle", "open", "aborted"} \cup Results]
  /\ slot \in [Requests -> {"free", "reserved", "queued", "calling"}]
  /\ deferred \in [Requests -> {"none"} \cup Results]
  /\ queue \in Seq(Requests) /\ open \in BOOLEAN
  /\ consumer \in Requests \cup {None}
  /\ rejections \in Seq(Requests) /\ rejectionsPending \in Nat
  /\ recorder \in Requests \cup {None}
  /\ unpersisted \in [Requests -> Nat]
  /\ rounds \in 0..MaxRetentions /\ retaining \in BOOLEAN
  /\ phase \in Phases /\ drainExpired \in BOOLEAN

Init ==
  /\ ChannelInit
  /\ accepting = TRUE /\ writerFailure = FALSE
  /\ requests = 0 /\ bytes = 0
  /\ client = [r \in Requests |-> "idle"]
  /\ slot = [r \in Requests |-> "free"]
  /\ deferred = [r \in Requests |-> "none"]
  /\ queue = <<>> /\ open = TRUE
  /\ consumer = None
  /\ rejections = <<>> /\ rejectionsPending = 0
  /\ recorder = None
  /\ unpersisted = [r \in Requests |-> 0]
  /\ rounds = 0 /\ retaining = FALSE
  /\ phase = "open" /\ drainExpired = FALSE

-----------------------------------------------------------------------------
(* Shared helpers of admission.ts.                                          *)

MarkWriterUnavailable == accepting' = FALSE /\ writerFailure' = TRUE

\* Math.max(0, n - k)
Less(n, k) == IF n >= k THEN n - k ELSE 0

ReleaseCapacity ==
  /\ requests' = Less(requests, 1)
  /\ bytes' = Less(bytes, MaxCompressedBytes)

RecordUnpersisted(r) == unpersisted' = [unpersisted EXCEPT ![r] = @ + 1]

\* Mutant: a rejection the queue does not take is forgotten.
RecordRejectedDropsSilently(r) ==
  /\ IF ~writerFailure /\ open /\ Len(rejections) < RequestCapacity
     THEN rejections' = Append(rejections, r) /\ rejectionsPending' = rejectionsPending + 1
     ELSE UNCHANGED <<rejections, rejectionsPending>>
  /\ UNCHANGED <<recorder, unpersisted>>

\* Mutant: the backlog is counted before the offer and not corrected when it fails.
RecordRejectedCountsFirst(r) ==
  /\ rejectionsPending' = rejectionsPending + 1
  /\ IF ~writerFailure /\ open /\ Len(rejections) < RequestCapacity
     THEN rejections' = Append(rejections, r) /\ UNCHANGED unpersisted
     ELSE RecordUnpersisted(r) /\ UNCHANGED rejections
  /\ UNCHANGED recorder

\* A rejection is queued for the worker, or only counted when the writer
\* failed or the dropping queue does not take it.
RecordRejected(r) ==
  /\ IF ~writerFailure /\ open /\ Len(rejections) < RequestCapacity
     THEN /\ rejections' = Append(rejections, r)
          /\ rejectionsPending' = rejectionsPending + 1
          /\ UNCHANGED unpersisted
     ELSE /\ RecordUnpersisted(r)
          /\ UNCHANGED <<rejections, rejectionsPending>>
  /\ UNCHANGED recorder

Answer(r, result) == client' = [client EXCEPT ![r] = result]

Arrives(r) == client[r] = "idle" /\ phase # "terminated"

-----------------------------------------------------------------------------
(* The HTTP fiber of a request.                                             *)

\* A declared length, media type or encoding the route refuses at once.
RefuseHeaders(r) ==
  /\ Arrives(r)
  /\ Answer(r, "refused")
  /\ RecordRejected(r)
  /\ UNCHANGED <<channelVars, capacityVars, slot, deferred, queueVars, retentionVars, shutdownVars>>

\* Mutant: the failure of the writer is not looked at.
AdmitsIgnoresFailure == requests < RequestCapacity /\ bytes + MaxCompressedBytes <= ByteCapacity

\* Mutant: the queue's length stands for the requests in flight.
AdmitsByQueueLength == accepting /\ Len(queue) < RequestCapacity

Admits ==
  /\ accepting
  /\ requests < RequestCapacity
  /\ bytes + MaxCompressedBytes <= ByteCapacity

Reserve(r) ==
  /\ Arrives(r)
  /\ Admits
  /\ requests' = requests + 1
  /\ bytes' = bytes + MaxCompressedBytes
  /\ slot' = [slot EXCEPT ![r] = "reserved"]
  /\ Answer(r, "open")
  /\ UNCHANGED <<channelVars, accepting, writerFailure, deferred, queueVars, rejectionVars,
                 retentionVars, shutdownVars>>

\* The writer's failure is answered without a rejection record.
RefuseWriterFailed(r) ==
  /\ Arrives(r)
  /\ ~Admits /\ ~accepting /\ writerFailure
  /\ Answer(r, "unavailable")
  /\ UNCHANGED <<channelVars, capacityVars, slot, deferred, queueVars, rejectionVars,
                 retentionVars, shutdownVars>>

RefuseShuttingDown(r) ==
  /\ Arrives(r)
  /\ ~Admits /\ ~accepting /\ ~writerFailure
  /\ Answer(r, "unavailable")
  /\ RecordRejected(r)
  /\ UNCHANGED <<channelVars, capacityVars, slot, deferred, queueVars, retentionVars, shutdownVars>>

RefuseSaturated(r) ==
  /\ Arrives(r)
  /\ ~Admits /\ accepting
  /\ Answer(r, "refused")
  /\ RecordRejected(r)
  /\ UNCHANGED <<channelVars, capacityVars, slot, deferred, queueVars, retentionVars, shutdownVars>>

ReadsBody(r) == client[r] = "open" /\ slot[r] = "reserved"

\* Mutant: the fiber releases what the queue already owns.
ReleaseIgnoresHandOff(r) ==
  IF slot[r] # "free"
  THEN slot' = [slot EXCEPT ![r] = "free"] /\ ReleaseCapacity
  ELSE UNCHANGED <<slot, requests, bytes>>

\* reservation.release, a no-op once the request is handed off.
Release(r) ==
  IF slot[r] = "reserved"
  THEN slot' = [slot EXCEPT ![r] = "free"] /\ ReleaseCapacity
  ELSE UNCHANGED <<slot, requests, bytes>>

BodyTooLarge(r) ==
  /\ ReadsBody(r)
  /\ Release(r)
  /\ RecordRejected(r)
  /\ Answer(r, "refused")
  /\ UNCHANGED <<channelVars, accepting, writerFailure, deferred, queueVars, retentionVars, shutdownVars>>

BodyUnreadable(r) ==
  /\ ReadsBody(r)
  /\ Release(r)
  /\ Answer(r, "unavailable")
  /\ UNCHANGED <<channelVars, accepting, writerFailure, deferred, queueVars, rejectionVars,
                 retentionVars, shutdownVars>>

\* submitReserved: the dropping queue takes the request, and the reservation with it.
Submit(r) ==
  /\ ReadsBody(r)
  /\ open /\ Len(queue) < RequestCapacity
  /\ queue' = Append(queue, r)
  /\ slot' = [slot EXCEPT ![r] = "queued"]
  /\ UNCHANGED <<channelVars, capacityVars, client, deferred, consumer, rejectionVars,
                 retentionVars, shutdownVars>>

\* submitReserved: the queue does not take it.
SubmitDropped(r) ==
  /\ ReadsBody(r)
  /\ ~(open /\ Len(queue) < RequestCapacity)
  /\ Release(r)
  /\ RecordRejected(r)
  /\ Answer(r, "refused")
  /\ UNCHANGED <<channelVars, accepting, writerFailure, deferred, queueVars, retentionVars, shutdownVars>>

\* The Deferred completes; an oversized body is recorded by the route's catch.
Resume(r) ==
  /\ client[r] = "open"
  /\ deferred[r] # "none"
  /\ Answer(r, deferred[r])
  /\ IF deferred[r] = "too_large" THEN RecordRejected(r) ELSE UNCHANGED rejectionVars
  /\ UNCHANGED <<channelVars, capacityVars, slot, deferred, queueVars, retentionVars, shutdownVars>>

\* The client goes away: the fiber is interrupted and releases what it still holds.
Abort(r) ==
  /\ client[r] = "open"
  /\ Release(r)
  /\ Answer(r, "aborted")
  /\ UNCHANGED <<channelVars, accepting, writerFailure, deferred, queueVars, rejectionVars,
                 retentionVars, shutdownVars>>

-----------------------------------------------------------------------------
(* The two consumers.                                                       *)

ConsumerTakes ==
  /\ open /\ consumer = None /\ queue # <<>>
  /\ consumer' = Head(queue)
  /\ queue' = Tail(queue)
  /\ slot' = [slot EXCEPT ![Head(queue)] = "calling"]
  /\ PostCall(IngestCall(Head(queue)))
  /\ UNCHANGED <<job, outbox, worker, errors, stored, rejected, capacityVars, client, deferred,
                 rejectionVars, retentionVars, shutdownVars>>

\* Mutant: a call without an answer is reported as back pressure.
ResultOfFailureRefused(outcome) ==
  CASE outcome = "ingest-success"         -> "ok"
    [] outcome = "malformed_payload"      -> "malformed"
    [] outcome = "decompressed_too_large" -> "too_large"
    [] OTHER                              -> "refused"

\* Mutant: the worker's failure kind reaches the route unmapped.
ResultOfUnmapped(outcome) == IF outcome = "ingest-success" THEN "ok" ELSE outcome

\* responseToIngestion and the route's status for it.
ResultOf(outcome) ==
  CASE outcome = "ingest-success"         -> "ok"
    [] outcome = "malformed_payload"      -> "malformed"
    [] outcome = "decompressed_too_large" -> "too_large"
    [] OTHER                              -> "unavailable"

\* isFatalWriterResponse, or no response at all
Fatal(outcome) == outcome \in {"failed", "storage_unavailable", "maintenance_failed"}

ConsumerResumes ==
  /\ consumer # None
  /\ phase # "terminated"
  /\ LET outcome == call[IngestCall(consumer)]
     IN  /\ outcome # "pending"
         /\ IF Fatal(outcome)
            THEN MarkWriterUnavailable /\ RecordUnpersisted(consumer)
            ELSE UNCHANGED <<accepting, writerFailure, unpersisted>>
         /\ deferred' = [deferred EXCEPT ![consumer] = ResultOf(outcome)]
  /\ ReleaseCapacity
  /\ slot' = [slot EXCEPT ![consumer] = "free"]
  /\ consumer' = None
  /\ UNCHANGED <<channelVars, client, queue, rejections, rejectionsPending, recorder,
                 retentionVars, shutdownVars>>

RecorderTakes ==
  /\ open /\ recorder = None /\ rejections # <<>>
  /\ recorder' = Head(rejections)
  /\ rejections' = Tail(rejections)
  /\ PostCall(RejectCall(Head(rejections)))
  /\ UNCHANGED <<job, outbox, worker, errors, stored, rejected, capacityVars, requestVars, queueVars,
                 rejectionsPending, unpersisted, retentionVars, shutdownVars>>

RecorderResumes ==
  /\ recorder # None
  /\ phase # "terminated"
  /\ LET outcome == call[RejectCall(recorder)]
     IN  /\ outcome # "pending"
         /\ IF Fatal(outcome)
            THEN MarkWriterUnavailable /\ RecordUnpersisted(recorder)
            ELSE UNCHANGED <<accepting, writerFailure, unpersisted>>
  /\ rejectionsPending' = Less(rejectionsPending, 1)
  /\ recorder' = None
  /\ UNCHANGED <<channelVars, requests, bytes, requestVars, queueVars, rejections,
                 retentionVars, shutdownVars>>

-----------------------------------------------------------------------------
(* The retention loop forked by server.ts.                                  *)

StartRetention ==
  /\ phase = "open" /\ ~retaining /\ rounds < MaxRetentions
  /\ rounds' = rounds + 1
  /\ retaining' = TRUE
  /\ PostCall(RetentionCall(rounds + 1))
  /\ UNCHANGED <<job, outbox, worker, errors, stored, rejected, capacityVars, requestVars, queueVars,
                 rejectionVars, shutdownVars>>

RetentionResumes ==
  /\ retaining
  /\ call[RetentionCall(rounds)] # "pending"
  /\ IF Fatal(call[RetentionCall(rounds)]) THEN MarkWriterUnavailable
                                          ELSE UNCHANGED <<accepting, writerFailure>>
  /\ retaining' = FALSE
  /\ UNCHANGED <<channelVars, requests, bytes, requestVars, queueVars, rejectionVars, rounds, shutdownVars>>

-----------------------------------------------------------------------------
(* Messages, errors and response timeouts reaching the main thread.         *)

ReplyArrives ==
  /\ DeliverReply
  /\ UNCHANGED <<capacityVars, requestVars, queueVars, rejectionVars, retentionVars, shutdownVars>>

ErrorArrives ==
  /\ DeliverError
  /\ MarkWriterUnavailable
  /\ UNCHANGED <<requests, bytes, requestVars, queueVars, rejectionVars, retentionVars, shutdownVars>>

CallTimesOut(c) ==
  /\ ExpireCall(c)
  /\ UNCHANGED <<capacityVars, requestVars, queueVars, rejectionVars, retentionVars, shutdownVars>>

Worker ==
  /\ WorkerStep
  /\ UNCHANGED <<capacityVars, requestVars, queueVars, rejectionVars, retentionVars, shutdownVars>>

-----------------------------------------------------------------------------
(* Shutdown: stop admission, drain, shut the worker down, close the queues, *)
(* then the scope.  The retention fiber belongs to the outer scope, which   *)
(* interrupts it first.                                                     *)

BeginShutdown ==
  /\ phase = "open"
  /\ phase' = "draining"
  /\ accepting' = FALSE
  /\ retaining' = FALSE
  /\ UNCHANGED <<channelVars, writerFailure, requests, bytes, requestVars, queueVars, rejectionVars,
                 rounds, drainExpired, open>>

\* Mutant: an empty queue is taken for a drained one.
DrainedWhenQueueEmpty == queue = <<>>

Drained == requests = 0

\* waitUntilDrained: no request holds capacity, or drainTimeoutMs has passed.
DrainEnds ==
  /\ phase = "draining"
  /\ phase' = "draining_rejections"
  /\ drainExpired' = ~Drained
  /\ UNCHANGED <<channelVars, capacityVars, requestVars, queueVars, rejectionVars, retentionVars, open>>

\* waitUntilZero(diagnosticPending), or the timeout; then transport.shutdown.
RejectionDrainEnds ==
  /\ phase = "draining_rejections"
  /\ phase' = "closing_worker"
  /\ drainExpired' = (drainExpired \/ rejectionsPending # 0)
  /\ PostCall(ShutdownCall)
  /\ UNCHANGED <<job, outbox, worker, errors, stored, rejected, capacityVars, requestVars, queueVars,
                 rejectionVars, retentionVars, open>>

\* The shutdown call settled, its failure ignored but reported to
\* onUnavailable; Queue.shutdown drops what the queues still hold.
CloseQueues ==
  /\ phase = "closing_worker"
  /\ call[ShutdownCall] # "pending"
  /\ IF call[ShutdownCall] = "failed" THEN MarkWriterUnavailable
                                      ELSE UNCHANGED <<accepting, writerFailure>>
  /\ phase' = "closed"
  /\ open' = FALSE
  /\ queue' = <<>>
  /\ rejections' = <<>>
  /\ UNCHANGED <<channelVars, requests, bytes, requestVars, consumer, rejectionsPending, recorder,
                 unpersisted, retentionVars, drainExpired>>

\* Both consumers are interrupted, then the transport closes.
CloseScope ==
  /\ phase = "closed"
  /\ phase' = "terminated"
  /\ consumer' = None
  /\ recorder' = None
  /\ rejectionsPending' = IF recorder # None THEN Less(rejectionsPending, 1) ELSE rejectionsPending
  /\ CloseTransport
  /\ UNCHANGED <<capacityVars, requestVars, queue, rejections, unpersisted, retentionVars, drainExpired, open>>

-----------------------------------------------------------------------------
RequestStep(r) ==
  \/ RefuseHeaders(r)      \/ Reserve(r)
  \/ RefuseWriterFailed(r) \/ RefuseShuttingDown(r) \/ RefuseSaturated(r)
  \/ BodyTooLarge(r)       \/ BodyUnreadable(r)
  \/ Submit(r)             \/ SubmitDropped(r)
  \/ Resume(r)             \/ Abort(r)

Next ==
  \/ \E r \in Requests : RequestStep(r)
  \/ ConsumerTakes \/ ConsumerResumes
  \/ RecorderTakes \/ RecorderResumes
  \/ StartRetention \/ RetentionResumes
  \/ ReplyArrives \/ ErrorArrives
  \/ \E c \in Calls : CallTimesOut(c)
  \/ Worker
  \/ BeginShutdown \/ DrainEnds \/ RejectionDrainEnds \/ CloseQueues \/ CloseScope

(***************************************************************************)
(* Fibers that can run do run, delivered events are handled and timers     *)
(* fire.  Nothing is assumed of the worker, of the clients or of when a    *)
(* shutdown is asked for.                                                  *)
(***************************************************************************)
Fairness ==
  /\ WF_vars(ConsumerTakes) /\ WF_vars(ConsumerResumes)
  /\ WF_vars(RecorderTakes) /\ WF_vars(RecorderResumes)
  /\ WF_vars(ReplyArrives) /\ WF_vars(ErrorArrives)
  /\ \A c \in Calls : WF_vars(CallTimesOut(c))
  /\ \A r \in Requests : WF_vars(Resume(r))
  /\ WF_vars(DrainEnds) /\ WF_vars(RejectionDrainEnds)
  /\ WF_vars(CloseQueues) /\ WF_vars(CloseScope)

Spec     == Init /\ [][Next]_vars
FairSpec == Spec /\ Fairness

=============================================================================
