--------------------------- MODULE IngestionProofs ---------------------------
(***************************************************************************)
(* Theorems about IngestionAdmission, for every set of requests, every     *)
(* capacity and every number of worker errors and retention rounds: types  *)
(* and capacity, the contract, the queues, rejections and shutdown.        *)
(***************************************************************************)
EXTENDS IngestionProperties, FunctionTheorems, FiniteSetTheorems, TLAPS

USE DEF Less

-----------------------------------------------------------------------------
(* Types.                                                                   *)

LEMMA CallsFacts ==
  /\ ShutdownCall \in Calls
  /\ \A r \in Requests : IngestCall(r) \in Calls /\ RejectCall(r) \in Calls
  /\ \A n \in 1..MaxRetentions : RetentionCall(n) \in Calls
BY DEF Calls

\* Posting a call keeps the channel's types.
LEMMA PostCallType ==
  ASSUME ChannelTypeOK, NEW c \in Calls, PostCall(c),
         UNCHANGED <<job, outbox, worker, errors, stored, rejected>>
  PROVE  ChannelTypeOK'
BY DEF ChannelTypeOK, PostCall

\* Recording a rejection keeps the types of the rejection queue.
LEMMA RecordRejectedType ==
  ASSUME TypeOK, NEW r \in Requests, RecordRejected(r)
  PROVE  /\ rejections' \in Seq(Requests) /\ rejectionsPending' \in Nat
         /\ recorder' \in Requests \cup {None}
         /\ unpersisted' \in [Requests -> Nat]
<1>1. CASE UNCHANGED unpersisted /\ rejections' = Append(rejections, r)
                /\ rejectionsPending' = rejectionsPending + 1
  BY <1>1 DEF TypeOK, RecordRejected
<1>2. CASE RecordUnpersisted(r) /\ UNCHANGED <<rejections, rejectionsPending>>
  <2>1. unpersisted' \in [Requests -> Nat]
    BY <1>2 DEF TypeOK, RecordUnpersisted
  <2> QED
    BY <1>2, <2>1 DEF TypeOK, RecordRejected
<1> QED
  BY <1>1, <1>2 DEF RecordRejected

\* Giving a reservation back keeps the types of the capacity counters.
LEMMA ReleaseCapacityType ==
  ASSUME TypeOK, ReleaseCapacity
  PROVE  requests' \in Nat /\ bytes' \in Nat
BY AdmissionAssumption DEF TypeOK, ReleaseCapacity

LEMMA ReleaseType ==
  ASSUME TypeOK, NEW r \in Requests, Release(r)
  PROVE  /\ requests' \in Nat /\ bytes' \in Nat
         /\ slot' \in [Requests -> {"free", "reserved", "queued", "calling"}]
<1>1. CASE slot[r] = "reserved"
  BY <1>1, ReleaseCapacityType DEF TypeOK, Release
<1>2. CASE slot[r] # "reserved"
  BY <1>2 DEF TypeOK, Release
<1> QED
  BY <1>1, <1>2

\* A step of a request's HTTP fiber keeps the types.
LEMMA RequestStepType ==
  ASSUME TypeOK, NEW r \in Requests, RequestStep(r)
  PROVE  TypeOK'
<1> USE DEF TypeOK, Refusals, Results, Answer, channelVars, capacityVars, requestVars, queueVars,
            rejectionVars, retentionVars, shutdownVars
<1>0. UNCHANGED channelVars => ChannelTypeOK'
  BY DEF ChannelTypeOK
<1>1. CASE RefuseHeaders(r)
  BY <1>0, <1>1, RecordRejectedType DEF RefuseHeaders
<1>2. CASE Reserve(r)
  BY <1>0, <1>2, AdmissionAssumption DEF Reserve
<1>3. CASE RefuseWriterFailed(r)
  BY <1>0, <1>3 DEF RefuseWriterFailed
<1>4. CASE RefuseShuttingDown(r)
  BY <1>0, <1>4, RecordRejectedType DEF RefuseShuttingDown
<1>5. CASE RefuseSaturated(r)
  BY <1>0, <1>5, RecordRejectedType DEF RefuseSaturated
<1>6. CASE BodyTooLarge(r)
  BY <1>0, <1>6, RecordRejectedType, ReleaseType DEF BodyTooLarge
<1>7. CASE BodyUnreadable(r)
  BY <1>0, <1>7, ReleaseType DEF BodyUnreadable
<1>8. CASE Submit(r)
  BY <1>0, <1>8 DEF Submit
<1>9. CASE SubmitDropped(r)
  BY <1>0, <1>9, RecordRejectedType, ReleaseType DEF SubmitDropped
<1>10. CASE Resume(r)
  BY <1>0, <1>10, RecordRejectedType DEF Resume
<1>11. CASE Abort(r)
  BY <1>0, <1>11, ReleaseType DEF Abort
<1> QED
  BY <1>1, <1>2, <1>3, <1>4, <1>5, <1>6, <1>7, <1>8, <1>9, <1>10, <1>11 DEF RequestStep

\* A step of the worker keeps the channel's types.
LEMMA WorkerType ==
  ASSUME ChannelTypeOK, WorkerStep
  PROVE  ChannelTypeOK'
<1> USE CallsFacts DEF ChannelTypeOK, Handles, Answers, Replies, Responses, IngestResponses,
            DecodeFailures, MaintenanceResponses
<1>1. ASSUME NEW r \in Requests, WorkerStores(r)  PROVE ChannelTypeOK'
  BY <1>1 DEF WorkerStores
<1>2. ASSUME NEW r \in Requests, WorkerCannotStore(r)  PROVE ChannelTypeOK'
  BY <1>2 DEF WorkerCannotStore
<1>3. ASSUME NEW r \in Requests, WorkerRefuses(r)  PROVE ChannelTypeOK'
  <2>1. rejected' \in [Requests -> Nat]
    <3>1. PICK recorded \in {0, 1} : rejected' = [rejected EXCEPT ![r] = @ + recorded]
      BY <1>3 DEF WorkerRefuses
    <3> QED
      BY <3>1
  <2>2. job' \in Replies
    BY <1>3 DEF WorkerRefuses
  <2> QED
    BY <1>3, <2>1, <2>2 DEF WorkerRefuses
<1>4. ASSUME NEW r \in Requests, WorkerRecordsRejection(r)  PROVE ChannelTypeOK'
  <2>1. rejected' \in [Requests -> Nat]
    <3>1. rejected' \in {rejected, [rejected EXCEPT ![r] = @ + 1]} /\ rejected \in [Requests -> Nat]
      BY <1>4 DEF WorkerRecordsRejection, ChannelTypeOK
    <3> QED
      BY <3>1
  <2>2. job' \in Replies
    BY <1>4 DEF WorkerRecordsRejection
  <2> QED
    BY <1>4, <2>1, <2>2 DEF WorkerRecordsRejection
<1>5. ASSUME NEW n \in 1..MaxRetentions, WorkerRetains(n)  PROVE ChannelTypeOK'
  BY <1>5 DEF WorkerRetains
<1>6. CASE WorkerShutsDown
  BY <1>6 DEF WorkerShutsDown
<1>7. CASE WorkerPosts
  <2>1. job \in Replies
    BY <1>7 DEF WorkerPosts
  <2>2. outbox' \in Seq(Replies \cup {ErrorEvent})
    BY <1>7, <2>1 DEF WorkerPosts
  <2>3. inbox' \in Seq(Calls)
    BY <1>7 DEF WorkerPosts
  <2> QED
    BY <1>7, <2>2, <2>3 DEF WorkerPosts
<1>8. CASE WorkerErrs
  <2>1. outbox' \in Seq(Replies \cup {ErrorEvent})
    BY <1>8 DEF WorkerErrs
  <2>2. errors' \in Nat /\ worker' \in {"running", "closed", "dead"}
    BY <1>8 DEF WorkerErrs
  <2>3. CASE UNCHANGED <<worker, inbox, job>>
    BY <1>8, <2>1, <2>2, <2>3 DEF WorkerErrs
  <2>4. CASE inbox' = <<>> /\ job' = NoJob
    BY <1>8, <2>1, <2>2, <2>4 DEF WorkerErrs
  <2> QED
    BY <1>8, <2>3, <2>4 DEF WorkerErrs
<1> QED
  BY <1>1, <1>2, <1>3, <1>4, <1>5, <1>6, <1>7, <1>8 DEF WorkerStep

\* Delivering a message, failing the pending calls and closing keep the types.
LEMMA DeliveryType ==
  ASSUME ChannelTypeOK,
         DeliverReply \/ DeliverError \/ CloseTransport \/ \E c \in Calls : ExpireCall(c)
  PROVE  ChannelTypeOK'
<1> USE DEF ChannelTypeOK
<1>1. CASE DeliverReply
  <2>1. Head(outbox) \in Replies /\ Tail(outbox) \in Seq(Replies \cup {ErrorEvent})
    BY <1>1 DEF DeliverReply
  <2>2. call' \in [Calls -> {"idle", "pending", "failed"} \cup Responses]
    BY <1>1, <2>1 DEF DeliverReply, Replies
  <2> QED
    BY <1>1, <2>1, <2>2 DEF DeliverReply
<1>2. FailPending \in [Calls -> {"idle", "pending", "failed"} \cup Responses]
  BY DEF FailPending
<1>3. CASE DeliverError
  BY <1>2, <1>3 DEF DeliverError
<1>4. CASE CloseTransport
  BY <1>2, <1>4 DEF CloseTransport
<1>5. ASSUME NEW c \in Calls, ExpireCall(c)  PROVE ChannelTypeOK'
  BY <1>5 DEF ExpireCall
<1> QED
  BY <1>1, <1>3, <1>4, <1>5

\* A step of the consumers, the retention loop, the channel or shutdown keeps the types.
LEMMA OtherStepType ==
  ASSUME TypeOK,
         \/ ConsumerTakes \/ ConsumerResumes \/ RecorderTakes \/ RecorderResumes
         \/ StartRetention \/ RetentionResumes \/ ReplyArrives \/ ErrorArrives
         \/ \E c \in Calls : CallTimesOut(c)
         \/ Worker
         \/ BeginShutdown \/ DrainEnds \/ RejectionDrainEnds \/ CloseQueues \/ CloseScope
  PROVE  TypeOK'
<1> USE DEF channelVars, capacityVars, requestVars, queueVars, rejectionVars, retentionVars, shutdownVars
<1>0. UNCHANGED channelVars => ChannelTypeOK'
  BY DEF TypeOK, ChannelTypeOK
<1>1. CASE ConsumerTakes
  <2>1. Head(queue) \in Requests /\ Tail(queue) \in Seq(Requests)
    BY <1>1 DEF TypeOK, ConsumerTakes
  <2>2. ChannelTypeOK'
    BY <1>1, <2>1, CallsFacts, PostCallType DEF TypeOK, ConsumerTakes
  <2> QED
    BY <1>1, <2>1, <2>2 DEF TypeOK, ConsumerTakes
<1>2. CASE ConsumerResumes
  <2>1. consumer \in Requests
    BY <1>2 DEF TypeOK, ConsumerResumes
  <2>2. deferred' \in [Requests -> {"none"} \cup Results]
    BY <1>2, <2>1 DEF TypeOK, ConsumerResumes, ResultOf, Results, Refusals
  <2>3. unpersisted' \in [Requests -> Nat]
    BY <1>2, <2>1 DEF TypeOK, ConsumerResumes, RecordUnpersisted
  <2>4. accepting' \in BOOLEAN /\ writerFailure' \in BOOLEAN
    BY <1>2 DEF TypeOK, ConsumerResumes, MarkWriterUnavailable
  <2>5. slot' \in [Requests -> {"free", "reserved", "queued", "calling"}]
    BY <1>2 DEF TypeOK, ConsumerResumes
  <2>6. requests' \in Nat /\ bytes' \in Nat
    BY <1>2, ReleaseCapacityType DEF ConsumerResumes
  <2> QED
    BY <1>0, <1>2, <2>2, <2>3, <2>4, <2>5, <2>6 DEF TypeOK, ConsumerResumes
<1>3. CASE RecorderTakes
  <2>1. Head(rejections) \in Requests /\ Tail(rejections) \in Seq(Requests)
    BY <1>3 DEF TypeOK, RecorderTakes
  <2>2. ChannelTypeOK'
    BY <1>3, <2>1, CallsFacts, PostCallType DEF TypeOK, RecorderTakes
  <2> QED
    BY <1>3, <2>1, <2>2 DEF TypeOK, RecorderTakes
<1>4. CASE RecorderResumes
  <2>1. recorder \in Requests
    BY <1>4 DEF TypeOK, RecorderResumes
  <2>2. unpersisted' \in [Requests -> Nat]
    <3>1. CASE Fatal(call[RejectCall(recorder)])
      <4>1. unpersisted' = [unpersisted EXCEPT ![recorder] = @ + 1]
        BY <1>4, <3>1 DEF RecorderResumes, RecordUnpersisted
      <4> QED
        BY <2>1, <4>1 DEF TypeOK
    <3>2. CASE ~Fatal(call[RejectCall(recorder)])
      BY <1>4, <3>2 DEF TypeOK, RecorderResumes
    <3> QED
      BY <3>1, <3>2
  <2>3. accepting' \in BOOLEAN /\ writerFailure' \in BOOLEAN
    BY <1>4 DEF TypeOK, RecorderResumes, MarkWriterUnavailable
  <2>4. rejectionsPending' \in Nat
    BY <1>4 DEF TypeOK, RecorderResumes
  <2> QED
    BY <1>0, <1>4, <2>2, <2>3, <2>4 DEF TypeOK, RecorderResumes
<1>5. CASE StartRetention
  <2>1. rounds + 1 \in 1..MaxRetentions
    BY <1>5, ChannelAssumption DEF TypeOK, StartRetention
  <2>2. ChannelTypeOK'
    BY <1>5, <2>1, CallsFacts, PostCallType DEF TypeOK, StartRetention
  <2> QED
    BY <1>5, <2>1, <2>2 DEF TypeOK, StartRetention
<1>6. CASE RetentionResumes
  <2>1. accepting' \in BOOLEAN /\ writerFailure' \in BOOLEAN
    BY <1>6 DEF TypeOK, RetentionResumes, MarkWriterUnavailable
  <2> QED
    BY <1>0, <1>6, <2>1 DEF TypeOK, RetentionResumes
<1>7. CASE ReplyArrives
  BY <1>7, DeliveryType DEF TypeOK, ReplyArrives
<1>8. CASE ErrorArrives
  BY <1>8, DeliveryType DEF TypeOK, ErrorArrives, MarkWriterUnavailable
<1>9. ASSUME NEW c \in Calls, CallTimesOut(c)  PROVE TypeOK'
  BY <1>9, DeliveryType DEF TypeOK, CallTimesOut
<1>10. CASE Worker
  BY <1>10, WorkerType DEF TypeOK, Worker
<1>11. CASE BeginShutdown
  BY <1>0, <1>11 DEF TypeOK, BeginShutdown, Phases
<1>12. CASE DrainEnds
  BY <1>0, <1>12 DEF TypeOK, DrainEnds, Phases
<1>13. CASE RejectionDrainEnds
  <2>1. ChannelTypeOK'
    BY <1>13, CallsFacts, PostCallType DEF TypeOK, RejectionDrainEnds
  <2> QED
    BY <1>13, <2>1 DEF TypeOK, RejectionDrainEnds, Phases
<1>14. CASE CloseQueues
  <2>1. accepting' \in BOOLEAN /\ writerFailure' \in BOOLEAN
    BY <1>14 DEF TypeOK, CloseQueues, MarkWriterUnavailable
  <2>2. queue' \in Seq(Requests) /\ rejections' \in Seq(Requests)
    BY <1>14 DEF CloseQueues
  <2> QED
    BY <1>0, <1>14, <2>1, <2>2 DEF TypeOK, CloseQueues, Phases
<1>15. CASE CloseScope
  <2>1. ChannelTypeOK'
    BY <1>15, DeliveryType DEF TypeOK, CloseScope
  <2>2. rejectionsPending' \in Nat
    BY <1>15 DEF TypeOK, CloseScope
  <2> QED
    BY <1>15, <2>1, <2>2 DEF TypeOK, CloseScope, Phases
<1> QED
  BY <1>1, <1>2, <1>3, <1>4, <1>5, <1>6, <1>7, <1>8, <1>9, <1>10, <1>11, <1>12, <1>13, <1>14, <1>15

\* Type correctness of the ingestion model, channel and worker included.
THEOREM TypeCorrect == Spec => []TypeOK
<1>1. Init => TypeOK
  <2> SUFFICES ASSUME Init  PROVE TypeOK
    OBVIOUS
  <2>1. ChannelTypeOK
    BY DEF Init, ChannelInit, ChannelTypeOK
  <2>2. queue \in Seq(Requests) /\ rejections \in Seq(Requests)
    BY DEF Init
  <2>3. rounds \in 0..MaxRetentions
    BY ChannelAssumption DEF Init
  <2> QED
    BY <2>1, <2>2, <2>3 DEF Init, TypeOK, Phases
<1>2. TypeOK /\ [Next]_vars => TypeOK'
  <2> SUFFICES ASSUME TypeOK, [Next]_vars  PROVE TypeOK'
    OBVIOUS
  <2>1. CASE UNCHANGED vars
    BY <2>1 DEF TypeOK, ChannelTypeOK, vars, channelVars, capacityVars, requestVars, queueVars,
                rejectionVars, retentionVars, shutdownVars
  <2>2. CASE Next
    BY <2>2, RequestStepType, OtherStepType DEF Next
  <2> QED
    BY <2>1, <2>2
<1> QED
  BY <1>1, <1>2, PTL DEF Spec

-----------------------------------------------------------------------------
(* Capacity accounting.                                                     *)

LEMMA HoldersFinite == IsFiniteSet(Holders) /\ Cardinality(Holders) \in Nat
<1>1. Holders \in SUBSET Requests
  BY DEF Holders
<1> QED
  BY <1>1, FS_Subset, FS_CardinalityType, AdmissionAssumption

LEMMA Products ==
  ASSUME NEW n \in Nat, NEW m \in Nat
  PROVE  /\ (n + 1) * m = n * m + m
         /\ n # 0 => (n - 1) * m = n * m - m /\ n * m >= m
OBVIOUS

\* Reserving adds one holder and one request's bytes.
LEMMA HolderAdded ==
  ASSUME TypeOK, CapacityAccounting, NEW r \in Requests, slot[r] = "free",
         slot' = [slot EXCEPT ![r] = "reserved"],
         Admits, requests' = requests + 1, bytes' = bytes + MaxCompressedBytes
  PROVE  CapacityAccounting'
<1>1. Holders' = Holders \cup {r}
  BY DEF Holders, TypeOK
<1>2. r \notin Holders
  BY DEF Holders
<1>3. Cardinality(Holders)' = Cardinality(Holders) + 1
  BY <1>1, <1>2, HoldersFinite, FS_AddElement
<1>4. bytes' = requests' * MaxCompressedBytes
  BY Products, AdmissionAssumption DEF TypeOK, CapacityAccounting
<1> QED
  BY <1>3, <1>4, AdmissionAssumption DEF TypeOK, CapacityAccounting, Admits

\* Releasing a held slot takes one holder and its bytes away, without a clamp at zero.
LEMMA HolderRemoved ==
  ASSUME TypeOK, CapacityAccounting, NEW r \in Requests, slot[r] # "free",
         slot' = [slot EXCEPT ![r] = "free"], ReleaseCapacity
  PROVE  CapacityAccounting'
<1>1. Holders' = Holders \ {r} /\ r \in Holders
  BY DEF Holders, TypeOK
<1>2. Cardinality(Holders)' = Cardinality(Holders) - 1
  BY <1>1, HoldersFinite, FS_RemoveElement
<1>3. requests # 0
  <2>1. Cardinality(Holders) # 0
    BY <1>1, HoldersFinite, FS_EmptySet
  <2> QED
    BY <2>1 DEF CapacityAccounting
<1>4. requests' = requests - 1
  BY <1>3 DEF TypeOK, ReleaseCapacity
<1>5. bytes >= MaxCompressedBytes /\ bytes - MaxCompressedBytes = requests' * MaxCompressedBytes
  BY <1>3, <1>4, Products, AdmissionAssumption DEF TypeOK, CapacityAccounting
<1>6. bytes' = bytes - MaxCompressedBytes
  BY <1>5, AdmissionAssumption DEF TypeOK, ReleaseCapacity
<1>7. requests' = Cardinality(Holders)' /\ requests' <= RequestCapacity
  BY <1>2, <1>4, AdmissionAssumption DEF TypeOK, CapacityAccounting
<1>8. bytes' = requests' * MaxCompressedBytes
  BY <1>5, <1>6
<1>9. bytes' <= ByteCapacity
  BY <1>6, AdmissionAssumption DEF TypeOK, CapacityAccounting
<1> QED
  BY <1>7, <1>8, <1>9 DEF CapacityAccounting

\* Any other step leaves the holders and the counters alone.
LEMMA HoldersKept ==
  ASSUME CapacityAccounting, UNCHANGED <<requests, bytes>>,
         \A r \in Requests : slot'[r] = "free" <=> slot[r] = "free"
  PROVE  CapacityAccounting'
<1>1. Holders' = Holders
  BY DEF Holders
<1> QED
  BY <1>1 DEF CapacityAccounting

\* SlotInv and the accounting are preserved together by a request's fiber.
LEMMA RequestStepCapacity ==
  ASSUME TypeOK, SlotInv, CapacityAccounting, NEW r \in Requests, RequestStep(r)
  PROVE  SlotInv' /\ CapacityAccounting'
<1> USE DEF Answer, capacityVars, queueVars
<1>1. CASE \/ RefuseHeaders(r) \/ RefuseWriterFailed(r) \/ RefuseShuttingDown(r)
           \/ RefuseSaturated(r) \/ Resume(r)
  <2>1. UNCHANGED <<slot, queue, consumer, requests, bytes>>
    BY <1>1 DEF RefuseHeaders, RefuseWriterFailed, RefuseShuttingDown, RefuseSaturated, Resume
  <2>2. \A q \in Requests : client'[q] = "idle" => client[q] = "idle"
    BY <1>1 DEF TypeOK, Results, Refusals, RefuseHeaders, RefuseWriterFailed, RefuseShuttingDown,
                RefuseSaturated, Resume
  <2> QED
    BY <2>1, <2>2, HoldersKept DEF SlotInv
<1>2. CASE Reserve(r)
  <2>1. slot[r] = "free"
    BY <1>2 DEF Reserve, Arrives, SlotInv
  <2>2. CapacityAccounting'
    BY <1>2, <2>1, HolderAdded DEF Reserve
  <2>3. SlotInv'
    BY <1>2, <2>1 DEF Reserve, SlotInv, TypeOK
  <2> QED
    BY <2>2, <2>3
<1>3. CASE BodyTooLarge(r) \/ BodyUnreadable(r) \/ SubmitDropped(r) \/ Abort(r)
  <2>1. /\ Release(r) /\ UNCHANGED <<queue, consumer>>
        /\ \/ client' = [client EXCEPT ![r] = "refused"]
           \/ client' = [client EXCEPT ![r] = "unavailable"]
           \/ client' = [client EXCEPT ![r] = "aborted"]
    BY <1>3 DEF BodyTooLarge, BodyUnreadable, SubmitDropped, Abort
  <2>2. CASE slot[r] = "reserved"
    <3>1. slot' = [slot EXCEPT ![r] = "free"] /\ ReleaseCapacity
      BY <2>1, <2>2 DEF Release
    <3>2. CapacityAccounting'
      BY <2>2, <3>1, HolderRemoved
    <3>3. SlotInv'
      BY <2>1, <2>2, <3>1 DEF SlotInv, TypeOK
    <3> QED
      BY <3>2, <3>3
  <2>3. CASE slot[r] # "reserved"
    <3>1. UNCHANGED <<slot, requests, bytes>>
      BY <2>1, <2>3 DEF Release
    <3> QED
      BY <2>1, <3>1, HoldersKept DEF SlotInv, TypeOK
  <2> QED
    BY <2>2, <2>3
<1>4. CASE Submit(r)
  <2>1. slot[r] = "reserved" /\ slot' = [slot EXCEPT ![r] = "queued"] /\ UNCHANGED <<client, consumer>>
    BY <1>4 DEF Submit, ReadsBody
  <2>2. CapacityAccounting'
    BY <1>4, <2>1, HoldersKept DEF Submit, TypeOK
  <2>3. queue' = Append(queue, r) /\ \A i \in DOMAIN queue : queue[i] # r
    BY <1>4, <2>1 DEF Submit, SlotInv
  <2>4. \A i \in DOMAIN queue' :
          (i \in DOMAIN queue /\ queue'[i] = queue[i]) \/ (i = Len(queue) + 1 /\ queue'[i] = r)
    <3>1. queue \in Seq(Requests)
      BY DEF TypeOK
    <3>2. Len(queue') = Len(queue) + 1 /\ DOMAIN queue = 1..Len(queue) /\ DOMAIN queue' = 1..Len(queue')
      BY <2>3, <3>1
    <3>3. \A i \in 1..Len(queue) : queue'[i] = queue[i]
      BY <2>3, <3>1
    <3>4. queue'[Len(queue) + 1] = r
      BY <2>3, <3>1
    <3>5. Len(queue) \in Nat
      BY <3>1
    <3>6. \A i \in DOMAIN queue' : i \in 1..Len(queue) \/ i = Len(queue) + 1
      BY <3>2, <3>5
    <3> QED
      BY <3>2, <3>3, <3>4, <3>6
  <2>5. \A i \in DOMAIN queue' : slot'[queue'[i]] = "queued"
    BY <2>1, <2>3, <2>4 DEF SlotInv, TypeOK
  <2>6. \A i, j \in DOMAIN queue' : queue'[i] = queue'[j] => i = j
    BY <2>3, <2>4 DEF SlotInv
  <2>7. \A q \in Requests : client'[q] = "idle" => slot'[q] = "free"
    BY <2>1 DEF SlotInv, TypeOK
  <2>8. consumer' # None => slot'[consumer'] = "calling"
    BY <2>1 DEF SlotInv, TypeOK
  <2> QED
    BY <2>2, <2>5, <2>6, <2>7, <2>8 DEF SlotInv
<1> QED
  BY <1>1, <1>2, <1>3, <1>4 DEF RequestStep

\* ... and by every other step; only the consumer's two steps touch the slots.
LEMMA OtherStepCapacity ==
  ASSUME TypeOK, SlotInv, CapacityAccounting,
         \/ ConsumerTakes \/ ConsumerResumes \/ RecorderTakes \/ RecorderResumes
         \/ StartRetention \/ RetentionResumes \/ ReplyArrives \/ ErrorArrives
         \/ \E c \in Calls : CallTimesOut(c)
         \/ Worker
         \/ BeginShutdown \/ DrainEnds \/ RejectionDrainEnds \/ CloseQueues \/ CloseScope
  PROVE  SlotInv' /\ CapacityAccounting'
<1> USE DEF capacityVars, requestVars, queueVars
<1>1. CASE ConsumerTakes
  <2> DEFINE r == Head(queue)
  <2>1. /\ queue # <<>> /\ queue' = Tail(queue) /\ consumer' = r /\ consumer = None
        /\ slot' = [slot EXCEPT ![r] = "calling"] /\ UNCHANGED <<client, requests, bytes>>
    BY <1>1 DEF ConsumerTakes
  <2>2. 1 \in DOMAIN queue /\ r = queue[1] /\ r \in Requests /\ slot[r] = "queued"
    BY <2>1 DEF SlotInv, TypeOK
  <2>3. \A i \in DOMAIN queue' : i + 1 \in DOMAIN queue /\ queue'[i] = queue[i + 1] /\ i \in Nat \ {0}
    BY <2>1 DEF TypeOK
  <2> HIDE DEF r
  <2>4. CapacityAccounting'
    BY <2>1, <2>2, HoldersKept DEF TypeOK
  <2>5. \A i \in DOMAIN queue' : queue'[i] # r
    BY <2>2, <2>3 DEF SlotInv
  <2>6. \A i \in DOMAIN queue' : slot'[queue'[i]] = "queued"
    BY <2>1, <2>3, <2>5 DEF SlotInv, TypeOK
  <2>7. \A i, j \in DOMAIN queue' : queue'[i] = queue'[j] => i = j
    BY <2>3 DEF SlotInv
  <2>8. \A q \in Requests : client'[q] = "idle" => slot'[q] = "free"
    BY <2>1, <2>2 DEF SlotInv, TypeOK
  <2>9. slot'[consumer'] = "calling"
    BY <2>1, <2>2 DEF TypeOK
  <2> QED
    BY <2>4, <2>6, <2>7, <2>8, <2>9 DEF SlotInv
<1>2. CASE ConsumerResumes
  <2>1. /\ consumer \in Requests /\ slot[consumer] = "calling" /\ consumer' = None
        /\ slot' = [slot EXCEPT ![consumer] = "free"] /\ ReleaseCapacity /\ UNCHANGED <<client, queue>>
    BY <1>2 DEF ConsumerResumes, SlotInv, TypeOK
  <2>2. CapacityAccounting'
    BY <2>1, HolderRemoved
  <2> QED
    BY <2>1, <2>2 DEF SlotInv, TypeOK
<1>3. CASE \/ RecorderTakes \/ RecorderResumes \/ StartRetention \/ RetentionResumes
           \/ ReplyArrives \/ ErrorArrives \/ (\E c \in Calls : CallTimesOut(c)) \/ Worker
           \/ BeginShutdown \/ DrainEnds \/ RejectionDrainEnds
  <2>1. UNCHANGED <<client, slot, queue, consumer, requests, bytes>>
    BY <1>3 DEF RecorderTakes, RecorderResumes, StartRetention, RetentionResumes, ReplyArrives,
                ErrorArrives, CallTimesOut, Worker, BeginShutdown, DrainEnds, RejectionDrainEnds
  <2> QED
    BY <2>1, HoldersKept DEF SlotInv
<1>4. CASE CloseQueues \/ CloseScope
  <2>1. /\ UNCHANGED <<client, slot, requests, bytes>>
        /\ UNCHANGED queue \/ queue' = <<>>
        /\ UNCHANGED consumer \/ consumer' = None
    BY <1>4 DEF CloseQueues, CloseScope
  <2> QED
    BY <2>1, HoldersKept DEF SlotInv
<1> QED
  BY <1>1, <1>2, <1>3, <1>4

\* Where reservations are, and how many there are, for every instance.
LEMMA SlotsCorrect == Spec => [](SlotInv /\ CapacityAccounting)
<1>1. Init => SlotInv /\ CapacityAccounting
  <2> SUFFICES ASSUME Init  PROVE SlotInv /\ CapacityAccounting
    OBVIOUS
  <2>1. Holders = {}
    BY DEF Init, Holders
  <2> QED
    BY <2>1, FS_EmptySet, AdmissionAssumption DEF Init, SlotInv, CapacityAccounting
<1>2. TypeOK /\ SlotInv /\ CapacityAccounting /\ [Next]_vars => SlotInv' /\ CapacityAccounting'
  <2> SUFFICES ASSUME TypeOK, SlotInv, CapacityAccounting, [Next]_vars
               PROVE  SlotInv' /\ CapacityAccounting'
    OBVIOUS
  <2>1. CASE UNCHANGED vars
    BY <2>1, HoldersKept DEF SlotInv, vars, capacityVars, requestVars, queueVars
  <2>2. CASE Next
    BY <2>2, RequestStepCapacity, OtherStepCapacity DEF Next
  <2> QED
    BY <2>1, <2>2
<1> QED
  BY <1>1, <1>2, TypeCorrect, PTL DEF Spec

\* The capacity counters of admission.ts are exactly the requests holding a
\* slot and stay within the configured bounds.
THEOREM CapacityCorrect == Spec => []CapacityAccounting
BY SlotsCorrect, PTL

-----------------------------------------------------------------------------
(* Sequences and calls.                                                     *)

LEMMA AppendFacts ==
  ASSUME NEW S, NEW s \in Seq(S), NEW e \in S
  PROVE  /\ DOMAIN Append(s, e) = 1..(Len(s) + 1) /\ DOMAIN s = 1..Len(s) /\ Len(s) \in Nat
         /\ \A i \in DOMAIN s : Append(s, e)[i] = s[i]
         /\ Append(s, e)[Len(s) + 1] = e
         /\ \A i \in DOMAIN Append(s, e) : i \in DOMAIN s \/ i = Len(s) + 1
<1>1. DOMAIN Append(s, e) = 1..(Len(s) + 1) /\ DOMAIN s = 1..Len(s) /\ Len(s) \in Nat
  OBVIOUS
<1>2. \A i \in DOMAIN s : Append(s, e)[i] = s[i]
  OBVIOUS
<1>3. Append(s, e)[Len(s) + 1] = e
  OBVIOUS
<1>4. \A i \in DOMAIN Append(s, e) : i \in DOMAIN s \/ i = Len(s) + 1
  BY <1>1
<1> QED
  BY <1>1, <1>2, <1>3, <1>4

LEMMA TailFacts ==
  ASSUME NEW S, NEW s \in Seq(S), s # <<>>
  PROVE  /\ 1 \in DOMAIN s /\ Head(s) = s[1]
         /\ \A i \in DOMAIN Tail(s) :
              /\ i + 1 \in DOMAIN s /\ Tail(s)[i] = s[i + 1]
              /\ i \in Nat /\ i + 1 # 1
OBVIOUS

LEMMA CallsDistinct ==
  ASSUME NEW r \in Requests
  PROVE  /\ IngestCall(r) \in Calls /\ IngestCall(r) # NoCall /\ IngestCall(r) # ShutdownCall
         /\ \A q \in Requests : IngestCall(q) = IngestCall(r) => q = r
         /\ \A q \in Requests : RejectCall(q) # IngestCall(r)
         /\ \A n \in 1..MaxRetentions : RetentionCall(n) # IngestCall(r)
BY DEF Calls, IngestCall, RejectCall, RetentionCall, ShutdownCall, NoCall

-----------------------------------------------------------------------------
(* The channel: where an ingest call is.                                    *)

\* The part of ChannelInv about one request.
Located(r) ==
  /\ stored[r] \in {0, 1}
  /\ \A i, j \in DOMAIN inbox : inbox[i] = IngestCall(r) /\ inbox[j] = IngestCall(r) => i = j
  /\ \A i, j \in DOMAIN outbox :
       outbox[i].call = IngestCall(r) /\ outbox[j].call = IngestCall(r) => i = j
  /\ Posted(r) => Unsettled(r) /\ stored[r] = 0 /\ ~Executed(r) /\ ~Replied(r)
  /\ Executed(r) => Unsettled(r) /\ stored[r] = Committed(job.response) /\ ~Replied(r)
  /\ \A i \in DOMAIN outbox :
       outbox[i].call = IngestCall(r) => Unsettled(r) /\ stored[r] = Committed(outbox[i].response)
  /\ call[IngestCall(r)] = "idle" => stored[r] = 0
  /\ call[IngestCall(r)] \in Responses => stored[r] = Committed(call[IngestCall(r)])

\* Settling or expiring calls without touching the channel keeps a call located.
LEMMA LocatedSettle ==
  ASSUME ChannelTypeOK, NEW r \in Requests, Located(r),
         UNCHANGED <<inbox, job, outbox, stored>>,
         \/ call'[IngestCall(r)] = call[IngestCall(r)]
         \/ call[IngestCall(r)] = "pending" /\ call'[IngestCall(r)] = "failed"
  PROVE  Located(r)'
BY DEF Located, Posted, Replied, Executed, Unsettled, Committed, Responses, IngestResponses,
       DecodeFailures, MaintenanceResponses

\* Posting a call keeps every call located, provided an ingest call is posted once.
LEMMA LocatedPost ==
  ASSUME ChannelTypeOK, NEW r \in Requests, Located(r), NEW c \in Calls, PostCall(c),
         c = IngestCall(r) => call[c] = "idle",
         UNCHANGED <<job, outbox, worker, errors, stored, rejected>>
  PROVE  Located(r)'
<1> USE CallsDistinct
<1>0. inbox \in Seq(Calls) /\ call \in [Calls -> {"idle", "pending", "failed"} \cup Responses]
  BY DEF ChannelTypeOK
<1>1. CASE c # IngestCall(r)
  <2>1. UNCHANGED call[IngestCall(r)]
    BY <1>0, <1>1 DEF PostCall
  <2>2. \A i \in DOMAIN inbox' : inbox'[i] = IngestCall(r) => i \in DOMAIN inbox /\ inbox'[i] = inbox[i]
    BY <1>0, <1>1, AppendFacts DEF PostCall
  <2> QED
    BY <2>1, <2>2 DEF Located, Posted, Replied, Executed, Unsettled, Committed
<1>2. CASE c = IngestCall(r)
  <2>1. call[IngestCall(r)] = "idle" /\ call'[IngestCall(r)] = "pending"
    BY <1>0, <1>2 DEF PostCall
  <2>2. ~Posted(r) /\ ~Executed(r) /\ ~Replied(r) /\ stored[r] = 0
    BY <2>1 DEF Located, Unsettled, Replied
  <2>3. \A i \in DOMAIN inbox' : inbox'[i] = IngestCall(r) => i = Len(inbox) + 1
    BY <1>0, <2>2, AppendFacts DEF PostCall, Posted
  <2>4. ~Executed(r)' /\ ~Replied(r)'
    BY <2>2 DEF Executed, Replied
  <2>5. "pending" \notin Responses
    BY DEF Responses, IngestResponses, DecodeFailures, MaintenanceResponses
  <2> QED
    BY <2>1, <2>2, <2>3, <2>4, <2>5 DEF Located, Posted, Unsettled, Replied
<1> QED
  BY <1>1, <1>2

\* A reply that arrives settles its call, if the caller still waits, and leaves the channel.
LEMMA LocatedReply ==
  ASSUME ChannelTypeOK, NEW r \in Requests, Located(r), DeliverReply
  PROVE  Located(r)'
<1> DEFINE reply == Head(outbox)
<1>0. /\ outbox \in Seq(Replies \cup {ErrorEvent}) /\ call \in [Calls -> {"idle", "pending", "failed"} \cup Responses]
      /\ outbox # <<>> /\ outbox' = Tail(outbox) /\ UNCHANGED <<inbox, job, stored>>
  BY DEF ChannelTypeOK, DeliverReply
<1>1. 1 \in DOMAIN outbox /\ reply = outbox[1] /\ reply \in Replies
  BY <1>0, TailFacts DEF DeliverReply
<1>2. \A i \in DOMAIN outbox' : i + 1 \in DOMAIN outbox /\ outbox'[i] = outbox[i + 1] /\ i \in Nat /\ i + 1 # 1
  BY <1>0, TailFacts
<1>3. call' = IF call[reply.call] = "pending" THEN [call EXCEPT ![reply.call] = reply.response] ELSE call
  BY DEF DeliverReply
<1> HIDE DEF reply
<1>4. CASE reply.call # IngestCall(r)
  <2>1. UNCHANGED call[IngestCall(r)]
    BY <1>0, <1>3, <1>4, CallsDistinct
  <2>2. Replied(r)' => Replied(r)
    BY <1>2 DEF Replied
  <2> QED
    BY <1>0, <1>2, <2>1, <2>2 DEF Located, Posted, Executed, Unsettled, Committed
<1>5. CASE reply.call = IngestCall(r)
  <2>1. Replied(r) /\ Unsettled(r) /\ stored[r] = Committed(reply.response)
    BY <1>1, <1>5 DEF Located, Replied
  <2>2. ~Posted(r)' /\ ~Executed(r)'
    BY <1>0, <2>1 DEF Located, Posted, Executed
  <2>3. ~Replied(r)'
    BY <1>1, <1>2, <1>5 DEF Located, Replied
  <2>4. call'[IngestCall(r)] = reply.response \/ call'[IngestCall(r)] = "failed"
    BY <1>0, <1>3, <1>5, <2>1, CallsDistinct DEF Unsettled
  <2>5. reply.response \in Responses /\ "failed" \notin Responses /\ "idle" \notin Responses
    BY <1>1 DEF Replies, Responses, IngestResponses, DecodeFailures, MaintenanceResponses
  <2> QED
    BY <1>0, <2>1, <2>2, <2>3, <2>4, <2>5 DEF Located, Replied, Posted, Committed
<1> QED
  BY <1>4, <1>5

\* An error event fails the pending calls; closing also empties the channel.
LEMMA LocatedFail ==
  ASSUME ChannelTypeOK, NEW r \in Requests, Located(r), DeliverError \/ CloseTransport
  PROVE  Located(r)'
<1>0. /\ outbox \in Seq(Replies \cup {ErrorEvent}) /\ call' = FailPending /\ UNCHANGED stored
      /\ NoJob.call # IngestCall(r)
  BY CallsDistinct DEF ChannelTypeOK, DeliverError, CloseTransport, NoJob
<1>1. \/ call'[IngestCall(r)] = call[IngestCall(r)]
      \/ call[IngestCall(r)] = "pending" /\ call'[IngestCall(r)] = "failed"
  BY <1>0, CallsDistinct DEF FailPending, ChannelTypeOK
<1>2. "failed" \notin Responses /\ "idle" # "failed"
  BY DEF Responses, IngestResponses, DecodeFailures, MaintenanceResponses
<1>3. CASE DeliverError
  <2>1. /\ outbox # <<>> /\ outbox' = Tail(outbox) /\ UNCHANGED <<inbox, job>>
    BY <1>3 DEF DeliverError
  <2>2. \A i \in DOMAIN outbox' : i + 1 \in DOMAIN outbox /\ outbox'[i] = outbox[i + 1] /\ i \in Nat
    BY <1>0, <2>1, TailFacts
  <2>3. Replied(r)' => Replied(r)
    BY <2>2 DEF Replied
  <2>4. Unsettled(r) => Unsettled(r)'
    BY <1>1 DEF Unsettled
  <2> QED
    BY <1>0, <1>1, <1>2, <2>1, <2>2, <2>3, <2>4 DEF Located, Posted, Executed, Committed
<1>4. CASE CloseTransport
  <2>1. inbox' = <<>> /\ outbox' = <<>> /\ job' = NoJob
    BY <1>4 DEF CloseTransport
  <2> QED
    BY <1>0, <1>1, <1>2, <2>1 DEF Located, Posted, Executed, Replied, Committed
<1> QED
  BY <1>3, <1>4

\* Handling a message moves its call from the inbox into execution.
LEMMA LocatedHandle ==
  ASSUME ChannelTypeOK, NEW r \in Requests, Located(r), NEW c \in Calls, NEW response \in Responses,
         Handles(c), Answers(c, response),
         c # IngestCall(r) => UNCHANGED stored[r],
         c = IngestCall(r) => stored'[r] = Committed(response)
  PROVE  Located(r)'
<1>0. /\ inbox \in Seq(Calls) /\ inbox # <<>> /\ inbox' = Tail(inbox) /\ Head(inbox) = c
      /\ UNCHANGED <<call, outbox>> /\ job'.call = c /\ job'.response = response
      /\ job = NoJob
  BY DEF ChannelTypeOK, Handles, Answers
<1>1. 1 \in DOMAIN inbox /\ c = inbox[1]
  BY <1>0, TailFacts
<1>2. \A i \in DOMAIN inbox' : i + 1 \in DOMAIN inbox /\ inbox'[i] = inbox[i + 1] /\ i \in Nat /\ i + 1 # 1
  BY <1>0, TailFacts
<1>3. CASE c # IngestCall(r)
  <2>1. (Posted(r)' => Posted(r)) /\ ~Executed(r)'
    BY <1>0, <1>2, <1>3 DEF Posted, Executed
  <2> QED
    BY <1>0, <1>2, <1>3, <2>1 DEF Located, Unsettled, Replied, Committed
<1>4. CASE c = IngestCall(r)
  <2>1. Posted(r) /\ Unsettled(r) /\ ~Replied(r)
    BY <1>1, <1>4 DEF Located, Posted
  <2>2. ~Posted(r)'
    BY <1>1, <1>2, <1>4 DEF Located, Posted
  <2>3. Unsettled(r)' /\ ~Replied(r)'
    BY <1>0, <2>1 DEF Unsettled, Replied
  <2>4. stored'[r] = Committed(response) /\ stored'[r] \in {0, 1}
    BY <1>4 DEF Committed
  <2>5. call'[IngestCall(r)] \notin Responses /\ call'[IngestCall(r)] # "idle"
    BY <2>3 DEF Unsettled, Responses, IngestResponses, DecodeFailures, MaintenanceResponses
  <2>6. \A i, j \in DOMAIN inbox' : inbox'[i] = IngestCall(r) /\ inbox'[j] = IngestCall(r) => i = j
    BY <2>2 DEF Posted
  <2>7. \A i \in DOMAIN outbox' : outbox'[i].call # IngestCall(r)
    BY <2>3 DEF Replied
  <2> QED
    BY <1>0, <2>2, <2>3, <2>4, <2>5, <2>6, <2>7 DEF Located
<1> QED
  BY <1>3, <1>4

\* Answering moves a call from execution to the outbox; an error event may lose it.
LEMMA LocatedPostOrError ==
  ASSUME ChannelTypeOK, NEW r \in Requests, Located(r), WorkerPosts \/ WorkerErrs
  PROVE  Located(r)'
<1>0. /\ outbox \in Seq(Replies \cup {ErrorEvent}) /\ UNCHANGED <<call, stored>>
      /\ NoJob.call # IngestCall(r) /\ ErrorEvent.call # IngestCall(r)
      /\ ErrorEvent \in Replies \cup {ErrorEvent}
      /\ UNCHANGED inbox \/ inbox' = <<>>
  BY CallsDistinct DEF ChannelTypeOK, WorkerPosts, WorkerErrs, NoJob, ErrorEvent
<1>1. (Posted(r)' => Posted(r)) /\ (Unsettled(r)' <=> Unsettled(r))
  BY <1>0 DEF Posted, Unsettled
<1>2. \A i, j \in DOMAIN inbox' : inbox'[i] = IngestCall(r) /\ inbox'[j] = IngestCall(r) => i = j
  BY <1>0 DEF Located
<1>3. CASE WorkerPosts
  <2>1. job \in Replies /\ outbox' = Append(outbox, job) /\ job' = NoJob
    BY <1>3 DEF WorkerPosts, ChannelTypeOK
  <2>2. ~Executed(r)'
    BY <1>0, <2>1 DEF Executed
  <2>3. \A i \in DOMAIN outbox' :
          (i \in DOMAIN outbox /\ outbox'[i] = outbox[i]) \/ (i = Len(outbox) + 1 /\ outbox'[i] = job)
    BY <1>0, <2>1, AppendFacts
  <2>4. CASE job.call # IngestCall(r)
    <3>1. Replied(r)' => Replied(r)
      BY <2>3, <2>4 DEF Replied
    <3> QED
      BY <1>0, <1>1, <1>2, <2>2, <2>3, <2>4, <3>1 DEF Located, Committed
  <2>5. CASE job.call = IngestCall(r)
    <3>1. Executed(r) /\ Unsettled(r) /\ stored[r] = Committed(job.response) /\ ~Replied(r) /\ ~Posted(r)
      BY <2>5 DEF Located, Executed
    <3>2. \A i \in DOMAIN outbox' : outbox'[i].call = IngestCall(r) => i = Len(outbox) + 1 /\ outbox'[i] = job
      BY <2>3, <3>1 DEF Replied
    <3> QED
      BY <1>0, <1>1, <1>2, <2>2, <3>1, <3>2 DEF Located, Committed
  <2> QED
    BY <2>4, <2>5
<1>4. CASE WorkerErrs
  <2>1. outbox' = Append(outbox, ErrorEvent) /\ (UNCHANGED job \/ job' = NoJob)
    BY <1>4 DEF WorkerErrs
  <2>2. Executed(r)' => Executed(r) /\ UNCHANGED job
    BY <1>0, <2>1 DEF Executed
  <2>3. \A i \in DOMAIN outbox' : outbox'[i].call = IngestCall(r) => i \in DOMAIN outbox /\ outbox'[i] = outbox[i]
    BY <1>0, <2>1, AppendFacts
  <2>4. Replied(r)' => Replied(r)
    BY <2>3 DEF Replied
  <2> QED
    BY <1>0, <1>1, <1>2, <2>2, <2>3, <2>4 DEF Located, Committed
<1> QED
  BY <1>3, <1>4

\* Every step of the worker keeps every ingest call located.
LEMMA LocatedWorker ==
  ASSUME ChannelTypeOK, NEW r \in Requests, Located(r), WorkerStep
  PROVE  Located(r)'
<1> USE CallsDistinct DEF Responses, IngestResponses, DecodeFailures, MaintenanceResponses
<1>0. stored \in [Requests -> Nat]
  BY DEF ChannelTypeOK
<1>1. ASSUME NEW q \in Requests, WorkerStores(q)  PROVE Located(r)'
  <2>1. q = r => stored[r] = 0
    <3>1. inbox \in Seq(Calls) /\ inbox # <<>> /\ Head(inbox) = IngestCall(q)
      BY <1>1 DEF WorkerStores, Handles, ChannelTypeOK
    <3>2. q = r => Posted(r)
      BY <3>1, TailFacts DEF Posted
    <3> QED
      BY <3>2 DEF Located
  <2>2. IngestCall(q) = IngestCall(r) => stored'[r] = Committed("ingest-success")
    BY <1>0, <1>1, <2>1 DEF WorkerStores, Committed
  <2>3. IngestCall(q) # IngestCall(r) => UNCHANGED stored[r]
    BY <1>0, <1>1 DEF WorkerStores
  <2> QED
    BY <1>1, <2>2, <2>3, LocatedHandle DEF WorkerStores
<1>2. ASSUME NEW q \in Requests, NEW response \in IngestResponses \ {"ingest-success"},
             Handles(IngestCall(q)), Answers(IngestCall(q), response), UNCHANGED stored
      PROVE  Located(r)'
  <2>1. q = r => stored[r] = 0
    <3>1. inbox \in Seq(Calls) /\ inbox # <<>> /\ Head(inbox) = IngestCall(q)
      BY <1>2 DEF Handles, ChannelTypeOK
    <3>2. q = r => Posted(r)
      BY <3>1, TailFacts DEF Posted
    <3> QED
      BY <3>2 DEF Located
  <2>2. IngestCall(q) = IngestCall(r) => stored'[r] = Committed(response)
    BY <1>2, <2>1 DEF Committed
  <2> QED
    BY <1>2, <2>2, LocatedHandle
<1>3. ASSUME NEW q \in Requests, WorkerCannotStore(q) \/ WorkerRefuses(q)  PROVE Located(r)'
  BY <1>2, <1>3 DEF WorkerCannotStore, WorkerRefuses
<1>4. ASSUME NEW c \in Calls, c # IngestCall(r), NEW response \in Responses,
             Handles(c), Answers(c, response), UNCHANGED stored
      PROVE  Located(r)'
  BY <1>4, LocatedHandle
<1>5. ASSUME NEW q \in Requests, WorkerRecordsRejection(q)  PROVE Located(r)'
  BY <1>4, <1>5, CallsFacts DEF WorkerRecordsRejection
<1>6. ASSUME NEW n \in 1..MaxRetentions, WorkerRetains(n)  PROVE Located(r)'
  BY <1>4, <1>6, CallsFacts DEF WorkerRetains
<1>7. CASE WorkerShutsDown
  BY <1>4, <1>7, CallsFacts DEF WorkerShutsDown
<1> QED
  BY <1>1, <1>3, <1>5, <1>6, <1>7, LocatedPostOrError DEF WorkerStep

\* Any step of the model keeps every ingest call located.
LEMMA ChannelStep ==
  ASSUME TypeOK, SlotInv, ReplyInv, ChannelInv, [Next]_vars
  PROVE  ChannelInv'
<1> SUFFICES ASSUME NEW r \in Requests  PROVE Located(r)'
  BY DEF ChannelInv, Located
<1>0. ChannelTypeOK /\ Located(r)
  BY DEF TypeOK, ChannelInv, Located
<1>1. ASSUME UNCHANGED channelVars  PROVE Located(r)'
  BY <1>0, <1>1, LocatedSettle DEF channelVars
<1>2. ASSUME NEW q \in Requests, RequestStep(q)  PROVE Located(r)'
  <2>1. UNCHANGED channelVars
    BY <1>2 DEF RequestStep, RefuseHeaders, Reserve, RefuseWriterFailed, RefuseShuttingDown,
                RefuseSaturated, BodyTooLarge, BodyUnreadable, Submit, SubmitDropped, Resume, Abort
  <2> QED
    BY <1>1, <2>1
<1>3. CASE ConsumerTakes
  <2>1. queue \in Seq(Requests) /\ queue # <<>>
    BY <1>3 DEF ConsumerTakes, TypeOK
  <2>2. Head(queue) \in Requests /\ slot[Head(queue)] = "queued"
    BY <2>1, TailFacts DEF SlotInv
  <2>3. call[IngestCall(Head(queue))] = "idle"
    BY <2>2 DEF ReplyInv
  <2> QED
    BY <1>0, <1>3, <2>2, <2>3, CallsDistinct, LocatedPost DEF ConsumerTakes
<1>4. CASE RecorderTakes
  <2>1. Head(rejections) \in Requests
    BY <1>4 DEF RecorderTakes, TypeOK
  <2> QED
    BY <1>0, <1>4, <2>1, CallsFacts, CallsDistinct, LocatedPost DEF RecorderTakes
<1>5. CASE StartRetention
  <2>1. rounds + 1 \in 1..MaxRetentions
    BY <1>5, ChannelAssumption DEF TypeOK, StartRetention
  <2> QED
    BY <1>0, <1>5, <2>1, CallsFacts, CallsDistinct, LocatedPost DEF StartRetention
<1>6. CASE RejectionDrainEnds
  BY <1>0, <1>6, CallsFacts, CallsDistinct, LocatedPost DEF RejectionDrainEnds
<1>7. CASE \/ ConsumerResumes \/ RecorderResumes \/ RetentionResumes
           \/ BeginShutdown \/ DrainEnds \/ CloseQueues \/ UNCHANGED vars
  BY <1>1, <1>7 DEF ConsumerResumes, RecorderResumes, RetentionResumes, BeginShutdown, DrainEnds,
                    CloseQueues, vars
<1>8. CASE ReplyArrives
  BY <1>0, <1>8, LocatedReply DEF ReplyArrives
<1>9. CASE ErrorArrives \/ CloseScope
  BY <1>0, <1>9, LocatedFail DEF ErrorArrives, CloseScope
<1>10. ASSUME NEW c \in Calls, CallTimesOut(c)  PROVE Located(r)'
  <2>1. /\ call[c] = "pending" /\ call' = [call EXCEPT ![c] = "failed"]
        /\ UNCHANGED <<inbox, job, outbox, stored>>
    BY <1>10 DEF CallTimesOut, ExpireCall
  <2>2. \/ call'[IngestCall(r)] = call[IngestCall(r)]
        \/ call[IngestCall(r)] = "pending" /\ call'[IngestCall(r)] = "failed"
    BY <1>0, <2>1, CallsDistinct DEF ChannelTypeOK
  <2> QED
    BY <1>0, <2>1, <2>2, LocatedSettle
<1>11. CASE Worker
  BY <1>0, <1>11, LocatedWorker DEF Worker
<1> QED
  BY <1>2, <1>3, <1>4, <1>5, <1>6, <1>7, <1>8, <1>9, <1>10, <1>11 DEF Next

-----------------------------------------------------------------------------
(* The fibers: what a request was told.                                     *)

\* The part of ReplyInv about one request.
Told(r) ==
  /\ slot[r] \in {"reserved", "queued"} \/ client[r] \in {"idle", "refused"}
       => call[IngestCall(r)] = "idle" /\ deferred[r] = "none"
  /\ client[r] = "refused" => slot[r] = "free"
  /\ slot[r] = "calling" => call[IngestCall(r)] # "idle"
  /\ deferred[r] # "none" =>
       /\ call[IngestCall(r)] \notin {"idle", "pending"}
       /\ deferred[r] = ResultOf(call[IngestCall(r)])
  /\ client[r] \in {"ok", "malformed", "too_large"} => deferred[r] = client[r]

\* A step that settles calls and leaves the fibers alone changes nothing they were told.
LEMMA ToldSettle ==
  ASSUME NEW r \in Requests, Told(r), UNCHANGED <<client, slot, deferred>>,
         \/ call'[IngestCall(r)] = call[IngestCall(r)]
         \/ call[IngestCall(r)] = "pending" /\ call'[IngestCall(r)] # "idle"
  PROVE  Told(r)'
BY DEF Told

\* The fiber of a request.
LEMMA ToldRequest ==
  ASSUME TypeOK, SlotInv, NEW r \in Requests, Told(r), NEW q \in Requests, RequestStep(q)
  PROVE  Told(r)'
<1> USE DEF Answer
<1>0. /\ client \in [Requests -> {"idle", "open", "aborted"} \cup Results]
      /\ slot \in [Requests -> {"free", "reserved", "queued", "calling"}]
      /\ client[r] = "idle" => slot[r] = "free"
  BY DEF TypeOK, SlotInv
<1>1. UNCHANGED <<call, deferred>>
  BY DEF RequestStep, RefuseHeaders, Reserve, RefuseWriterFailed, RefuseShuttingDown, RefuseSaturated,
         BodyTooLarge, BodyUnreadable, Submit, SubmitDropped, Resume, Abort, channelVars
<1>2. CASE q # r
  <2>1. client'[r] = client[r] /\ slot'[r] = slot[r]
    BY <1>0, <1>2 DEF RequestStep, RefuseHeaders, Reserve, RefuseWriterFailed, RefuseShuttingDown,
              RefuseSaturated, BodyTooLarge, BodyUnreadable, Submit, SubmitDropped, Resume, Abort, Release
  <2> QED
    BY <1>1, <2>1 DEF Told
<1>3. CASE q = r
  <2>1. CASE RefuseHeaders(r) \/ RefuseShuttingDown(r) \/ RefuseSaturated(r) \/ RefuseWriterFailed(r)
    <3>1. /\ client[r] = "idle" /\ slot[r] = "free" /\ UNCHANGED slot
          /\ client'[r] = "refused" \/ client'[r] = "unavailable"
      BY <1>0, <2>1 DEF RefuseHeaders, RefuseShuttingDown, RefuseSaturated, RefuseWriterFailed, Arrives
    <3> QED
      BY <1>1, <3>1 DEF Told
  <2>2. CASE Reserve(r)
    <3>1. client[r] = "idle" /\ client'[r] = "open" /\ slot'[r] = "reserved"
      BY <1>0, <2>2 DEF Reserve, Arrives
    <3> QED
      BY <1>1, <3>1 DEF Told
  <2>3. CASE BodyTooLarge(r) \/ BodyUnreadable(r) \/ SubmitDropped(r)
    <3>1. /\ slot[r] = "reserved" /\ slot'[r] = "free"
          /\ client'[r] = "refused" \/ client'[r] = "unavailable"
      BY <1>0, <2>3 DEF BodyTooLarge, BodyUnreadable, SubmitDropped, ReadsBody, Release
    <3> QED
      BY <1>1, <3>1 DEF Told
  <2>4. CASE Submit(r)
    <3>1. slot[r] = "reserved" /\ slot'[r] = "queued" /\ UNCHANGED client /\ client[r] = "open"
      BY <1>0, <2>4 DEF Submit, ReadsBody
    <3> QED
      BY <1>1, <3>1 DEF Told
  <2>5. CASE Resume(r)
    <3>1. UNCHANGED slot /\ deferred[r] # "none" /\ client[r] = "open" /\ client'[r] = deferred[r]
      BY <1>0, <2>5 DEF Resume
    <3>2. deferred[r] # "refused" /\ deferred[r] # "idle"
      BY <3>1 DEF Told, ResultOf
    <3> QED
      BY <1>1, <3>1, <3>2 DEF Told
  <2>6. CASE Abort(r)
    <3>1. client'[r] = "aborted" /\ (slot'[r] = slot[r] \/ slot'[r] = "free")
      BY <1>0, <2>6 DEF Abort, Release
    <3> QED
      BY <1>1, <3>1 DEF Told
  <2> QED
    BY <1>3, <2>1, <2>2, <2>3, <2>4, <2>5, <2>6 DEF RequestStep
<1> QED
  BY <1>2, <1>3

\* Calls other than the consumer's post only ever settle.
LEMMA CallsSettle ==
  ASSUME TypeOK, NEW r \in Requests,
         \/ RecorderTakes \/ StartRetention \/ RejectionDrainEnds \/ ReplyArrives \/ ErrorArrives
         \/ CloseScope \/ \E c \in Calls : CallTimesOut(c)
  PROVE  \/ call'[IngestCall(r)] = call[IngestCall(r)]
         \/ call[IngestCall(r)] = "pending" /\ call'[IngestCall(r)] # "idle"
<1> USE CallsFacts, CallsDistinct
<1>0. call \in [Calls -> {"idle", "pending", "failed"} \cup Responses]
  BY DEF TypeOK, ChannelTypeOK
<1>1. CASE RecorderTakes
  <2>1. Head(rejections) \in Requests
    BY <1>1 DEF RecorderTakes, TypeOK
  <2> QED
    BY <1>0, <1>1, <2>1 DEF RecorderTakes, PostCall
<1>2. CASE StartRetention
  <2>1. rounds + 1 \in 1..MaxRetentions
    BY <1>2, ChannelAssumption DEF TypeOK, StartRetention
  <2> QED
    BY <1>0, <1>2, <2>1 DEF StartRetention, PostCall
<1>3. CASE RejectionDrainEnds
  BY <1>0, <1>3 DEF RejectionDrainEnds, PostCall
<1>4. CASE ReplyArrives
  <2>1. outbox \in Seq(Replies \cup {ErrorEvent}) /\ outbox # <<>> /\ Head(outbox) # ErrorEvent
    BY <1>4 DEF ReplyArrives, DeliverReply, TypeOK, ChannelTypeOK
  <2>2. Head(outbox).call \in Calls /\ Head(outbox).response \in Responses
    BY <2>1 DEF Replies
  <2>3. "idle" \notin Responses
    BY DEF Responses, IngestResponses, DecodeFailures, MaintenanceResponses
  <2> QED
    BY <1>0, <1>4, <2>2, <2>3 DEF ReplyArrives, DeliverReply
<1>5. CASE ErrorArrives \/ CloseScope
  BY <1>0, <1>5 DEF ErrorArrives, DeliverError, CloseScope, CloseTransport, FailPending
<1>6. CASE \E c \in Calls : CallTimesOut(c)
  BY <1>0, <1>6 DEF CallTimesOut, ExpireCall
<1> QED
  BY <1>1, <1>2, <1>3, <1>4, <1>5, <1>6

\* Any step of the model keeps ReplyInv.
LEMMA ReplyStep ==
  ASSUME TypeOK, SlotInv, ReplyInv, [Next]_vars
  PROVE  ReplyInv'
<1> SUFFICES ASSUME NEW r \in Requests  PROVE Told(r)'
  BY DEF ReplyInv, Told
<1>0. /\ Told(r)
      /\ call \in [Calls -> {"idle", "pending", "failed"} \cup Responses]
      /\ slot \in [Requests -> {"free", "reserved", "queued", "calling"}]
      /\ deferred \in [Requests -> {"none"} \cup Results]
  BY DEF ReplyInv, Told, TypeOK, ChannelTypeOK
<1>1. ASSUME NEW q \in Requests, RequestStep(q)  PROVE Told(r)'
  BY <1>0, <1>1, ToldRequest
<1>2. CASE ConsumerTakes
  <2> DEFINE q == Head(queue)
  <2>1. queue \in Seq(Requests) /\ queue # <<>>
    BY <1>2 DEF ConsumerTakes, TypeOK
  <2>2. q \in Requests /\ slot[q] = "queued"
    BY <2>1, TailFacts DEF SlotInv
  <2>3. /\ slot' = [slot EXCEPT ![q] = "calling"] /\ call' = [call EXCEPT ![IngestCall(q)] = "pending"]
        /\ UNCHANGED <<client, deferred>>
    BY <1>2 DEF ConsumerTakes, PostCall
  <2>4. client[q] # "idle" /\ client[q] # "refused" /\ deferred[q] = "none"
    BY <2>2 DEF SlotInv, ReplyInv
  <2> HIDE DEF q
  <2>5. CASE q = r
    BY <1>0, <2>2, <2>3, <2>4, <2>5, CallsDistinct DEF Told
  <2>6. CASE q # r
    BY <1>0, <2>2, <2>3, <2>6, CallsDistinct DEF Told
  <2> QED
    BY <2>5, <2>6
<1>3. CASE ConsumerResumes
  <2>1. /\ consumer \in Requests /\ slot[consumer] = "calling" /\ call[IngestCall(consumer)] # "pending"
        /\ slot' = [slot EXCEPT ![consumer] = "free"] /\ UNCHANGED <<call, client>>
        /\ deferred' = [deferred EXCEPT ![consumer] = ResultOf(call[IngestCall(consumer)])]
    BY <1>3 DEF ConsumerResumes, SlotInv, TypeOK, channelVars
  <2>2. CASE consumer = r
    <3>1. client[r] # "idle" /\ client[r] # "refused" /\ call[IngestCall(r)] # "idle"
      BY <1>0, <2>1, <2>2 DEF SlotInv, Told
    <3>2. client[r] \in {"ok", "malformed", "too_large"} => ResultOf(call[IngestCall(r)]) = client[r]
      BY <1>0 DEF Told
    <3>3. slot'[r] = "free" /\ deferred'[r] = ResultOf(call[IngestCall(r)])
      BY <1>0, <2>1, <2>2
    <3> HIDE DEF ResultOf
    <3> QED
      BY <2>1, <2>2, <3>1, <3>2, <3>3 DEF Told
  <2>3. CASE consumer # r
    BY <1>0, <2>1, <2>3 DEF Told
  <2> QED
    BY <2>2, <2>3
<1>4. CASE \/ RecorderTakes \/ StartRetention \/ RejectionDrainEnds \/ ReplyArrives \/ ErrorArrives
           \/ CloseScope \/ \E c \in Calls : CallTimesOut(c)
  <2>1. UNCHANGED <<client, slot, deferred>>
    BY <1>4 DEF RecorderTakes, StartRetention, RejectionDrainEnds, ReplyArrives, ErrorArrives, CloseScope,
                CallTimesOut, requestVars
  <2> QED
    BY <1>0, <1>4, <2>1, CallsSettle, ToldSettle
<1>5. CASE \/ RecorderResumes \/ RetentionResumes \/ BeginShutdown \/ DrainEnds \/ CloseQueues
           \/ UNCHANGED vars \/ Worker
  <2>1. UNCHANGED <<client, slot, deferred, call>>
    BY <1>5 DEF RecorderResumes, RetentionResumes, BeginShutdown, DrainEnds, CloseQueues, vars, requestVars,
                channelVars, Worker, WorkerStep, WorkerStores, WorkerCannotStore, WorkerRefuses,
                WorkerRecordsRejection, WorkerRetains, WorkerShutsDown, WorkerPosts, WorkerErrs, Handles
  <2> QED
    BY <1>0, <2>1, ToldSettle
<1> QED
  BY <1>1, <1>2, <1>3, <1>4, <1>5 DEF Next

-----------------------------------------------------------------------------
(* The refinement.                                                          *)

ReplyMap == [r \in Requests |-> ReplyOf(client[r])]

ContractVars == <<stored, ReplyMap>>

\* The exporter's view of each state of a request's fiber.
LEMMA RepliesOf ==
  /\ ReplyOf("idle") = "none" /\ ReplyOf("open") = "none"
  /\ ReplyOf("ok") = "acknowledged"
  /\ ReplyOf("unavailable") = "unknown" /\ ReplyOf("aborted") = "unknown"
  /\ \A state \in Refusals : ReplyOf(state) = "refused"
<1>1. ReplyOf("idle") = "none"
  BY DEF ReplyOf, Refusals
<1>2. ReplyOf("open") = "none"
  BY DEF ReplyOf, Refusals
<1>3. ReplyOf("ok") = "acknowledged"
  BY DEF ReplyOf, Refusals
<1>4. ReplyOf("unavailable") = "unknown"
  BY DEF ReplyOf, Refusals
<1>5. ReplyOf("aborted") = "unknown"
  BY DEF ReplyOf, Refusals
<1>6. ASSUME NEW state \in Refusals  PROVE ReplyOf(state) = "refused"
  BY <1>6 DEF ReplyOf, Refusals
<1> QED
  BY <1>1, <1>2, <1>3, <1>4, <1>5, <1>6

\* A commit of the worker is a commit of the contract: it is the first one, and
\* the request was not refused.
LEMMA CommitStep ==
  ASSUME TypeOK, ChannelInv, ReplyInv, NEW r \in Requests, WorkerStores(r), UNCHANGED client
  PROVE  Contract!Commit(r)
<1>1. inbox \in Seq(Calls) /\ inbox # <<>> /\ Head(inbox) = IngestCall(r)
  BY DEF WorkerStores, Handles, TypeOK, ChannelTypeOK
<1>2. Posted(r)
  BY <1>1, TailFacts DEF Posted
<1>3. stored[r] = 0 /\ Unsettled(r)
  BY <1>2 DEF ChannelInv
<1>4. client[r] \notin Refusals
  BY <1>3 DEF ReplyInv, Unsettled, ResultOf, Refusals
<1>5. ReplyMap[r] # "refused"
  BY <1>4 DEF ReplyMap, ReplyOf
<1>6. stored' = [stored EXCEPT ![r] = 1]
  BY <1>3 DEF WorkerStores, TypeOK, ChannelTypeOK
<1>7. ReplyMap' = ReplyMap
  BY DEF ReplyMap
<1> QED
  BY <1>3, <1>5, <1>6, <1>7 DEF Contract!Commit, ReplyMap

\* What the fiber of a request answers agrees with the Store.
LEMMA FiberStep ==
  ASSUME TypeOK, SlotInv, ChannelInv, ReplyInv, NEW r \in Requests, RequestStep(r)
  PROVE  Contract!Next \/ UNCHANGED ContractVars
<1> USE DEF Answer
<1>0. /\ client \in [Requests -> {"idle", "open", "aborted"} \cup Results]
      /\ slot \in [Requests -> {"free", "reserved", "queued", "calling"}]
  BY DEF TypeOK
<1>1. UNCHANGED stored
  BY DEF RequestStep, RefuseHeaders, Reserve, RefuseWriterFailed, RefuseShuttingDown, RefuseSaturated,
         BodyTooLarge, BodyUnreadable, Submit, SubmitDropped, Resume, Abort, channelVars
<1>2. ASSUME NEW state, client' = [client EXCEPT ![r] = state], client[r] \in {"idle", "open"}
      PROVE  ReplyMap[r] = "none" /\ ReplyMap' = [ReplyMap EXCEPT ![r] = ReplyOf(state)]
  <2> HIDE DEF ReplyOf
  <2>1. ReplyMap' = [ReplyMap EXCEPT ![r] = ReplyOf(state)]
    BY <1>0, <1>2 DEF ReplyMap
  <2>2. ReplyOf(client[r]) = "none"
    BY <1>2, RepliesOf
  <2>3. ReplyMap[r] = "none"
    BY <2>2 DEF ReplyMap
  <2> QED
    BY <2>1, <2>3
<1>3. ASSUME client' = [client EXCEPT ![r] = "unavailable"] \/ client' = [client EXCEPT ![r] = "aborted"],
             client[r] \in {"idle", "open"}
      PROVE  Contract!GiveUp(r)
  BY <1>1, <1>2, <1>3 DEF ReplyOf, Refusals, Contract!GiveUp, Contract!Reply, ReplyMap
<1>4. ASSUME NEW state \in Refusals, client' = [client EXCEPT ![r] = state], client[r] \in {"idle", "open"},
             stored[r] = 0
      PROVE  Contract!Refuse(r)
  BY <1>1, <1>2, <1>4 DEF ReplyOf, Refusals, Contract!Refuse, Contract!Reply, ReplyMap
<1>5. slot[r] = "reserved" \/ client[r] = "idle" => stored[r] = 0
  BY DEF ReplyInv, ChannelInv
<1>6. CASE RefuseHeaders(r) \/ RefuseSaturated(r) \/ BodyTooLarge(r) \/ SubmitDropped(r)
  <2>1. /\ client' = [client EXCEPT ![r] = "refused"] /\ client[r] \in {"idle", "open"}
        /\ slot[r] = "reserved" \/ client[r] = "idle"
    BY <1>6 DEF RefuseHeaders, RefuseSaturated, BodyTooLarge, SubmitDropped, Arrives, ReadsBody
  <2> QED
    BY <1>4, <1>5, <2>1 DEF Refusals, Contract!Next
<1>7. CASE RefuseWriterFailed(r) \/ RefuseShuttingDown(r) \/ BodyUnreadable(r) \/ Abort(r)
  BY <1>3, <1>7 DEF RefuseWriterFailed, RefuseShuttingDown, BodyUnreadable, Abort, Arrives, ReadsBody,
                    Contract!Next
<1>8. CASE Reserve(r)
  <2>1. client' = [client EXCEPT ![r] = "open"] /\ client[r] = "idle"
    BY <1>8 DEF Reserve, Arrives
  <2>2. ReplyOf("open") = "none" /\ ReplyOf("idle") = "none"
    BY RepliesOf
  <2> HIDE DEF ReplyOf
  <2>3. ASSUME NEW q \in Requests  PROVE ReplyOf(client'[q]) = ReplyOf(client[q])
    BY <1>0, <2>1, <2>2
  <2>4. ReplyMap' = ReplyMap
    BY <2>3 DEF ReplyMap
  <2> QED
    BY <1>1, <2>4 DEF ContractVars
<1>9. CASE Submit(r)
  BY <1>1, <1>9 DEF Submit, ContractVars, ReplyMap
<1>10. CASE Resume(r)
  <2>1. /\ client' = [client EXCEPT ![r] = deferred[r]] /\ client[r] = "open" /\ deferred[r] # "none"
        /\ deferred[r] = ResultOf(call[IngestCall(r)]) /\ call[IngestCall(r)] \notin {"idle", "pending"}
    BY <1>10 DEF Resume, ReplyInv
  <2>2. call[IngestCall(r)] # "failed" => stored[r] = Committed(call[IngestCall(r)])
    BY <2>1, CallsFacts DEF ChannelInv, TypeOK, ChannelTypeOK
  <2>3. CASE call[IngestCall(r)] = "ingest-success"
    <3>1. deferred[r] = "ok" /\ stored[r] = 1
      BY <2>1, <2>2, <2>3 DEF ResultOf, Committed
    <3>2. ReplyOf("ok") = "acknowledged"
      BY RepliesOf
    <3> HIDE DEF ReplyOf
    <3>3. ReplyMap[r] = "none" /\ ReplyMap' = [ReplyMap EXCEPT ![r] = "acknowledged"]
      BY <1>2, <2>1, <3>1, <3>2
    <3>4. Contract!Acknowledge(r)
      BY <1>1, <3>1, <3>3 DEF Contract!Acknowledge, Contract!Reply, ReplyMap
    <3> QED
      BY <3>4 DEF Contract!Next
  <2>4. CASE call[IngestCall(r)] \in {"malformed_payload", "decompressed_too_large"}
    <3>1. deferred[r] \in Refusals /\ stored[r] = 0
      BY <2>1, <2>2, <2>4 DEF ResultOf, Committed, Refusals
    <3> QED
      BY <1>4, <2>1, <3>1 DEF Contract!Next
  <2>5. CASE call[IngestCall(r)] \notin {"ingest-success", "malformed_payload", "decompressed_too_large"}
    <3>1. deferred[r] = "unavailable"
      BY <2>1, <2>5 DEF ResultOf
    <3> QED
      BY <1>3, <2>1, <3>1 DEF Contract!Next
  <2> QED
    BY <2>3, <2>4, <2>5
<1> QED
  BY <1>6, <1>7, <1>8, <1>9, <1>10 DEF RequestStep

\* Every step of ingestion is a step of the contract or leaves it unchanged.
LEMMA ContractStep ==
  ASSUME TypeOK, SlotInv, ChannelInv, ReplyInv, [Next]_vars
  PROVE  Contract!Next \/ UNCHANGED ContractVars
<1>1. ASSUME UNCHANGED <<client, stored>>  PROVE UNCHANGED ContractVars
  BY <1>1 DEF ContractVars, ReplyMap
<1>2. CASE Worker
  <2>1. UNCHANGED client
    BY <1>2 DEF Worker, requestVars
  <2>2. ASSUME NEW r \in Requests, WorkerStores(r)  PROVE Contract!Next
    BY <2>1, <2>2, CommitStep DEF Contract!Next
  <2>3. (\E r \in Requests : WorkerStores(r)) \/ UNCHANGED stored
    BY <1>2 DEF Worker, WorkerStep, WorkerCannotStore, WorkerRefuses, WorkerRecordsRejection, WorkerRetains,
                WorkerShutsDown, WorkerPosts, WorkerErrs
  <2> QED
    BY <1>1, <2>1, <2>2, <2>3
<1>3. CASE \/ ConsumerTakes \/ ConsumerResumes \/ RecorderTakes \/ RecorderResumes
           \/ StartRetention \/ RetentionResumes \/ ReplyArrives \/ ErrorArrives
           \/ (\E c \in Calls : CallTimesOut(c))
           \/ BeginShutdown \/ DrainEnds \/ RejectionDrainEnds \/ CloseQueues \/ CloseScope
           \/ UNCHANGED vars
  <2>1. UNCHANGED <<client, stored>>
    BY <1>3 DEF ConsumerTakes, ConsumerResumes, RecorderTakes, RecorderResumes, StartRetention,
                RetentionResumes, ReplyArrives, DeliverReply, ErrorArrives, DeliverError, CallTimesOut,
                ExpireCall, BeginShutdown, DrainEnds, RejectionDrainEnds, CloseQueues, CloseScope,
                CloseTransport, vars, requestVars, channelVars
  <2> QED
    BY <1>1, <2>1
<1> QED
  BY <1>2, <1>3, FiberStep DEF Next

\* The invariants the refinement rests on, for every instance.
LEMMA IngestionInvariant == Spec => [](TypeOK /\ SlotInv /\ ChannelInv /\ ReplyInv)
<1>1. Init => ChannelInv /\ ReplyInv
  <2> SUFFICES ASSUME Init  PROVE ChannelInv /\ ReplyInv
    OBVIOUS
  <2>1. ASSUME NEW r \in Requests
        PROVE  call[IngestCall(r)] = "idle" /\ NoJob.call # IngestCall(r) /\ "idle" \notin Responses
    BY CallsDistinct DEF Init, ChannelInit, NoJob, Responses, IngestResponses, DecodeFailures,
                         MaintenanceResponses
  <2>2. inbox = <<>> /\ outbox = <<>> /\ DOMAIN inbox = {} /\ DOMAIN outbox = {} /\ job = NoJob
    BY DEF Init, ChannelInit
  <2>3. ASSUME NEW r \in Requests  PROVE ~Posted(r) /\ ~Replied(r) /\ ~Executed(r) /\ stored[r] = 0
    BY <2>1, <2>2 DEF Init, ChannelInit, Posted, Replied, Executed
  <2>4. ChannelInv
    BY <2>1, <2>2, <2>3 DEF ChannelInv
  <2>5. ReplyInv
    BY <2>1 DEF Init, ReplyInv
  <2> QED
    BY <2>4, <2>5
<1>2. TypeOK /\ SlotInv /\ ChannelInv /\ ReplyInv /\ [Next]_vars => ChannelInv' /\ ReplyInv'
  BY ChannelStep, ReplyStep
<1> QED
  BY <1>1, <1>2, TypeCorrect, SlotsCorrect, PTL DEF Spec

\* Ingestion implements its contract, whatever the number of requests, the
\* capacities and the failures of the worker.
THEOREM IngestionRefinesContract == Spec => ImplementsContract
<1>1. Init => Contract!Init
  <2>1. ReplyOf("idle") = "none"
    BY RepliesOf
  <2> QED
    BY <2>1 DEF Init, ChannelInit, Contract!Init, ReplyMap
<1>2. TypeOK /\ SlotInv /\ ChannelInv /\ ReplyInv /\ [Next]_vars => [Contract!Next]_ContractVars
  BY ContractStep
<1> QED
  BY <1>1, <1>2, IngestionInvariant, PTL DEF Spec, ImplementsContract, Contract!Spec, ContractVars, ReplyMap

-----------------------------------------------------------------------------
(* Reservations and the queue.                                              *)

\* A queue of as many places as reservations always has one for a reservation.
THEOREM ReservationCorrect == Spec => []ReservationHonoured
<1>1. TypeOK /\ SlotInv /\ CapacityAccounting => ReservationHonoured
  <2> SUFFICES ASSUME TypeOK, SlotInv, CapacityAccounting, NEW r \in Requests, slot[r] = "reserved"
               PROVE  Len(queue) < RequestCapacity
    BY DEF ReservationHonoured
  <2> DEFINE place == [i \in 1..(Len(queue) + 1) |-> IF i = Len(queue) + 1 THEN r ELSE queue[i]]
  <2>0. Len(queue) \in Nat /\ DOMAIN queue = 1..Len(queue) /\ \A i \in DOMAIN queue : queue[i] \in Requests
    BY DEF TypeOK
  <2>1. \A i \in 1..(Len(queue) + 1) : i = Len(queue) + 1 \/ i \in DOMAIN queue
    BY <2>0
  <2>2. \A i \in DOMAIN queue : queue[i] # r /\ queue[i] \in Holders
    BY <2>0 DEF SlotInv, Holders
  <2>3. r \in Holders
    BY DEF Holders
  <2>4. place \in [1..(Len(queue) + 1) -> Holders]
    BY <2>1, <2>2, <2>3
  <2>5. \A i, j \in 1..(Len(queue) + 1) : place[i] = place[j] => i = j
    BY <2>1, <2>2 DEF SlotInv
  <2>6. place \in Injection(1..(Len(queue) + 1), Holders)
    <3> HIDE DEF place
    <3> QED
      BY <2>4, <2>5, Fun_IsInj
  <2>7. Cardinality(1..(Len(queue) + 1)) <= Cardinality(Holders)
    BY <2>6, HoldersFinite, FS_Injection
  <2>8. Cardinality(1..(Len(queue) + 1)) = Len(queue) + 1
    BY <2>0, FS_Interval
  <2> QED
    BY <2>0, <2>7, <2>8, AdmissionAssumption DEF CapacityAccounting, TypeOK
<1> QED
  BY <1>1, TypeCorrect, SlotsCorrect, PTL

-----------------------------------------------------------------------------
(* The progress of shutdown.                                                *)

LEMMA ShutdownRequest ==
  ASSUME TypeOK, ShutdownInv, NEW r \in Requests, RequestStep(r)
  PROVE  ShutdownInv'
<1> USE DEF capacityVars, shutdownVars
<1>1. UNCHANGED <<phase, open, accepting, drainExpired>>
  BY DEF RequestStep, RefuseHeaders, Reserve, RefuseWriterFailed, RefuseShuttingDown, RefuseSaturated,
         BodyTooLarge, BodyUnreadable, Submit, SubmitDropped, Resume, Abort
<1>2. CASE Reserve(r)
  BY <1>1, <1>2 DEF Reserve, Admits, ShutdownInv, TypeOK, Phases
<1>3. CASE ~Reserve(r)
  <2>1. requests' = requests \/ ReleaseCapacity
    BY <1>3 DEF RequestStep, RefuseHeaders, RefuseWriterFailed, RefuseShuttingDown, RefuseSaturated,
         BodyTooLarge, BodyUnreadable, Submit, SubmitDropped, Resume, Abort, Release
  <2>2. requests = 0 => requests' = 0
    BY <2>1 DEF ReleaseCapacity, Less, TypeOK
  <2> QED
    BY <1>1, <2>2 DEF ShutdownInv
<1> QED
  BY <1>2, <1>3

LEMMA ShutdownOther ==
  ASSUME TypeOK, ShutdownInv,
         \/ ConsumerTakes \/ ConsumerResumes \/ RecorderTakes \/ RecorderResumes
         \/ StartRetention \/ RetentionResumes \/ ReplyArrives \/ ErrorArrives
         \/ \E c \in Calls : CallTimesOut(c)
         \/ Worker
         \/ BeginShutdown \/ DrainEnds \/ RejectionDrainEnds \/ CloseQueues \/ CloseScope
  PROVE  ShutdownInv'
<1> USE DEF capacityVars, shutdownVars, MarkWriterUnavailable
<1>1. CASE ConsumerTakes \/ RecorderTakes \/ StartRetention \/ ReplyArrives \/ Worker
             \/ \E c \in Calls : CallTimesOut(c)
  <2>1. UNCHANGED <<phase, open, accepting, drainExpired, requests>>
    BY <1>1 DEF ConsumerTakes, RecorderTakes, StartRetention, ReplyArrives, Worker, CallTimesOut
  <2> QED
    BY <2>1 DEF ShutdownInv
<1>2. CASE ConsumerResumes \/ RecorderResumes \/ RetentionResumes \/ ErrorArrives
  <2>1. /\ UNCHANGED <<phase, open, drainExpired>>
        /\ UNCHANGED accepting \/ accepting' = FALSE
        /\ requests' = requests \/ ReleaseCapacity
    BY <1>2 DEF ConsumerResumes, RecorderResumes, RetentionResumes, ErrorArrives
  <2>2. requests = 0 => requests' = 0
    BY <2>1 DEF ReleaseCapacity, Less, TypeOK
  <2> QED
    BY <2>1, <2>2 DEF ShutdownInv
<1>3. CASE BeginShutdown
  BY <1>3 DEF BeginShutdown, ShutdownInv
<1>4. CASE DrainEnds
  BY <1>4 DEF DrainEnds, Drained, ShutdownInv
<1>5. CASE RejectionDrainEnds
  <2>1. /\ phase = "draining_rejections" /\ phase' = "closing_worker"
        /\ ~drainExpired' => ~drainExpired
        /\ UNCHANGED <<open, accepting, requests>>
    BY <1>5 DEF RejectionDrainEnds
  <2> QED
    BY <2>1 DEF ShutdownInv
<1>6. CASE CloseQueues
  <2>1. /\ phase = "closing_worker" /\ phase' = "closed" /\ open' = FALSE
        /\ UNCHANGED accepting \/ accepting' = FALSE
        /\ UNCHANGED <<requests, drainExpired>>
    BY <1>6 DEF CloseQueues
  <2> QED
    BY <2>1 DEF ShutdownInv
<1>7. CASE CloseScope
  BY <1>7 DEF CloseScope, ShutdownInv
<1> QED
  BY <1>1, <1>2, <1>3, <1>4, <1>5, <1>6, <1>7

LEMMA ShutdownCorrect == Spec => []ShutdownInv
<1>1. Init => ShutdownInv
  BY DEF Init, ShutdownInv
<1>2. TypeOK /\ ShutdownInv /\ [Next]_vars => ShutdownInv'
  <2> SUFFICES ASSUME TypeOK, ShutdownInv, [Next]_vars  PROVE ShutdownInv'
    OBVIOUS
  <2>1. CASE UNCHANGED vars
    BY <2>1 DEF vars, capacityVars, shutdownVars, ShutdownInv
  <2> QED
    BY <2>1, ShutdownRequest, ShutdownOther DEF Next
<1> QED
  BY <1>1, <1>2, TypeCorrect, PTL DEF Spec

-----------------------------------------------------------------------------
(* Drained.                                                                 *)

LEMMA AnsweredStep ==
  ASSUME TypeOK, SlotInv, AnsweredInv, [Next]_vars
  PROVE  AnsweredInv'
<1> USE DEF requestVars, Answer
<1>1. ASSUME NEW r \in Requests, RequestStep(r)  PROVE AnsweredInv'
  <2>1. UNCHANGED deferred /\ \A q \in Requests : q # r => client'[q] = client[q] /\ slot'[q] = slot[q]
    BY <1>1 DEF TypeOK, RequestStep, RefuseHeaders, Reserve, RefuseWriterFailed, RefuseShuttingDown,
         RefuseSaturated, BodyTooLarge, BodyUnreadable, Submit, SubmitDropped, Resume, Abort, Release
  <2>2. client'[r] = "open" /\ slot'[r] = "free" => client[r] = "open" /\ slot[r] = "free"
    <3>1. CASE Reserve(r) \/ Submit(r)
      BY <3>1 DEF TypeOK, Reserve, Submit
    <3>2. CASE RefuseHeaders(r) \/ RefuseWriterFailed(r) \/ RefuseShuttingDown(r) \/ RefuseSaturated(r)
                 \/ BodyTooLarge(r) \/ BodyUnreadable(r) \/ SubmitDropped(r) \/ Abort(r)
      <4>1. client'[r] # "open"
        BY <3>2 DEF TypeOK, RefuseHeaders, RefuseWriterFailed, RefuseShuttingDown, RefuseSaturated,
                    BodyTooLarge, BodyUnreadable, SubmitDropped, Abort
      <4> QED
        BY <4>1
    <3>3. CASE Resume(r)
      <4>1. client'[r] = deferred[r] /\ deferred[r] \in Results
        BY <3>3 DEF TypeOK, Resume
      <4> QED
        BY <4>1 DEF Results, Refusals
    <3> QED
      BY <1>1, <3>1, <3>2, <3>3 DEF RequestStep
  <2> QED
    BY <2>1, <2>2 DEF AnsweredInv
<1>2. CASE ConsumerTakes
  <2>1. Head(queue) \in Requests /\ slot' = [slot EXCEPT ![Head(queue)] = "calling"]
        /\ UNCHANGED <<client, deferred>>
    BY <1>2 DEF ConsumerTakes, TypeOK
  <2> QED
    BY <2>1 DEF AnsweredInv, TypeOK
<1>3. CASE ConsumerResumes
  <2>1. /\ consumer \in Requests /\ UNCHANGED client
        /\ \E outcome : deferred' = [deferred EXCEPT ![consumer] = ResultOf(outcome)]
        /\ slot' = [slot EXCEPT ![consumer] = "free"]
    BY <1>3 DEF ConsumerResumes, TypeOK
  <2>2. \A outcome : ResultOf(outcome) # "none"
    BY DEF ResultOf
  <2> QED
    BY <2>1, <2>2 DEF AnsweredInv, TypeOK
<1>4. CASE \/ RecorderTakes \/ RecorderResumes \/ StartRetention \/ RetentionResumes
           \/ ReplyArrives \/ ErrorArrives \/ (\E c \in Calls : CallTimesOut(c)) \/ Worker
           \/ BeginShutdown \/ DrainEnds \/ RejectionDrainEnds \/ CloseQueues \/ CloseScope
           \/ UNCHANGED vars
  <2>1. UNCHANGED <<client, slot, deferred>>
    BY <1>4 DEF RecorderTakes, RecorderResumes, StartRetention, RetentionResumes, ReplyArrives,
         ErrorArrives, CallTimesOut, Worker, BeginShutdown, DrainEnds, RejectionDrainEnds, CloseQueues,
         CloseScope, vars
  <2> QED
    BY <2>1 DEF AnsweredInv
<1> QED
  BY <1>1, <1>2, <1>3, <1>4 DEF Next

\* A shutdown that did not give up has answered everybody.
THEOREM DrainedCorrect == Spec => []DrainedShutdown
<1>1. Init => AnsweredInv
  BY DEF Init, AnsweredInv
<1>2. TypeOK /\ CapacityAccounting /\ ShutdownInv /\ AnsweredInv => DrainedShutdown
  <2> SUFFICES ASSUME TypeOK, CapacityAccounting, ShutdownInv, AnsweredInv, ~drainExpired,
                      phase \in {"closing_worker", "closed", "terminated"},
                      NEW r \in Requests, client[r] = "open"
               PROVE  deferred[r] # "none"
    BY DEF DrainedShutdown
  <2>1. Cardinality(Holders) = 0
    BY DEF ShutdownInv, CapacityAccounting
  <2>2. Holders = {}
    BY <2>1, HoldersFinite, FS_EmptySet
  <2>3. slot[r] = "free"
    BY <2>2 DEF Holders
  <2> QED
    BY <2>3 DEF AnsweredInv
<1> QED
  BY <1>1, <1>2, AnsweredStep, TypeCorrect, SlotsCorrect, ShutdownCorrect, PTL DEF Spec

-----------------------------------------------------------------------------
(* The backlog of rejections.                                               *)

\* The counter follows the queue and the recorder.
LEMMA BacklogStep ==
  ASSUME TypeOK, ShutdownInv, BacklogCounted, [Next]_vars
  PROVE  BacklogCounted'
<1> USE DEF rejectionVars, shutdownVars
<1>0. /\ rejections \in Seq(Requests) /\ rejectionsPending \in Nat /\ Len(rejections) \in Nat
      /\ recorder \in Requests \cup {None} /\ None \notin Requests
  BY AdmissionAssumption DEF TypeOK
<1>1. ASSUME NEW r \in Requests, RequestStep(r)  PROVE BacklogCounted'
  <2>1. UNCHANGED <<open, recorder>> /\ (RecordRejected(r) \/ UNCHANGED rejectionVars)
    BY <1>1 DEF RequestStep, RefuseHeaders, Reserve, RefuseWriterFailed, RefuseShuttingDown,
         RefuseSaturated, BodyTooLarge, BodyUnreadable, Submit, SubmitDropped, Resume, Abort, RecordRejected
  <2>2. \/ Len(rejections') = Len(rejections) + 1 /\ rejectionsPending' = rejectionsPending + 1
        \/ UNCHANGED <<rejections, rejectionsPending>>
    BY <1>0, <2>1 DEF RecordRejected
  <2> QED
    BY <1>0, <2>1, <2>2 DEF BacklogCounted
<1>2. CASE RecorderTakes
  <2>1. /\ recorder = None /\ recorder' \in Requests /\ Len(rejections') = Len(rejections) - 1
        /\ UNCHANGED <<open, rejectionsPending>>
    BY <1>0, <1>2 DEF RecorderTakes
  <2> QED
    BY <1>0, <2>1 DEF BacklogCounted
<1>3. CASE RecorderResumes
  <2>1. /\ recorder # None /\ recorder' = None /\ rejectionsPending' = Less(rejectionsPending, 1)
        /\ UNCHANGED <<open, rejections>>
    BY <1>3 DEF RecorderResumes
  <2> QED
    BY <1>0, <2>1 DEF BacklogCounted, Less
<1>4. CASE \/ ConsumerTakes \/ ConsumerResumes \/ StartRetention \/ RetentionResumes
           \/ ReplyArrives \/ ErrorArrives \/ (\E c \in Calls : CallTimesOut(c)) \/ Worker
           \/ BeginShutdown \/ DrainEnds \/ RejectionDrainEnds \/ UNCHANGED vars
  <2>1. UNCHANGED <<open, rejections, rejectionsPending, recorder>>
    BY <1>4 DEF ConsumerTakes, ConsumerResumes, StartRetention, RetentionResumes, ReplyArrives,
         ErrorArrives, CallTimesOut, Worker, BeginShutdown, DrainEnds, RejectionDrainEnds, vars
  <2> QED
    BY <2>1 DEF BacklogCounted
<1>5. CASE CloseQueues \/ CloseScope
  <2>1. ~open'
    BY <1>5 DEF CloseQueues, CloseScope, ShutdownInv
  <2> QED
    BY <2>1 DEF BacklogCounted
<1> QED
  BY <1>1, <1>2, <1>3, <1>4, <1>5 DEF Next

\* What shutdown waits for is the number of rejections queued or being recorded.
THEOREM BacklogCorrect == Spec => []BacklogCounted
<1>1. Init => BacklogCounted
  BY DEF Init, BacklogCounted
<1> QED
  BY <1>1, BacklogStep, TypeCorrect, ShutdownCorrect, PTL DEF Spec

-----------------------------------------------------------------------------
(* Rejections are not lost.                                                 *)

LEMMA RejectCalls ==
  ASSUME NEW r \in Requests
  PROVE  /\ RejectCall(r) \in Calls /\ RejectCall(r) # NoCall /\ RejectCall(r) # ShutdownCall
         /\ \A q \in Requests : /\ RejectCall(q) = RejectCall(r) => q = r
                                /\ IngestCall(q) # RejectCall(r)
         /\ \A n \in 1..MaxRetentions : RetentionCall(n) # RejectCall(r)
BY DEF Calls, IngestCall, RejectCall, RetentionCall, ShutdownCall, NoCall

\* The part of RecorderInv about the channel.
RecordedInv(r) ==
  /\ call[RejectCall(r)] \in {"idle", "pending", "failed"} \/ Recorded(r, call[RejectCall(r)])
  /\ job.call = RejectCall(r) => Recorded(r, job.response)
  /\ \A i \in DOMAIN outbox : outbox[i].call = RejectCall(r) => Recorded(r, outbox[i].response)

LEMMA RecordedPost ==
  ASSUME ChannelTypeOK, NEW r \in Requests, RecordedInv(r), NEW c \in Calls, PostCall(c),
         UNCHANGED <<job, outbox, rejected>>
  PROVE  RecordedInv(r)' /\ (call[RejectCall(r)] # "idle" => call'[RejectCall(r)] # "idle")
BY RejectCalls DEF RecordedInv, Recorded, PostCall, ChannelTypeOK

LEMMA RecordedDelivery ==
  ASSUME ChannelTypeOK, NEW r \in Requests, RecordedInv(r),
         DeliverReply \/ DeliverError \/ CloseTransport \/ \E c \in Calls : ExpireCall(c)
  PROVE  RecordedInv(r)' /\ (call[RejectCall(r)] # "idle" => call'[RejectCall(r)] # "idle")
<1> USE RejectCalls
<1>0. outbox \in Seq(Replies \cup {ErrorEvent}) /\ call \in [Calls -> {"idle", "pending", "failed"} \cup Responses]
  BY DEF ChannelTypeOK
<1>1. CASE DeliverReply
  <2> DEFINE reply == Head(outbox)
  <2>1. 1 \in DOMAIN outbox /\ reply = outbox[1] /\ reply \in Replies
    BY <1>0, <1>1, TailFacts DEF DeliverReply
  <2>2. \A i \in DOMAIN outbox' : i + 1 \in DOMAIN outbox /\ outbox'[i] = outbox[i + 1]
    BY <1>0, <1>1, TailFacts DEF DeliverReply
  <2>3. /\ call' = IF call[reply.call] = "pending" THEN [call EXCEPT ![reply.call] = reply.response] ELSE call
        /\ UNCHANGED <<job, rejected>>
    BY <1>1 DEF DeliverReply
  <2>4. reply.call = RejectCall(r) => Recorded(r, reply.response)
    BY <2>1 DEF RecordedInv
  <2> HIDE DEF reply
  <2>5. call'[RejectCall(r)] = call[RejectCall(r)] \/ Recorded(r, call'[RejectCall(r)])
    BY <1>0, <2>3, <2>4
  <2>6. call[RejectCall(r)] # "idle" => call'[RejectCall(r)] # "idle"
    BY <2>5 DEF Recorded, MaintenanceResponses
  <2> QED
    BY <2>2, <2>3, <2>5, <2>6 DEF RecordedInv, Recorded
<1>2. CASE DeliverError
  <2>1. \A i \in DOMAIN outbox' : i + 1 \in DOMAIN outbox /\ outbox'[i] = outbox[i + 1]
    BY <1>0, <1>2, TailFacts DEF DeliverError
  <2>2. call'[RejectCall(r)] \in {"failed", call[RejectCall(r)]} /\ UNCHANGED <<job, rejected>>
    BY <1>2 DEF DeliverError, FailPending
  <2> QED
    BY <2>1, <2>2 DEF RecordedInv, Recorded
<1>3. CASE CloseTransport
  <2>1. /\ call'[RejectCall(r)] \in {"failed", call[RejectCall(r)]} /\ UNCHANGED rejected
        /\ job' = NoJob /\ NoJob.call # RejectCall(r) /\ outbox' = <<>> /\ DOMAIN outbox' = {}
    BY <1>3 DEF CloseTransport, FailPending, NoJob
  <2> QED
    BY <2>1 DEF RecordedInv, Recorded
<1>4. ASSUME NEW c \in Calls, ExpireCall(c)
      PROVE  RecordedInv(r)' /\ (call[RejectCall(r)] # "idle" => call'[RejectCall(r)] # "idle")
  <2>1. call'[RejectCall(r)] \in {"failed", call[RejectCall(r)]} /\ UNCHANGED <<job, outbox, rejected>>
    BY <1>0, <1>4 DEF ExpireCall
  <2> QED
    BY <2>1 DEF RecordedInv, Recorded
<1> QED
  BY <1>1, <1>2, <1>3, <1>4

LEMMA RecordedWorker ==
  ASSUME ChannelTypeOK, NEW r \in Requests, RecordedInv(r), WorkerStep
  PROVE  RecordedInv(r)' /\ rejected'[r] >= rejected[r]
<1> USE RejectCalls DEF Handles, Answers
<1>0. /\ outbox \in Seq(Replies \cup {ErrorEvent}) /\ rejected \in [Requests -> Nat]
      /\ job \in Replies \cup {NoJob}
  BY DEF ChannelTypeOK
<1>1. ASSUME NEW q \in Requests, WorkerRecordsRejection(q)
      PROVE  RecordedInv(r)' /\ rejected'[r] >= rejected[r]
  <2>1. /\ \/ job' = [call |-> RejectCall(q), response |-> "maintenance-success"]
              /\ rejected' = [rejected EXCEPT ![q] = @ + 1]
           \/ job' = [call |-> RejectCall(q), response |-> "maintenance_failed"]
              /\ UNCHANGED rejected
        /\ UNCHANGED <<call, outbox>>
    BY <1>1 DEF WorkerRecordsRejection
  <2>2. rejected'[r] >= rejected[r] /\ rejected[r] \in Nat /\ rejected'[r] \in Nat
    BY <1>0, <2>1
  <2>3. ASSUME job'.call = RejectCall(r)  PROVE Recorded(r, job.response)'
    <3>1. q = r
      BY <2>1, <2>3
    <3>2. job'.response = "maintenance-success" => rejected'[r] > 0
      BY <1>0, <2>1, <3>1
    <3> QED
      BY <2>1, <3>2 DEF Recorded, MaintenanceResponses
  <2>4. \A response : Recorded(r, response) => response \in MaintenanceResponses /\ (response = "maintenance-success" => rejected'[r] > 0)
    BY <2>2 DEF Recorded
  <2> QED
    BY <2>1, <2>2, <2>3, <2>4 DEF RecordedInv, Recorded
<1>2. ASSUME \/ \E q \in Requests : WorkerStores(q) \/ WorkerCannotStore(q) \/ WorkerRefuses(q)
             \/ \E n \in 1..MaxRetentions : WorkerRetains(n)
             \/ WorkerShutsDown
      PROVE  RecordedInv(r)' /\ rejected'[r] >= rejected[r]
  <2>1. job'.call # RejectCall(r) /\ UNCHANGED <<call, outbox>>
    BY <1>2 DEF WorkerStores, WorkerCannotStore, WorkerRefuses, WorkerRetains, WorkerShutsDown
  <2>2. \/ UNCHANGED rejected
        \/ \E q \in Requests, recorded \in {0, 1} : rejected' = [rejected EXCEPT ![q] = @ + recorded]
    BY <1>2 DEF WorkerStores, WorkerCannotStore, WorkerRefuses, WorkerRetains, WorkerShutsDown
  <2>3. rejected'[r] >= rejected[r] /\ rejected[r] \in Nat /\ rejected'[r] \in Nat
    BY <1>0, <2>2
  <2>4. \A response : Recorded(r, response) => response \in MaintenanceResponses /\ (response = "maintenance-success" => rejected'[r] > 0)
    BY <2>3 DEF Recorded
  <2> QED
    BY <2>1, <2>3, <2>4 DEF RecordedInv, Recorded
<1>3. CASE WorkerPosts
  <2>1. job \in Replies /\ outbox' = Append(outbox, job) /\ job' = NoJob /\ UNCHANGED <<call, rejected>>
    BY <1>0, <1>3 DEF WorkerPosts
  <2>2. \A i \in DOMAIN outbox' : (i \in DOMAIN outbox /\ outbox'[i] = outbox[i]) \/ outbox'[i] = job
    BY <1>0, <2>1, AppendFacts
  <2>3. job'.call # RejectCall(r)
    BY <2>1 DEF NoJob
  <2> QED
    BY <1>0, <2>1, <2>2, <2>3 DEF RecordedInv, Recorded
<1>4. CASE WorkerErrs
  <2>1. outbox' = Append(outbox, ErrorEvent) /\ UNCHANGED <<call, rejected>> /\ job' \in {job, NoJob}
    BY <1>4 DEF WorkerErrs
  <2>2. \A i \in DOMAIN outbox' : (i \in DOMAIN outbox /\ outbox'[i] = outbox[i]) \/ outbox'[i] = ErrorEvent
    BY <1>0, <2>1, AppendFacts
  <2>3. NoJob.call # RejectCall(r) /\ ErrorEvent.call # RejectCall(r)
    BY DEF NoJob, ErrorEvent
  <2> QED
    BY <1>0, <2>1, <2>2, <2>3 DEF RecordedInv, Recorded
<1> QED
  BY <1>1, <1>2, <1>3, <1>4 DEF WorkerStep

\* Whatever the step, an answer to "record-rejected" stays truthful, increments
\* stay, and a call that was made stays made.
LEMMA RecordedStep ==
  ASSUME TypeOK, NEW r \in Requests, RecordedInv(r), [Next]_vars
  PROVE  /\ RecordedInv(r)'
         /\ rejected'[r] >= rejected[r]
         /\ call[RejectCall(r)] # "idle" => call'[RejectCall(r)] # "idle"
<1> USE DEF channelVars
<1>0. ChannelTypeOK /\ rejected[r] \in Nat
  BY DEF TypeOK, ChannelTypeOK
<1>1. CASE UNCHANGED channelVars
  BY <1>0, <1>1 DEF RecordedInv, Recorded
<1>2. ASSUME NEW c \in Calls, PostCall(c), UNCHANGED <<job, outbox, rejected>>
      PROVE  /\ RecordedInv(r)' /\ rejected'[r] >= rejected[r]
             /\ call[RejectCall(r)] # "idle" => call'[RejectCall(r)] # "idle"
  BY <1>0, <1>2, RecordedPost
<1>3. CASE DeliverReply \/ DeliverError \/ CloseTransport \/ \E c \in Calls : ExpireCall(c)
  <2>1. UNCHANGED rejected
    BY <1>3 DEF DeliverReply, DeliverError, CloseTransport, ExpireCall
  <2> QED
    BY <1>0, <1>3, <2>1, RecordedDelivery
<1>4. CASE WorkerStep
  <2>1. UNCHANGED call
    BY <1>4 DEF WorkerStep, Handles, WorkerStores, WorkerCannotStore, WorkerRefuses,
                WorkerRecordsRejection, WorkerRetains, WorkerShutsDown, WorkerPosts, WorkerErrs
  <2> QED
    BY <1>0, <1>4, <2>1, RecordedWorker
<1>5. CASE ConsumerTakes
  <2>1. Head(queue) \in Requests
    BY <1>5 DEF ConsumerTakes, TypeOK
  <2> QED
    BY <1>2, <1>5, <2>1, CallsFacts DEF ConsumerTakes
<1>6. CASE RecorderTakes
  <2>1. Head(rejections) \in Requests
    BY <1>6 DEF RecorderTakes, TypeOK
  <2> QED
    BY <1>2, <1>6, <2>1, CallsFacts DEF RecorderTakes
<1>7. CASE StartRetention
  <2>1. rounds + 1 \in 1..MaxRetentions
    BY <1>7, ChannelAssumption DEF StartRetention, TypeOK
  <2> QED
    BY <1>2, <1>7, <2>1, CallsFacts DEF StartRetention
<1>8. CASE RejectionDrainEnds
  BY <1>2, <1>8, CallsFacts DEF RejectionDrainEnds
<1>9. CASE ReplyArrives \/ ErrorArrives \/ CloseScope \/ \E c \in Calls : CallTimesOut(c)
  BY <1>3, <1>9 DEF ReplyArrives, ErrorArrives, CloseScope, CallTimesOut
<1>10. CASE \/ \E q \in Requests : RequestStep(q)
            \/ ConsumerResumes \/ RecorderResumes \/ RetentionResumes
            \/ BeginShutdown \/ DrainEnds \/ CloseQueues \/ UNCHANGED vars
  <2>1. UNCHANGED channelVars
    BY <1>10 DEF RequestStep, RefuseHeaders, Reserve, RefuseWriterFailed, RefuseShuttingDown,
         RefuseSaturated, BodyTooLarge, BodyUnreadable, Submit, SubmitDropped, Resume, Abort,
         ConsumerResumes, RecorderResumes, RetentionResumes, BeginShutdown, DrainEnds, CloseQueues, vars
  <2> QED
    BY <1>1, <2>1
<1> QED
  BY <1>4, <1>5, <1>6, <1>7, <1>8, <1>9, <1>10 DEF Next, Worker

\* The recorder waits for a call it has made.
LEMMA RecorderStep ==
  ASSUME TypeOK, RecorderInv, [Next]_vars
  PROVE  RecorderInv'
<1>1. ASSUME NEW r \in Requests  PROVE RecordedInv(r)' /\ (recorder' = r => call'[RejectCall(r)] # "idle")
  <2>1. RecordedInv(r)
    BY DEF RecorderInv, RecordedInv
  <2>2. RecordedInv(r)' /\ (call[RejectCall(r)] # "idle" => call'[RejectCall(r)] # "idle")
    BY <2>1, RecordedStep
  <2>3. CASE RecorderTakes
    <3>1. Head(rejections) \in Requests /\ recorder' = Head(rejections)
          /\ call' = [call EXCEPT ![RejectCall(Head(rejections))] = "pending"]
      BY <2>3 DEF RecorderTakes, PostCall, TypeOK
    <3> QED
      BY <2>2, <3>1, RejectCalls DEF TypeOK, ChannelTypeOK
  <2>4. CASE ~RecorderTakes
    <3>1. UNCHANGED recorder \/ recorder' = None
      BY <2>4 DEF Next, vars, rejectionVars, RequestStep, RefuseHeaders, Reserve, RefuseWriterFailed,
         RefuseShuttingDown, RefuseSaturated, BodyTooLarge, BodyUnreadable, Submit, SubmitDropped, Resume,
         Abort, RecordRejected, ConsumerTakes, ConsumerResumes, RecorderResumes, StartRetention,
         RetentionResumes, ReplyArrives, ErrorArrives, CallTimesOut, Worker, BeginShutdown, DrainEnds,
         RejectionDrainEnds, CloseQueues, CloseScope
    <3> QED
      BY <2>2, <3>1, AdmissionAssumption DEF RecorderInv
  <2> QED
    BY <2>2, <2>3, <2>4
<1> QED
  BY <1>1 DEF RecorderInv, RecordedInv

\* Where a refused request's rejection is.
Accounted(r) ==
  \/ \E i \in DOMAIN rejections : rejections[i] = r
  \/ recorder = r
  \/ rejected[r] + unpersisted[r] > 0

\* Recording a rejection accounts for it and loses no other.
LEMMA RecordRejectedAccounts ==
  ASSUME TypeOK, NEW r \in Requests, RecordRejected(r), UNCHANGED rejected
  PROVE  Accounted(r)' /\ \A q \in Requests : Accounted(q) => Accounted(q)'
<1>0. rejections \in Seq(Requests) /\ rejected \in [Requests -> Nat] /\ unpersisted \in [Requests -> Nat]
  BY DEF TypeOK, ChannelTypeOK
<1>1. CASE rejections' = Append(rejections, r) /\ UNCHANGED <<unpersisted, recorder>>
  <2>1. Len(rejections) + 1 \in DOMAIN rejections' /\ rejections'[Len(rejections) + 1] = r
    BY <1>0, <1>1, AppendFacts
  <2>2. \A i \in DOMAIN rejections : i \in DOMAIN rejections' /\ rejections'[i] = rejections[i]
    BY <1>0, <1>1, AppendFacts
  <2> QED
    BY <1>1, <2>1, <2>2 DEF Accounted
<1>2. CASE RecordUnpersisted(r) /\ UNCHANGED <<rejections, recorder>>
  <2>1. unpersisted'[r] = unpersisted[r] + 1 /\ \A q \in Requests : unpersisted'[q] >= unpersisted[q]
    BY <1>0, <1>2 DEF RecordUnpersisted
  <2>2. \A q \in Requests : rejected[q] \in Nat /\ unpersisted[q] \in Nat /\ unpersisted'[q] \in Nat
    BY <1>0, <1>2 DEF RecordUnpersisted
  <2> QED
    BY <1>2, <2>1, <2>2 DEF Accounted
<1> QED
  BY <1>1, <1>2 DEF RecordRejected

LEMMA RequestAccounts ==
  ASSUME TypeOK, ReplyInv, RejectionsAccounted, NEW r \in Requests, RequestStep(r)
  PROVE  RejectionsAccounted'
<1> USE DEF rejectionVars, channelVars, shutdownVars, requestVars, Answer
<1>1. UNCHANGED <<open, rejected>> /\ (RecordRejected(r) \/ UNCHANGED rejectionVars)
  BY DEF RequestStep, RefuseHeaders, Reserve, RefuseWriterFailed, RefuseShuttingDown,
         RefuseSaturated, BodyTooLarge, BodyUnreadable, Submit, SubmitDropped, Resume, Abort
<1>2. \A q \in Requests : Accounted(q) => Accounted(q)'
  BY <1>1, RecordRejectedAccounts DEF Accounted
<1>3. \A q \in Requests : q # r => client'[q] = client[q]
  BY DEF TypeOK, RequestStep, RefuseHeaders, Reserve, RefuseWriterFailed, RefuseShuttingDown,
         RefuseSaturated, BodyTooLarge, BodyUnreadable, Submit, SubmitDropped, Resume, Abort
<1>4. client'[r] \in {"refused", "too_large"} => RecordRejected(r) \/ client'[r] = client[r]
  <2>1. CASE RefuseHeaders(r) \/ RefuseShuttingDown(r) \/ RefuseSaturated(r) \/ BodyTooLarge(r) \/ SubmitDropped(r)
    BY <2>1 DEF RefuseHeaders, RefuseShuttingDown, RefuseSaturated, BodyTooLarge, SubmitDropped
  <2>2. CASE Reserve(r) \/ RefuseWriterFailed(r) \/ BodyUnreadable(r) \/ Submit(r) \/ Abort(r)
    BY <2>2 DEF TypeOK, Reserve, RefuseWriterFailed, BodyUnreadable, Submit, Abort
  <2>3. CASE Resume(r)
    <3>1. client'[r] = deferred[r] /\ deferred[r] = ResultOf(call[IngestCall(r)])
          /\ (deferred[r] = "too_large" => RecordRejected(r))
      BY <2>3 DEF Resume, ReplyInv, TypeOK
    <3>2. deferred[r] # "refused"
      BY <3>1 DEF ResultOf
    <3> QED
      BY <3>1, <3>2
  <2> QED
    BY <2>1, <2>2, <2>3 DEF RequestStep
<1>5. RecordRejected(r) => Accounted(r)'
  BY <1>1, RecordRejectedAccounts
<1> QED
  BY <1>1, <1>2, <1>3, <1>4, <1>5 DEF RejectionsAccounted, Accounted

\* The two steps of the recorder hand a rejection on.
LEMMA RecorderAccounts ==
  ASSUME TypeOK, RecorderInv, RejectionsAccounted, RecorderTakes \/ RecorderResumes
  PROVE  RejectionsAccounted'
<1> USE DEF shutdownVars, requestVars
<1>0. /\ rejections \in Seq(Requests) /\ rejected \in [Requests -> Nat] /\ unpersisted \in [Requests -> Nat]
      /\ recorder \in Requests \cup {None} /\ None \notin Requests
  BY AdmissionAssumption DEF TypeOK, ChannelTypeOK
<1>1. CASE RecorderTakes
  <2>1. /\ recorder = None /\ recorder' = Head(rejections) /\ rejections # <<>> /\ rejections' = Tail(rejections)
        /\ UNCHANGED <<open, client, rejected, unpersisted>>
    BY <1>1 DEF RecorderTakes
  <2>2. ASSUME NEW q \in Requests, NEW i \in DOMAIN rejections, rejections[i] = q  PROVE Accounted(q)'
    <3>1. CASE i = 1
      BY <1>0, <2>1, <2>2, <3>1, TailFacts DEF Accounted
    <3>2. CASE i # 1
      <4>1. i - 1 \in DOMAIN rejections' /\ rejections'[i - 1] = rejections[i]
        BY <1>0, <2>1, <3>2, SMTT(30)
      <4> QED
        BY <2>2, <4>1 DEF Accounted
    <3> QED
      BY <3>1, <3>2
  <2> QED
    BY <1>0, <2>1, <2>2 DEF RejectionsAccounted, Accounted
<1>2. CASE RecorderResumes
  <2>1. /\ recorder \in Requests /\ call[RejectCall(recorder)] # "pending"
        /\ IF Fatal(call[RejectCall(recorder)]) THEN RecordUnpersisted(recorder) ELSE UNCHANGED unpersisted
        /\ UNCHANGED <<open, client, rejected, rejections>>
    BY <1>0, <1>2 DEF RecorderResumes, channelVars
  <2>2. Fatal(call[RejectCall(recorder)]) \/ rejected[recorder] > 0
    BY <2>1 DEF RecorderInv, Recorded, Fatal, MaintenanceResponses
  <2>3. /\ unpersisted' \in [Requests -> Nat]
        /\ \A q \in Requests : unpersisted'[q] >= unpersisted[q]
        /\ rejected[recorder] > 0 \/ unpersisted'[recorder] > 0
    <3>1. CASE Fatal(call[RejectCall(recorder)])
      <4>1. unpersisted' = [unpersisted EXCEPT ![recorder] = @ + 1]
        BY <2>1, <3>1 DEF RecordUnpersisted
      <4>2. unpersisted'[recorder] = unpersisted[recorder] + 1
        BY <1>0, <2>1, <4>1
      <4> QED
        BY <1>0, <2>1, <4>1, <4>2
    <3>2. CASE ~Fatal(call[RejectCall(recorder)])
      BY <1>0, <2>1, <2>2, <3>2
    <3> QED
      BY <3>1, <3>2
  <2>4. \A q \in Requests : rejected[q] \in Nat /\ unpersisted[q] \in Nat /\ unpersisted'[q] \in Nat
    BY <1>0, <2>3
  <2>5. \A q \in Requests : Accounted(q) => Accounted(q)'
    BY <2>1, <2>3, <2>4 DEF Accounted
  <2> QED
    BY <2>1, <2>5 DEF RejectionsAccounted, Accounted
<1> QED
  BY <1>1, <1>2

LEMMA OtherAccounts ==
  ASSUME TypeOK, ShutdownInv, RecorderInv, RejectionsAccounted,
         \/ ConsumerTakes \/ ConsumerResumes \/ StartRetention \/ RetentionResumes
         \/ ReplyArrives \/ ErrorArrives
         \/ \E c \in Calls : CallTimesOut(c)
         \/ Worker
         \/ BeginShutdown \/ DrainEnds \/ RejectionDrainEnds \/ CloseQueues \/ CloseScope
         \/ UNCHANGED vars
  PROVE  RejectionsAccounted'
<1> USE DEF rejectionVars, shutdownVars, requestVars
<1>0. /\ rejected \in [Requests -> Nat] /\ unpersisted \in [Requests -> Nat]
      /\ consumer \in Requests \cup {None}
  BY DEF TypeOK, ChannelTypeOK
<1>1. CASE CloseQueues \/ CloseScope
  <2>1. ~open'
    BY <1>1 DEF CloseQueues, CloseScope, ShutdownInv
  <2> QED
    BY <2>1 DEF RejectionsAccounted
<1>2. CASE ~(CloseQueues \/ CloseScope)
  <2>1. UNCHANGED <<open, client, rejections, recorder>>
    BY <1>2 DEF ConsumerTakes, ConsumerResumes, StartRetention, RetentionResumes, ReplyArrives, ErrorArrives,
         CallTimesOut, Worker, BeginShutdown, DrainEnds, RejectionDrainEnds, vars
  <2>2. UNCHANGED unpersisted \/ unpersisted' = [unpersisted EXCEPT ![consumer] = @ + 1]
    <3>1. CASE ConsumerResumes
      BY <3>1 DEF ConsumerResumes, RecordUnpersisted
    <3>2. CASE ~ConsumerResumes
      <4>1. UNCHANGED unpersisted
        BY <1>2, <3>2 DEF ConsumerTakes, StartRetention, RetentionResumes, ReplyArrives, ErrorArrives,
             CallTimesOut, Worker, BeginShutdown, DrainEnds, RejectionDrainEnds, vars
      <4> QED
        BY <4>1
    <3> QED
      BY <3>1, <3>2
  <2>3. \A q \in Requests : unpersisted[q] \in Nat /\ unpersisted'[q] \in Nat /\ unpersisted'[q] >= unpersisted[q]
    BY <1>0, <2>2
  <2>4. \A q \in Requests : rejected'[q] >= rejected[q] /\ rejected[q] \in Nat /\ rejected'[q] \in Nat
    <3>1. [Next]_vars
      BY <1>2 DEF Next
    <3>2. \A q \in Requests : RecordedInv(q)
      BY DEF RecorderInv, RecordedInv
    <3>3. \A q \in Requests : rejected'[q] >= rejected[q]
      BY <3>1, <3>2, RecordedStep
    <3>4. TypeOK'
      <4>1. CASE UNCHANGED vars
        BY <4>1 DEF TypeOK, ChannelTypeOK, vars, channelVars, capacityVars, requestVars, queueVars,
           rejectionVars, retentionVars, shutdownVars
      <4>2. CASE ~UNCHANGED vars
        BY <4>2, OtherStepType, ZenonT(60)
      <4> QED
        BY <4>1, <4>2
    <3> QED
      BY <1>0, <3>3, <3>4 DEF TypeOK, ChannelTypeOK
  <2>5. \A q \in Requests : Accounted(q) => Accounted(q)'
    BY <2>1, <2>3, <2>4 DEF Accounted
  <2> QED
    BY <2>1, <2>5 DEF RejectionsAccounted, Accounted
<1> QED
  BY <1>1, <1>2

\* No rejection is lost while the queues are open.
THEOREM RejectionsCorrect == Spec => []RejectionsAccounted
<1>1. Init => RejectionsAccounted
  BY DEF Init, RejectionsAccounted
<1>2. Init => RecorderInv
  <2> SUFFICES ASSUME Init, NEW r \in Requests
               PROVE  RecordedInv(r) /\ (recorder = r => call[RejectCall(r)] # "idle")
    BY DEF RecorderInv, RecordedInv
  <2>1. recorder # r
    BY AdmissionAssumption DEF Init
  <2>2. call[RejectCall(r)] = "idle" /\ NoJob.call # RejectCall(r) /\ outbox = <<>> /\ job = NoJob
    BY RejectCalls DEF Init, ChannelInit, NoJob
  <2>3. DOMAIN outbox = {}
    BY <2>2
  <2> QED
    BY <2>1, <2>2, <2>3 DEF RecordedInv
<1>3. TypeOK /\ ShutdownInv /\ ReplyInv /\ RecorderInv /\ RejectionsAccounted /\ [Next]_vars
        => RejectionsAccounted'
  <2> SUFFICES ASSUME TypeOK, ShutdownInv, ReplyInv, RecorderInv, RejectionsAccounted, [Next]_vars
               PROVE  RejectionsAccounted'
    OBVIOUS
  <2> QED
    BY RequestAccounts, RecorderAccounts, OtherAccounts DEF Next
<1> QED
  BY <1>1, <1>2, <1>3, RecorderStep, TypeCorrect, IngestionInvariant, ShutdownCorrect, PTL DEF Spec

-----------------------------------------------------------------------------
(* The writer's failure.                                                    *)

\* What one step does to admission once the writer failed.
LEMMA FailureStep ==
  ASSUME TypeOK, SlotInv, FailureInv, [Next]_vars
  PROVE  /\ FailureInv'
         /\ writerFailure => /\ writerFailure' /\ ~accepting'
                             /\ \A r \in Requests : slot'[r] # "free" => slot[r] # "free"
<1> USE DEF MarkWriterUnavailable, shutdownVars, requestVars, capacityVars
<1>1. ASSUME NEW r \in Requests, RequestStep(r)
      PROVE  /\ UNCHANGED <<accepting, writerFailure>>
             /\ writerFailure => \A q \in Requests : slot'[q] # "free" => slot[q] # "free"
  <2>1. UNCHANGED <<accepting, writerFailure>>
    BY <1>1 DEF RequestStep, RefuseHeaders, Reserve, RefuseWriterFailed, RefuseShuttingDown,
         RefuseSaturated, BodyTooLarge, BodyUnreadable, Submit, SubmitDropped, Resume, Abort
  <2>2. writerFailure => ~Reserve(r)
    BY DEF FailureInv, Reserve, Admits
  <2>3. CASE Submit(r)
    BY <2>1, <2>3 DEF Submit, ReadsBody, TypeOK
  <2>4. CASE ~Reserve(r) /\ ~Submit(r)
    <3>1. slot' = slot \/ slot' = [slot EXCEPT ![r] = "free"]
      BY <1>1, <2>4 DEF RequestStep, RefuseHeaders, RefuseWriterFailed, RefuseShuttingDown,
         RefuseSaturated, BodyTooLarge, BodyUnreadable, SubmitDropped, Resume, Abort, Release
    <3> QED
      BY <2>1, <3>1 DEF TypeOK
  <2> QED
    BY <2>1, <2>2, <2>3, <2>4
<1>2. CASE ConsumerTakes
  <2>1. /\ UNCHANGED <<accepting, writerFailure>>
        /\ slot' = [slot EXCEPT ![Head(queue)] = "calling"]
        /\ Head(queue) = queue[1] /\ 1 \in DOMAIN queue
    BY <1>2, TailFacts DEF ConsumerTakes, TypeOK
  <2> QED
    BY <2>1 DEF FailureInv, SlotInv, TypeOK
<1>3. CASE ConsumerResumes
  <2>1. /\ UNCHANGED <<accepting, writerFailure>> \/ (~accepting' /\ writerFailure')
        /\ slot' = [slot EXCEPT ![consumer] = "free"]
    BY <1>3 DEF ConsumerResumes
  <2> QED
    BY <2>1 DEF FailureInv, TypeOK
<1>4. CASE RecorderResumes \/ RetentionResumes \/ ErrorArrives \/ BeginShutdown \/ CloseQueues
  <2>1. /\ \/ UNCHANGED <<accepting, writerFailure>>
           \/ ~accepting' /\ writerFailure'
           \/ ~accepting' /\ UNCHANGED writerFailure
        /\ UNCHANGED slot
    BY <1>4 DEF RecorderResumes, RetentionResumes, ErrorArrives, BeginShutdown, CloseQueues
  <2> QED
    BY <2>1 DEF FailureInv
<1>5. CASE \/ RecorderTakes \/ StartRetention \/ ReplyArrives \/ (\E c \in Calls : CallTimesOut(c)) \/ Worker
           \/ DrainEnds \/ RejectionDrainEnds \/ CloseScope \/ UNCHANGED vars
  <2>1. UNCHANGED <<accepting, writerFailure, slot>>
    BY <1>5 DEF RecorderTakes, StartRetention, ReplyArrives, CallTimesOut, Worker, DrainEnds,
         RejectionDrainEnds, CloseScope, vars
  <2> QED
    BY <2>1 DEF FailureInv
<1> QED
  BY <1>1, <1>2, <1>3, <1>4, <1>5 DEF Next, FailureInv

\* Once the writer failed, admission is over and no request gets a reservation.
THEOREM FailureCorrect == Spec => FailureStopsAdmission
<1>1. Init => FailureInv
  BY DEF Init, FailureInv
<1>2. TypeOK /\ SlotInv /\ FailureInv /\ [Next]_vars
        => /\ FailureInv'
           /\ [writerFailure => /\ writerFailure' /\ ~accepting'
                                /\ \A r \in Requests : slot'[r] # "free" => slot[r] # "free"]_vars
  BY FailureStep
<1> QED
  BY <1>1, <1>2, TypeCorrect, SlotsCorrect, PTL DEF Spec, FailureStopsAdmission

=============================================================================
