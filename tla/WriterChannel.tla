---------------------------- MODULE WriterChannel ----------------------------
(***************************************************************************)
(* The telemetry writer as the Daemon's main thread sees it: the request   *)
(* and response channel of writer-transport.ts and the Bun worker of       *)
(* writer-worker.ts behind it.  The worker owns the write connection, so   *)
(* its commits are the only ones; what a commit contains is abstracted to  *)
(* a counter per request.                                                  *)
(*                                                                         *)
(* The actions below describe the channel's and the worker's part of a     *)
(* step; IngestionAdmission conjoins what the main thread does.            *)
(***************************************************************************)
EXTENDS Naturals, Sequences

CONSTANTS
  Requests,        \* OTLP export requests, one identity per HTTP request
  MaxRetentions,   \* bound: retention rounds the Daemon's loop starts
  MaxWorkerErrors  \* bound: "error" events the worker raises

ASSUME ChannelAssumption == MaxRetentions \in Nat /\ MaxWorkerErrors \in Nat

(***************************************************************************)
(* Every call carries a fresh crypto.randomUUID(); here the identity of a  *)
(* call is what it is for, which is as unique because each is made once.   *)
(***************************************************************************)
IngestCall(r)    == <<"ingest", r>>
RejectCall(r)    == <<"record-rejected", r>>
RetentionCall(n) == <<"retention", n>>
ShutdownCall     == <<"shutdown", 0>>
NoCall           == <<"none", 0>>

Calls == {IngestCall(r) : r \in Requests} \cup {RejectCall(r) : r \in Requests}
           \cup {RetentionCall(n) : n \in 1..MaxRetentions} \cup {ShutdownCall}

\* What the decoder can say of a body; "malformed_payload" also stands for
\* invalid_trace_id and invalid_span_id.  The media type was checked by reserve.
DecodeFailures == {"malformed_payload", "decompressed_too_large"}

IngestResponses      == {"ingest-success", "storage_unavailable"} \cup DecodeFailures
MaintenanceResponses == {"maintenance-success", "maintenance_failed"}
Responses            == IngestResponses \cup MaintenanceResponses \cup {"shutdown-success"}

NoJob      == [call |-> NoCall, response |-> "none"]
ErrorEvent == [call |-> NoCall, response |-> "error"]
Replies    == [call : Calls, response : Responses]

VARIABLES
  call,      \* per call: "idle", "pending" (in the pending map), "failed" or its response
  inbox,     \* messages posted to the worker and not yet handled, oldest first
  job,       \* the request the worker has executed and not yet answered, or NoJob
  outbox,    \* messages and error events on their way to the main thread
  worker,    \* "running", "closed" (after shutdown) or "dead"
  errors,    \* error events raised so far
  stored,    \* per request: committed write transactions
  rejected   \* per request: increments of rejected_requests committed for it

channelVars == <<call, inbox, job, outbox, worker, errors, stored, rejected>>

ChannelTypeOK ==
  /\ call \in [Calls -> {"idle", "pending", "failed"} \cup Responses]
  /\ inbox \in Seq(Calls)
  /\ job \in Replies \cup {NoJob}
  /\ outbox \in Seq(Replies \cup {ErrorEvent})
  /\ worker \in {"running", "closed", "dead"}
  /\ errors \in Nat
  /\ stored \in [Requests -> Nat]
  /\ rejected \in [Requests -> Nat]

ChannelInit ==
  /\ call = [c \in Calls |-> "idle"]
  /\ inbox = <<>>
  /\ job = NoJob
  /\ outbox = <<>>
  /\ worker = "running"
  /\ errors = 0
  /\ stored = [r \in Requests |-> 0]
  /\ rejected = [r \in Requests |-> 0]

-----------------------------------------------------------------------------
(* The main thread's side: call, onMessage, onError, the response timeout.  *)

\* A message posted to a worker that has gone is dropped without an error.
PostCall(c) ==
  /\ call' = [call EXCEPT ![c] = "pending"]
  /\ inbox' = IF worker = "running" THEN Append(inbox, c) ELSE inbox

\* A response whose call has left the pending map is ignored.
DeliverReply ==
  /\ outbox # <<>>
  /\ Head(outbox) # ErrorEvent
  /\ outbox' = Tail(outbox)
  /\ call' = LET reply == Head(outbox)
             IN  IF call[reply.call] = "pending"
                 THEN [call EXCEPT ![reply.call] = reply.response]
                 ELSE call
  /\ UNCHANGED <<inbox, job, worker, errors, stored, rejected>>

FailPending == [c \in Calls |-> IF call[c] = "pending" THEN "failed" ELSE call[c]]

DeliverError ==
  /\ outbox # <<>>
  /\ Head(outbox) = ErrorEvent
  /\ outbox' = Tail(outbox)
  /\ call' = FailPending
  /\ UNCHANGED <<inbox, job, worker, errors, stored, rejected>>

\* Mutant: only the shutdown call has a response timeout.
ExpireCallOnlyShutdown(c) ==
  /\ c = ShutdownCall
  /\ call[c] = "pending"
  /\ call' = [call EXCEPT ![c] = "failed"]
  /\ UNCHANGED <<inbox, job, outbox, worker, errors, stored, rejected>>

\* Mutant: the shutdown call waits for its answer without a timeout.
ExpireCallNotShutdown(c) ==
  /\ c # ShutdownCall
  /\ call[c] = "pending"
  /\ call' = [call EXCEPT ![c] = "failed"]
  /\ UNCHANGED <<inbox, job, outbox, worker, errors, stored, rejected>>

\* The caller gives up; the worker still holds the message.
ExpireCall(c) ==
  /\ call[c] = "pending"
  /\ call' = [call EXCEPT ![c] = "failed"]
  /\ UNCHANGED <<inbox, job, outbox, worker, errors, stored, rejected>>

\* The transport's scope closes: listeners removed, waiters failed, worker terminated.
CloseTransport ==
  /\ call' = FailPending
  /\ inbox' = <<>>
  /\ job' = NoJob
  /\ outbox' = <<>>
  /\ worker' = "dead"
  /\ UNCHANGED <<errors, stored, rejected>>

-----------------------------------------------------------------------------
(* The worker's side.  messageChain handles one message at a time; a step   *)
(* ends with the transaction, the answer is posted by a later one, so that  *)
(* an error can fall between the two.                                       *)

Handles(c) ==
  /\ worker = "running"
  /\ job = NoJob
  /\ inbox # <<>>
  /\ Head(inbox) = c
  /\ inbox' = Tail(inbox)
  /\ UNCHANGED <<call, outbox, worker, errors>>

Answers(c, response) == job' = [call |-> c, response |-> response]

\* Decode, normalise and commit one transaction.
WorkerStores(r) ==
  /\ Handles(IngestCall(r))
  /\ Answers(IngestCall(r), "ingest-success")
  /\ stored' = [stored EXCEPT ![r] = @ + 1]
  /\ UNCHANGED rejected

\* The write transaction fails and rolls back.
WorkerCannotStore(r) ==
  /\ Handles(IngestCall(r))
  /\ Answers(IngestCall(r), "storage_unavailable")
  /\ UNCHANGED <<stored, rejected>>

\* The body is refused; recording that may fail, which the worker ignores.
WorkerRefuses(r) ==
  /\ Handles(IngestCall(r))
  /\ \E failure \in DecodeFailures : Answers(IngestCall(r), failure)
  /\ \E recorded \in {0, 1} : rejected' = [rejected EXCEPT ![r] = @ + recorded]
  /\ UNCHANGED stored

\* maintenance "record-rejected": one transaction of recordIngestionFailure.
WorkerRecordsRejection(r) ==
  /\ Handles(RejectCall(r))
  /\ \/ /\ Answers(RejectCall(r), "maintenance-success")
        /\ rejected' = [rejected EXCEPT ![r] = @ + 1]
     \/ /\ Answers(RejectCall(r), "maintenance_failed")
        /\ UNCHANGED rejected
  /\ UNCHANGED stored

\* maintenance "retention"; what it deletes is another module's subject.
WorkerRetains(n) ==
  /\ Handles(RetentionCall(n))
  /\ \E response \in MaintenanceResponses : Answers(RetentionCall(n), response)
  /\ UNCHANGED <<stored, rejected>>

\* Checkpoint and close the Store.
WorkerShutsDown ==
  /\ Handles(ShutdownCall)
  /\ Answers(ShutdownCall, "shutdown-success")
  /\ UNCHANGED <<stored, rejected>>

WorkerPosts ==
  /\ worker = "running"
  /\ job # NoJob
  /\ outbox' = Append(outbox, job)
  /\ job' = NoJob
  /\ worker' = IF job.response = "shutdown-success" THEN "closed" ELSE "running"
  /\ inbox' = IF job.response = "shutdown-success" THEN <<>> ELSE inbox
  /\ UNCHANGED <<call, errors, stored, rejected>>

\* An uncaught error in the worker raises an "error" event; the worker may
\* survive it or be gone with everything it had not answered.
WorkerErrs ==
  /\ worker = "running"
  /\ errors < MaxWorkerErrors
  /\ errors' = errors + 1
  /\ outbox' = Append(outbox, ErrorEvent)
  /\ \/ UNCHANGED <<worker, inbox, job>>
     \/ worker' = "dead" /\ inbox' = <<>> /\ job' = NoJob
  /\ UNCHANGED <<call, stored, rejected>>

WorkerStep ==
  \/ \E r \in Requests : \/ WorkerStores(r)
                         \/ WorkerCannotStore(r)
                         \/ WorkerRefuses(r)
                         \/ WorkerRecordsRejection(r)
  \/ \E n \in 1..MaxRetentions : WorkerRetains(n)
  \/ WorkerShutsDown
  \/ WorkerPosts
  \/ WorkerErrs

=============================================================================
