---------------------------- MODULE QueryTransport ----------------------------
(***************************************************************************)
(* The isolated Query worker of the Daemon: makeQueryTransport of          *)
(* query-transport.ts and the Bun worker of query-worker.ts.  Calls take   *)
(* turns; a worker whose query passes its deadline or is aborted is thrown *)
(* away, and the next call starts another one.                             *)
(*                                                                         *)
(* A step is one event of the main thread with the promise reactions it    *)
(* triggers, up to the start of the next turn, or one step of a worker.    *)
(* The loop of close is split further, one step per state it visits.       *)
(* The identities of workers are reused after dispose, which removes the   *)
(* listeners of the old one.  The specification starts after openQueryReader *)
(* has initialized its first worker.                                       *)
(***************************************************************************)
EXTENDS Naturals, Sequences

CONSTANTS
  Queries,         \* calls of the transport, each made once with its own id
  Workers,         \* identities of Worker objects
  MaxWorkerErrors, \* bound: "error" events the workers raise
  None

ASSUME QueryAssumption ==
  /\ None \notin Workers
  /\ None \notin Queries
  /\ MaxWorkerErrors \in Nat
  /\ Workers # {}

VARIABLES
  call,     \* per query: "idle", "queued", "starting" (awaits ensureState), "posted" or its outcome
  aborted,  \* the queries whose AbortSignal fired
  turns,    \* the turn chain: the first is being served
  live,     \* states: workers created and not disposed
  current,  \* the initialized worker, or None
  starting, \* the worker whose initialization is awaited, or None
  pending,  \* per worker: ids that await a response
  inbox,    \* per worker: requests posted and not yet handled
  outbox,   \* per worker: responses and error events not yet delivered
  errors,   \* error events raised so far
  phase,    \* "open", "closing" (closed = true), "sweeping" or "closed"
  sweep,    \* the states close has still to dispose of
  asked,    \* the worker close has asked to shut down, or None
  served    \* the queries a worker has executed

callVars   == <<call, aborted, turns>>
workerVars == <<live, current, starting, pending, inbox, outbox>>
closeVars  == <<phase, sweep, asked>>
vars == <<callVars, workerVars, errors, closeVars, served>>

Outcomes == {"answered", "timeout", "aborted", "failed"}

QueryCall(q) == <<"query", q>>
InitCall     == <<"initialize", None>>
ShutdownCall == <<"shutdown", None>>
ErrorEvent   == <<"error", None>>
Refusal      == <<"initialize-failed", None>>

Ids    == {QueryCall(q) : q \in Queries} \cup {InitCall, ShutdownCall}
Events == Ids \cup {ErrorEvent, Refusal}

TypeOK ==
  /\ call \in [Queries -> {"idle", "queued", "starting", "posted"} \cup Outcomes]
  /\ aborted \subseteq Queries
  /\ turns \in Seq(Queries)
  /\ live \subseteq Workers
  /\ current \in Workers \cup {None}
  /\ starting \in Workers \cup {None}
  /\ pending \in [Workers -> SUBSET Ids]
  /\ inbox \in [Workers -> Seq(Ids)]
  /\ outbox \in [Workers -> Seq(Events)]
  /\ errors \in Nat
  /\ phase \in {"open", "closing", "sweeping", "closed"}
  /\ sweep \subseteq Workers
  /\ asked \in Workers \cup {None}
  /\ served \subseteq Queries

Init ==
  /\ call = [q \in Queries |-> "idle"]
  /\ aborted = {}
  /\ turns = <<>>
  /\ \E w \in Workers : live = {w} /\ current = w
  /\ starting = None
  /\ pending = [w \in Workers |-> {}]
  /\ inbox = [w \in Workers |-> <<>>]
  /\ outbox = [w \in Workers |-> <<>>]
  /\ errors = 0
  /\ phase = "open" /\ sweep = {} /\ asked = None
  /\ served = {}

-----------------------------------------------------------------------------
(* Helpers.                                                                 *)

\* requestOn: the waiter is registered, then the message posted.
Request(w, id) ==
  /\ pending' = [pending EXCEPT ![w] = @ \cup {id}]
  /\ inbox' = [inbox EXCEPT ![w] = Append(@, id)]

\* Mutant: the transport still refers to the worker it disposed of.
DisposeKeepsCurrent(w) ==
  /\ live' = live \ {w}
  /\ starting' = IF starting = w THEN None ELSE starting
  /\ pending' = [pending EXCEPT ![w] = {}]
  /\ inbox' = [inbox EXCEPT ![w] = <<>>]
  /\ outbox' = [outbox EXCEPT ![w] = <<>>]
  /\ UNCHANGED current

\* dispose: the state leaves `states`, its listeners are removed, its waiters
\* rejected, and the worker is terminated.
Dispose(w) ==
  /\ live' = live \ {w}
  /\ current' = IF current = w THEN None ELSE current
  /\ starting' = IF starting = w THEN None ELSE starting
  /\ pending' = [pending EXCEPT ![w] = {}]
  /\ inbox' = [inbox EXCEPT ![w] = <<>>]
  /\ outbox' = [outbox EXCEPT ![w] = <<>>]

\* The query whose turn it is settles, and the chain moves on.
Settle(q, outcome) ==
  /\ call' = [call EXCEPT ![q] = outcome]
  /\ turns' = Tail(turns)

\* Mutant: the waiter of an initialization is not rejected.
WaitsForAnswer(q, w) == call[q] = "posted" /\ QueryCall(q) \in pending[w]

\* The query that awaits an answer of w, or its initialization.
WaitsFor(q, w) ==
  \/ call[q] = "posted" /\ QueryCall(q) \in pending[w]
  \/ call[q] = "starting" /\ starting = w

\* Mutant: the cause of the loss is passed on as it is.
LosePassesCause(w) ==
  /\ Dispose(w)
  /\ IF turns # <<>> /\ WaitsFor(Head(turns), w)
     THEN Settle(Head(turns), "lost")
     ELSE UNCHANGED <<call, turns>>

\* A worker is lost: whoever waits for it fails.
Lose(w) ==
  /\ Dispose(w)
  /\ IF turns # <<>> /\ WaitsFor(Head(turns), w)
     THEN Settle(Head(turns), "failed")
     ELSE UNCHANGED <<call, turns>>

\* Mutant: calls do not take turns.
HasTurnAtOnce(q) == \E i \in DOMAIN turns : turns[i] = q

HasTurn(q) == turns # <<>> /\ Head(turns) = q

-----------------------------------------------------------------------------
(* Calls and their turns.                                                   *)

Call(q) ==
  /\ call[q] = "idle"
  /\ call' = [call EXCEPT ![q] = "queued"]
  /\ turns' = Append(turns, q)
  /\ UNCHANGED <<aborted, workerVars, errors, closeVars, served>>

TurnAborted(q) ==
  /\ HasTurn(q) /\ call[q] = "queued"
  /\ q \in aborted
  /\ Settle(q, "aborted")
  /\ UNCHANGED <<aborted, workerVars, errors, closeVars, served>>

\* ensureState refuses once closed.
TurnRefused(q) ==
  /\ HasTurn(q) /\ call[q] = "queued"
  /\ q \notin aborted
  /\ phase # "open"
  /\ Settle(q, "failed")
  /\ UNCHANGED <<aborted, workerVars, errors, closeVars, served>>

\* Mutant: ensureState does not look at `closed`.
TakesTurnUnchecked(q) ==
  /\ HasTurn(q) /\ call[q] = "queued"
  /\ q \notin aborted

TakesTurn(q) ==
  /\ HasTurn(q) /\ call[q] = "queued"
  /\ q \notin aborted
  /\ phase = "open"

TurnPosts(q) ==
  /\ TakesTurn(q)
  /\ current # None
  /\ Request(current, QueryCall(q))
  /\ call' = [call EXCEPT ![q] = "posted"]
  /\ UNCHANGED <<aborted, turns, live, current, starting, outbox, errors, closeVars, served>>

\* The request cannot be posted: the worker is thrown away with it.
TurnPostFails(q) ==
  /\ TakesTurn(q)
  /\ current # None
  /\ Dispose(current)
  /\ Settle(q, "failed")
  /\ UNCHANGED <<aborted, errors, closeVars, served>>

\* ensureState: no worker, so one is created and initialized, or joined.
TurnStarts(q) ==
  /\ TakesTurn(q)
  /\ current = None
  /\ call' = [call EXCEPT ![q] = "starting"]
  /\ IF starting # None
     THEN UNCHANGED <<live, starting, pending, inbox>>
     ELSE \E w \in Workers \ live :
            /\ live' = live \cup {w}
            /\ starting' = w
            /\ Request(w, InitCall)
  /\ UNCHANGED <<aborted, turns, current, outbox, errors, closeVars, served>>

\* createState throws.
TurnCannotStart(q) ==
  /\ TakesTurn(q)
  /\ current = None /\ starting = None
  /\ Settle(q, "failed")
  /\ UNCHANGED <<aborted, workerVars, errors, closeVars, served>>

\* The caller goes away before anything was posted for it: its turn will tell.
AbortWaiting(q) ==
  /\ call[q] \in {"queued", "starting"}
  /\ q \notin aborted
  /\ aborted' = aborted \cup {q}
  /\ UNCHANGED <<call, turns, workerVars, errors, closeVars, served>>

\* onAbort: the query in execution is given up, and the worker with it.
AbortPosted(q) ==
  /\ call[q] = "posted"
  /\ aborted' = aborted \cup {q}
  /\ \E w \in live : QueryCall(q) \in pending[w] /\ Dispose(w)
  /\ Settle(q, "aborted")
  /\ UNCHANGED <<errors, closeVars, served>>

\* Mutant: the deadline gives up the query but keeps its worker.
DeadlineKeepsWorker(q) ==
  /\ call[q] = "posted"
  /\ pending' = [w \in Workers |-> pending[w] \ {QueryCall(q)}]
  /\ Settle(q, "timeout")
  /\ UNCHANGED <<aborted, live, current, starting, inbox, outbox, errors, closeVars, served>>

Deadline(q) ==
  /\ call[q] = "posted"
  /\ \E w \in live : QueryCall(q) \in pending[w] /\ Dispose(w)
  /\ Settle(q, "timeout")
  /\ UNCHANGED <<aborted, errors, closeVars, served>>

\* The initialization passes the same deadline; its caller sees a query timeout.
StartDeadline(q) ==
  /\ HasTurn(q) /\ call[q] = "starting"
  /\ starting # None
  /\ Dispose(starting)
  /\ Settle(q, "timeout")
  /\ UNCHANGED <<aborted, errors, closeVars, served>>

-----------------------------------------------------------------------------
(* Events of a worker.                                                      *)

Delivers(w, event) == w \in live /\ outbox[w] # <<>> /\ Head(outbox[w]) = event

\* The worker is ready; the query that waited for it is posted, unless it was
\* aborted meanwhile, which throws the new worker away.
Ready(q, w) ==
  /\ Delivers(w, InitCall)
  /\ HasTurn(q) /\ call[q] = "starting"
  /\ IF q \in aborted
     THEN Dispose(w) /\ Settle(q, "aborted")
     ELSE /\ starting' = None
          /\ current' = w
          /\ pending' = [pending EXCEPT ![w] = (@ \ {InitCall}) \cup {QueryCall(q)}]
          /\ inbox' = [inbox EXCEPT ![w] = Append(@, QueryCall(q))]
          /\ outbox' = [outbox EXCEPT ![w] = Tail(@)]
          /\ call' = [call EXCEPT ![q] = "posted"]
          /\ UNCHANGED <<turns, live>>
  /\ UNCHANGED <<aborted, errors, closeVars, served>>

\* onMessage: a response resolves the waiter of its id, if there is one.
Answer(q, w) ==
  /\ Delivers(w, QueryCall(q))
  /\ outbox' = [outbox EXCEPT ![w] = Tail(@)]
  /\ pending' = [pending EXCEPT ![w] = @ \ {QueryCall(q)}]
  /\ IF QueryCall(q) \in pending[w]
     THEN Settle(q, "answered")
     ELSE UNCHANGED <<call, turns>>
  /\ UNCHANGED <<aborted, live, current, starting, inbox, errors, closeVars, served>>

ShutdownAnswered(w) ==
  /\ Delivers(w, ShutdownCall)
  /\ outbox' = [outbox EXCEPT ![w] = Tail(@)]
  /\ pending' = [pending EXCEPT ![w] = @ \ {ShutdownCall}]
  /\ UNCHANGED <<callVars, live, current, starting, inbox, errors, closeVars, served>>

\* onError, a response that does not decode, or an initialization that failed.
WorkerLost(w) ==
  /\ Delivers(w, ErrorEvent) \/ Delivers(w, Refusal)
  /\ Lose(w)
  /\ UNCHANGED <<aborted, errors, closeVars, served>>

-----------------------------------------------------------------------------
(* The worker: one message at a time.                                       *)

WorkerHandles(w, id) ==
  /\ w \in live /\ inbox[w] # <<>> /\ Head(inbox[w]) = id
  /\ inbox' = [inbox EXCEPT ![w] = Tail(@)]

WorkerPosts(w, event) == outbox' = [outbox EXCEPT ![w] = Append(@, event)]

WorkerAnswers(w) ==
  /\ \E id \in Ids :
       /\ WorkerHandles(w, id)
       /\ \/ WorkerPosts(w, id)
          \/ id = InitCall /\ WorkerPosts(w, Refusal)
       /\ served' = served \cup {q \in Queries : id = QueryCall(q)}
  /\ UNCHANGED <<callVars, live, current, starting, pending, errors, closeVars>>

\* A rejection of the message chain is swallowed: nothing is posted.
WorkerSwallows(w) ==
  /\ \E id \in Ids : WorkerHandles(w, id)
  /\ UNCHANGED <<callVars, live, current, starting, pending, outbox, errors, closeVars, served>>

WorkerErrs(w) ==
  /\ w \in live
  /\ errors < MaxWorkerErrors
  /\ errors' = errors + 1
  /\ WorkerPosts(w, ErrorEvent)
  /\ UNCHANGED <<callVars, live, current, starting, pending, inbox, closeVars, served>>

-----------------------------------------------------------------------------
(* close.                                                                   *)

Close ==
  /\ phase = "open"
  /\ phase' = "closing"
  /\ UNCHANGED <<callVars, workerVars, errors, sweep, asked, served>>

\* Mutant: only the initialized worker is terminated.
CloseSweepsCurrent ==
  /\ phase = "closing"
  /\ phase' = "sweeping"
  /\ sweep' = {current} \ {None}
  /\ UNCHANGED <<callVars, workerVars, errors, asked, served>>

\* The turn chain has settled, or 250 ms have passed.
CloseSweeps ==
  /\ phase = "closing"
  /\ phase' = "sweeping"
  /\ sweep' = live
  /\ UNCHANGED <<callVars, workerVars, errors, asked, served>>

\* An idle worker is asked to shut down.
CloseAsks(w) ==
  /\ phase = "sweeping" /\ asked = None
  /\ w \in sweep /\ w \in live /\ pending[w] = {}
  /\ asked' = w
  /\ Request(w, ShutdownCall)
  /\ UNCHANGED <<callVars, live, current, starting, outbox, errors, phase, sweep, served>>

\* Mutant: the shutdown request is waited for without a limit.
CloseDisposesAnswered(w) ==
  /\ phase = "sweeping"
  /\ w \in sweep
  /\ IF asked = w THEN pending[w] = {} ELSE asked = None /\ (w \notin live \/ pending[w] # {})
  /\ Lose(w)
  /\ sweep' = sweep \ {w}
  /\ asked' = None
  /\ UNCHANGED <<aborted, errors, phase, served>>

\* A busy worker, or one that answered or had its 250 ms, is disposed of.
CloseDisposes(w) ==
  /\ phase = "sweeping"
  /\ w \in sweep
  /\ asked = w \/ (asked = None /\ (w \notin live \/ pending[w] # {}))
  /\ Lose(w)
  /\ sweep' = sweep \ {w}
  /\ asked' = None
  /\ UNCHANGED <<aborted, errors, phase, served>>

CloseEnds ==
  /\ phase = "sweeping" /\ sweep = {}
  /\ phase' = "closed"
  /\ UNCHANGED <<callVars, workerVars, errors, sweep, asked, served>>

-----------------------------------------------------------------------------
TurnStep(q) ==
  \/ TurnAborted(q) \/ TurnRefused(q) \/ TurnPosts(q) \/ TurnPostFails(q)
  \/ TurnStarts(q) \/ TurnCannotStart(q)

WorkerEvent(w) ==
  \/ \E q \in Queries : Ready(q, w) \/ Answer(q, w)
  \/ ShutdownAnswered(w)
  \/ WorkerLost(w)

Next ==
  \/ \E q \in Queries : \/ Call(q) \/ TurnStep(q)
                        \/ AbortWaiting(q) \/ AbortPosted(q)
                        \/ Deadline(q) \/ StartDeadline(q)
  \/ \E w \in Workers : \/ WorkerEvent(w)
                        \/ WorkerAnswers(w) \/ WorkerSwallows(w) \/ WorkerErrs(w)
                        \/ CloseAsks(w) \/ CloseDisposes(w)
  \/ Close \/ CloseSweeps \/ CloseEnds

(***************************************************************************)
(* The event loop runs, timers fire and posted events are delivered.       *)
(* Nothing is assumed of the workers or of the callers.                    *)
(***************************************************************************)
Fairness ==
  /\ \A q \in Queries : /\ WF_vars(TurnStep(q))
                        /\ WF_vars(Deadline(q)) /\ WF_vars(StartDeadline(q))
  /\ \A w \in Workers : /\ WF_vars(WorkerEvent(w))
                        /\ WF_vars(CloseAsks(w) \/ CloseDisposes(w))
  /\ WF_vars(CloseSweeps) /\ WF_vars(CloseEnds)

Spec     == Init /\ [][Next]_vars
FairSpec == Spec /\ Fairness

=============================================================================
