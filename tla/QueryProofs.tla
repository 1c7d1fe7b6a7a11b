----------------------------- MODULE QueryProofs -----------------------------
(***************************************************************************)
(* Theorems about QueryTransport, for every set of queries and workers and *)
(* every number of worker errors.                                          *)
(***************************************************************************)
EXTENDS QueryProperties, FiniteSetTheorems, TLAPS

-----------------------------------------------------------------------------
(* Identities.                                                              *)

LEMMA IdFacts ==
  /\ InitCall \in Ids /\ ShutdownCall \in Ids /\ \A q \in Queries : QueryCall(q) \in Ids
  /\ InitCall # ShutdownCall
  /\ \A q : QueryCall(q) \notin {InitCall, ShutdownCall, ErrorEvent, Refusal}
  /\ \A q, r : QueryCall(q) = QueryCall(r) => q = r
  /\ Ids \subseteq Events /\ ErrorEvent \in Events /\ Refusal \in Events
BY DEF Ids, Events, InitCall, ShutdownCall, QueryCall, ErrorEvent, Refusal

-----------------------------------------------------------------------------
(* Types.                                                                   *)

WorkerTypeOK ==
  /\ live \subseteq Workers
  /\ current \in Workers \cup {None}
  /\ starting \in Workers \cup {None}
  /\ pending \in [Workers -> SUBSET Ids]
  /\ inbox \in [Workers -> Seq(Ids)]
  /\ outbox \in [Workers -> Seq(Events)]

LEMMA DisposeType ==
  ASSUME TypeOK, NEW w \in Workers, Dispose(w)
  PROVE  WorkerTypeOK'
BY DEF TypeOK, Dispose, WorkerTypeOK

LEMMA SettleType ==
  ASSUME TypeOK, NEW q \in Queries, NEW kind \in Outcomes, Settle(q, kind), turns # <<>>
  PROVE  /\ call' \in [Queries -> {"idle", "queued", "starting", "posted"} \cup Outcomes]
         /\ turns' \in Seq(Queries)
BY DEF TypeOK, Settle

LEMMA LoseType ==
  ASSUME TypeOK, NEW w \in Workers, Lose(w)
  PROVE  /\ WorkerTypeOK'
         /\ call' \in [Queries -> {"idle", "queued", "starting", "posted"} \cup Outcomes]
         /\ turns' \in Seq(Queries)
<1>1. WorkerTypeOK'
  BY DisposeType DEF Lose
<1>2. CASE turns # <<>> /\ WaitsFor(Head(turns), w)
  <2>1. Head(turns) \in Queries /\ Settle(Head(turns), "failed") /\ "failed" \in Outcomes
    BY <1>2 DEF TypeOK, Lose, Outcomes
  <2> QED
    BY <1>1, <1>2, <2>1, SettleType
<1>3. CASE ~(turns # <<>> /\ WaitsFor(Head(turns), w))
  BY <1>1, <1>3 DEF TypeOK, Lose
<1> QED
  BY <1>2, <1>3

LEMMA RequestType ==
  ASSUME TypeOK, NEW w \in Workers, NEW id \in Ids, Request(w, id)
  PROVE  pending' \in [Workers -> SUBSET Ids] /\ inbox' \in [Workers -> Seq(Ids)]
BY DEF TypeOK, Request

LEMMA QueryStepType ==
  ASSUME TypeOK, TurnInv, NEW q \in Queries,
         \/ Call(q) \/ TurnStep(q) \/ AbortWaiting(q) \/ AbortPosted(q) \/ Deadline(q) \/ StartDeadline(q)
  PROVE  TypeOK'
<1> USE DEF callVars, workerVars, closeVars
<1>0. Outcomes = {"answered", "timeout", "aborted", "failed"}
  BY DEF Outcomes
<1>a. HasTurn(q) => turns # <<>>
  BY DEF HasTurn
<1>b. call[q] = "posted" => turns # <<>>
  BY DEF TurnInv, HasTurn
<1>1. CASE Call(q)
  BY <1>1 DEF TypeOK, Call
<1>2. CASE TurnAborted(q) \/ TurnRefused(q) \/ TurnCannotStart(q)
  BY <1>2, <1>0, <1>a, SettleType DEF TypeOK, TurnAborted, TurnRefused, TurnCannotStart, TakesTurn
<1>3. CASE TurnPosts(q)
  <2>1. pending' \in [Workers -> SUBSET Ids] /\ inbox' \in [Workers -> Seq(Ids)]
    BY <1>3, IdFacts, RequestType DEF TurnPosts, TypeOK
  <2> QED
    BY <1>3, <2>1 DEF TypeOK, TurnPosts
<1>4. CASE TurnPostFails(q)
  <2>1. WorkerTypeOK'
    BY <1>4, DisposeType DEF TypeOK, TurnPostFails
  <2> QED
    BY <1>4, <1>0, <1>a, <2>1, SettleType DEF TypeOK, WorkerTypeOK, TurnPostFails, TakesTurn
<1>5. CASE TurnStarts(q)
  <2>1. CASE starting # None
    BY <1>5, <2>1 DEF TypeOK, TurnStarts
  <2>2. CASE starting = None
    <3>1. PICK w \in Workers \ live : live' = live \cup {w} /\ starting' = w /\ Request(w, InitCall)
      BY <1>5, <2>2 DEF TurnStarts
    <3>2. pending' \in [Workers -> SUBSET Ids] /\ inbox' \in [Workers -> Seq(Ids)]
      BY <3>1, IdFacts, RequestType
    <3> QED
      BY <1>5, <3>1, <3>2 DEF TypeOK, TurnStarts
  <2> QED
    BY <2>1, <2>2
<1>6. CASE AbortWaiting(q)
  BY <1>6 DEF TypeOK, AbortWaiting
<1>7. CASE AbortPosted(q) \/ Deadline(q)
  <2>1. PICK w \in live : Dispose(w)
    BY <1>7 DEF AbortPosted, Deadline
  <2>2. WorkerTypeOK'
    BY <2>1, DisposeType DEF TypeOK
  <2> QED
    BY <1>7, <1>0, <1>b, <2>2, SettleType DEF TypeOK, WorkerTypeOK, AbortPosted, Deadline
<1>8. CASE StartDeadline(q)
  <2>1. WorkerTypeOK'
    BY <1>8, DisposeType DEF TypeOK, StartDeadline
  <2> QED
    BY <1>8, <1>0, <1>a, <2>1, SettleType DEF TypeOK, WorkerTypeOK, StartDeadline
<1> QED
  BY <1>1, <1>2, <1>3, <1>4, <1>5, <1>6, <1>7, <1>8 DEF TurnStep

LEMMA WorkerEventType ==
  ASSUME TypeOK, TurnInv, WaiterInv, NEW w \in Workers, WorkerEvent(w)
  PROVE  TypeOK'
<1> USE DEF callVars, workerVars, closeVars
<1>0. Outcomes = {"answered", "timeout", "aborted", "failed"}
  BY DEF Outcomes
<1>1. ASSUME NEW q \in Queries, Ready(q, w)  PROVE TypeOK'
  <2>1. CASE q \in aborted
    <3>1. WorkerTypeOK' /\ Settle(q, "aborted") /\ turns # <<>>
      BY <1>1, <2>1, DisposeType DEF Ready, HasTurn
    <3> QED
      BY <1>0, <1>1, <3>1, SettleType DEF TypeOK, WorkerTypeOK, Ready
  <2>2. CASE q \notin aborted
    <3>1. /\ pending' = [pending EXCEPT ![w] = (@ \ {InitCall}) \cup {QueryCall(q)}]
          /\ inbox' = [inbox EXCEPT ![w] = Append(@, QueryCall(q))]
          /\ outbox' = [outbox EXCEPT ![w] = Tail(@)]
          /\ outbox[w] # <<>>
      BY <1>1, <2>2 DEF Ready, Delivers
    <3>2. outbox' \in [Workers -> Seq(Events)]
      BY <3>1 DEF TypeOK
    <3>3. inbox' \in [Workers -> Seq(Ids)]
      BY <3>1, IdFacts DEF TypeOK
    <3>4. pending' \in [Workers -> SUBSET Ids]
      BY <3>1, IdFacts DEF TypeOK
    <3> QED
      BY <1>1, <2>2, <3>2, <3>3, <3>4 DEF TypeOK, Ready
  <2> QED
    BY <2>1, <2>2
<1>2. ASSUME NEW q \in Queries, Answer(q, w)  PROVE TypeOK'
  <2>1. CASE QueryCall(q) \in pending[w]
    <3>1. Settle(q, "answered") /\ turns # <<>>
      BY <1>2, <2>1 DEF Answer, WaiterInv, TurnInv, HasTurn
    <3>2. outbox' \in [Workers -> Seq(Events)]
      BY <1>2 DEF Answer, Delivers, TypeOK
    <3> QED
      BY <1>0, <1>2, <3>1, <3>2, SettleType DEF TypeOK, Answer
  <2>2. CASE QueryCall(q) \notin pending[w]
    BY <1>2, <2>2 DEF TypeOK, Answer, Delivers
  <2> QED
    BY <2>1, <2>2
<1>3. CASE ShutdownAnswered(w)
  BY <1>3 DEF TypeOK, ShutdownAnswered, Delivers
<1>4. CASE WorkerLost(w)
  BY <1>4, LoseType DEF TypeOK, WorkerTypeOK, WorkerLost
<1> QED
  BY <1>1, <1>2, <1>3, <1>4 DEF WorkerEvent

LEMMA OtherStepType ==
  ASSUME TypeOK,
         \/ \E w \in Workers : WorkerAnswers(w) \/ WorkerSwallows(w) \/ WorkerErrs(w)
                                 \/ CloseAsks(w) \/ CloseDisposes(w)
         \/ Close \/ CloseSweeps \/ CloseEnds
  PROVE  TypeOK'
<1> USE DEF callVars, workerVars, closeVars
<1>1. ASSUME NEW w \in Workers, WorkerAnswers(w)  PROVE TypeOK'
  <2>1. PICK id \in Ids : /\ WorkerHandles(w, id)
                          /\ WorkerPosts(w, id) \/ WorkerPosts(w, Refusal)
                          /\ served' = served \cup {q \in Queries : id = QueryCall(q)}
    BY <1>1 DEF WorkerAnswers
  <2>2. outbox' \in [Workers -> Seq(Events)]
    <3>1. PICK event \in Events : WorkerPosts(w, event)
      BY <2>1, IdFacts
    <3> QED
      BY <3>1 DEF TypeOK, WorkerPosts
  <2>3. inbox' \in [Workers -> Seq(Ids)]
    BY <2>1 DEF TypeOK, WorkerHandles
  <2>4. served' \subseteq Queries
    BY <2>1 DEF TypeOK
  <2> QED
    BY <1>1, <2>2, <2>3, <2>4 DEF TypeOK, WorkerAnswers
<1>2. ASSUME NEW w \in Workers, WorkerSwallows(w)  PROVE TypeOK'
  BY <1>2 DEF TypeOK, WorkerSwallows, WorkerHandles
<1>3. ASSUME NEW w \in Workers, WorkerErrs(w)  PROVE TypeOK'
  BY <1>3, IdFacts DEF TypeOK, WorkerErrs, WorkerPosts
<1>4. ASSUME NEW w \in Workers, CloseAsks(w)  PROVE TypeOK'
  BY <1>4, IdFacts, RequestType DEF TypeOK, CloseAsks
<1>5. ASSUME NEW w \in Workers, CloseDisposes(w)  PROVE TypeOK'
  BY <1>5, LoseType DEF TypeOK, WorkerTypeOK, CloseDisposes
<1>6. CASE Close \/ CloseSweeps \/ CloseEnds
  BY <1>6 DEF TypeOK, Close, CloseSweeps, CloseEnds
<1> QED
  BY <1>1, <1>2, <1>3, <1>4, <1>5, <1>6

-----------------------------------------------------------------------------
(* The inductive invariant.                                                 *)

Strong == LiveInv /\ TurnInv /\ WaiterInv /\ PhaseInv /\ DeliveryInv

\* A step that throws a live worker away, with the query that waits for it if
\* one does.
Discards(w) ==
  /\ w \in live
  /\ Dispose(w)
  /\ \/ \E q \in Queries, kind \in Outcomes : HasTurn(q) /\ Settle(q, kind)
     \/ /\ UNCHANGED <<call, turns>>
        /\ \A q \in Queries : call[q] \notin {"starting", "posted"}

\* Two live workers are the same.
LEMMA LiveOne ==
  ASSUME TypeOK, LiveInv
  PROVE  /\ \A w, x \in live : w = x
         /\ current # None => current \in live
         /\ starting # None => starting \in live
BY QueryAssumption DEF TypeOK, LiveInv

\* When the query at the head settles, no other is being served.
LEMMA SettleTurns ==
  ASSUME TypeOK, TurnInv, NEW q \in Queries, NEW kind \in Outcomes, HasTurn(q), Settle(q, kind)
  PROVE  /\ TurnInv'
         /\ \A r \in Queries : call'[r] \notin {"starting", "posted"}
         /\ \A r \in Queries : r # q => call'[r] = call[r]
         /\ call'[q] = kind
<1>0. kind \notin {"idle", "queued", "starting", "posted"}
  BY DEF Outcomes
<1>1. call' = [call EXCEPT ![q] = kind] /\ turns' = Tail(turns) /\ turns # <<>> /\ q = turns[1]
  BY DEF Settle, HasTurn, TypeOK
<1>2. \A i \in DOMAIN turns' : i + 1 \in DOMAIN turns /\ turns'[i] = turns[i + 1] /\ i \in Nat \ {0}
  BY <1>1 DEF TypeOK
<1>3. 1 \in DOMAIN turns
  BY <1>1 DEF TypeOK
<1>4. \A i, j \in DOMAIN turns' : turns'[i] = turns'[j] => i = j
  BY <1>2 DEF TurnInv
<1>5. \A i \in DOMAIN turns' : turns'[i] # q /\ turns'[i] \in Queries
  BY <1>1, <1>2, <1>3 DEF TurnInv, TypeOK
<1>6. \A i \in DOMAIN turns' : call'[turns'[i]] \in {"queued", "starting", "posted"}
  BY <1>1, <1>2, <1>5 DEF TurnInv, TypeOK
<1>7. \A r \in Queries : call'[r] \notin {"starting", "posted"}
  BY <1>0, <1>1 DEF TurnInv, HasTurn, TypeOK
<1> QED
  BY <1>1, <1>4, <1>6, <1>7 DEF TurnInv, TypeOK

\* Without workers and without a query being served the invariant says little.
LEMMA DiscardKeeps ==
  ASSUME TypeOK, Strong, NEW w \in Workers, Discards(w), UNCHANGED served
  PROVE  Strong'
<1> USE DEF Strong
<1>1. /\ TurnInv'
      /\ \A r \in Queries : call'[r] \notin {"starting", "posted"}
      /\ \A r \in Queries : call'[r] = call[r] \/ call'[r] \in Outcomes
  <2>1. CASE \E q \in Queries, kind \in Outcomes : HasTurn(q) /\ Settle(q, kind)
    BY <2>1, SettleTurns
  <2>2. CASE /\ UNCHANGED <<call, turns>>
             /\ \A q \in Queries : call[q] \notin {"starting", "posted"}
    BY <2>2 DEF TurnInv, HasTurn
  <2> QED
    BY <2>1, <2>2 DEF Discards
<1>2. live = {w}
  BY LiveOne DEF Discards
<1>3. live' = {} /\ current' = None /\ starting' = None
  BY <1>2, LiveOne, QueryAssumption DEF Discards, Dispose, TypeOK
<1>4. \A x \in Workers : pending'[x] = {} /\ inbox'[x] = <<>> /\ outbox'[x] = <<>>
  BY <1>2 DEF Discards, Dispose, LiveInv, TypeOK
<1>5. LiveInv'
  BY <1>3, <1>4 DEF LiveInv
<1>6. WaiterInv'
  BY <1>1, <1>3, <1>4, QueryAssumption DEF WaiterInv
<1>7. PhaseInv'
  BY <1>3 DEF PhaseInv
<1>8. DeliveryInv'
  <2>1. \A x \in Workers : DOMAIN inbox'[x] = {} /\ DOMAIN outbox'[x] = {}
    BY <1>4
  <2>2. \A q \in served' : call'[q] \notin {"idle", "queued", "starting"}
    BY <1>1 DEF DeliveryInv, TypeOK, Outcomes
  <2> QED
    BY <2>1, <2>2 DEF DeliveryInv
<1> QED
  BY <1>1, <1>5, <1>6, <1>7, <1>8

\* Losing a worker throws it away with whoever waits for it, unless it was
\* already disposed of.
LEMMA LoseCases ==
  ASSUME TypeOK, Strong, NEW w \in Workers, Lose(w)
  PROVE  \/ Discards(w)
         \/ w \notin live /\ UNCHANGED <<call, turns, workerVars>>
<1> USE DEF Strong
<1>1. CASE w \in live /\ turns # <<>> /\ WaitsFor(Head(turns), w)
  <2>1. Head(turns) \in Queries /\ HasTurn(Head(turns)) /\ "failed" \in Outcomes
    BY <1>1 DEF TypeOK, HasTurn, Outcomes
  <2>2. Dispose(w) /\ Settle(Head(turns), "failed")
    BY <1>1 DEF Lose
  <2> QED
    BY <1>1, <2>1, <2>2 DEF Discards
<1>2. CASE w \in live /\ ~(turns # <<>> /\ WaitsFor(Head(turns), w))
  <2>1. Dispose(w) /\ UNCHANGED <<call, turns>>
    BY <1>2 DEF Lose
  <2>2. ASSUME NEW q \in Queries, call[q] \in {"starting", "posted"}  PROVE FALSE
    <3>1. HasTurn(q)
      BY <2>2 DEF TurnInv
    <3>2. CASE call[q] = "starting"
      BY <1>2, <3>1, <3>2, LiveOne DEF WaiterInv, WaitsFor, HasTurn
    <3>3. CASE call[q] = "posted"
      <4>1. PICK x \in Workers : QueryCall(q) \in pending[x]
        BY <3>3 DEF WaiterInv
      <4>2. x \in live
        BY <4>1 DEF LiveInv
      <4> QED
        BY <1>2, <3>1, <3>3, <4>1, <4>2, LiveOne DEF WaitsFor, HasTurn
    <3> QED
      BY <2>2, <3>2, <3>3
  <2> QED
    BY <1>2, <2>1, <2>2 DEF Discards
<1>3. CASE w \notin live
  <2>1. pending[w] = {} /\ inbox[w] = <<>> /\ outbox[w] = <<>> /\ starting # w /\ current # w
    BY <1>3, LiveOne, QueryAssumption DEF LiveInv
  <2>2. ~(turns # <<>> /\ WaitsFor(Head(turns), w))
    BY <2>1 DEF WaitsFor
  <2>3. Dispose(w) /\ UNCHANGED <<call, turns>>
    BY <2>2 DEF Lose
  <2>4. UNCHANGED workerVars
    BY <1>3, <2>1, <2>3 DEF Dispose, TypeOK, workerVars
  <2> QED
    BY <1>3, <2>3, <2>4
<1> QED
  BY <1>1, <1>2, <1>3

LEMMA TailFacts ==
  ASSUME NEW S, NEW s \in Seq(S), s # <<>>
  PROVE  \A i \in DOMAIN Tail(s) : i + 1 \in DOMAIN s /\ Tail(s)[i] = s[i + 1]
OBVIOUS

\* A worker given up for its query is a discard.
LEMMA GivenUp ==
  ASSUME TypeOK, Strong, NEW q \in Queries, NEW w \in Workers, NEW kind \in Outcomes,
         w \in live, HasTurn(q), Dispose(w), Settle(q, kind), UNCHANGED served
  PROVE  Strong'
BY DiscardKeeps DEF Discards

\* The steps of a query's turn.
LEMMA TurnStepKeeps ==
  ASSUME TypeOK, Strong, NEW q \in Queries, TurnStep(q)
  PROVE  Strong'
<1> USE DEF Strong, callVars, workerVars, closeVars
<1>0. Outcomes = {"answered", "timeout", "aborted", "failed"}
  BY DEF Outcomes
<1>1. CASE TurnAborted(q) \/ TurnRefused(q) \/ TurnCannotStart(q)
  <2>1. PICK kind \in Outcomes : Settle(q, kind)
    BY <1>0, <1>1 DEF TurnAborted, TurnRefused, TurnCannotStart
  <2>2. HasTurn(q) /\ call[q] = "queued" /\ UNCHANGED <<workerVars, phase, sweep, served>>
    BY <1>1 DEF TurnAborted, TurnRefused, TurnCannotStart, TakesTurn
  <2>3. /\ TurnInv'
        /\ \A r \in Queries : call'[r] \notin {"starting", "posted"}
        /\ \A r \in Queries : r # q => call'[r] = call[r]
        /\ call'[q] = kind
    BY <2>1, <2>2, SettleTurns
  <2>4. \A r \in Queries : call[r] \notin {"starting", "posted"}
    BY <1>0, <2>2, <2>3
  <2>5. WaiterInv'
    BY <2>2, <2>3, <2>4 DEF WaiterInv
  <2>6. DeliveryInv'
    BY <1>0, <2>2, <2>3 DEF DeliveryInv, TypeOK
  <2> QED
    BY <2>2, <2>3, <2>5, <2>6 DEF LiveInv, PhaseInv
<1>2. CASE TurnPosts(q)
  <2>1. /\ HasTurn(q) /\ call[q] = "queued" /\ phase = "open"
        /\ current # None /\ current \in Workers /\ current \in live
        /\ pending' = [pending EXCEPT ![current] = @ \cup {QueryCall(q)}]
        /\ inbox' = [inbox EXCEPT ![current] = Append(@, QueryCall(q))]
        /\ call' = [call EXCEPT ![q] = "posted"]
        /\ UNCHANGED <<turns, live, current, starting, outbox, phase, sweep, served>>
    BY <1>2, LiveOne DEF TurnPosts, TakesTurn, Request, TypeOK
  <2>2. \A r \in Queries : call[r] \notin {"starting", "posted"}
    BY <2>1 DEF TurnInv, HasTurn
  <2>3. pending[current] = {}
    <3>1. starting # current
      BY <2>1 DEF LiveInv
    <3>2. \A id \in Ids : id \notin pending[current]
      BY <2>1, <2>2, <3>1 DEF WaiterInv, Ids
    <3> QED
      BY <2>1, <3>2 DEF TypeOK
  <2>4. \A w \in Workers : pending'[w] = IF w = current THEN {QueryCall(q)} ELSE pending[w]
    BY <2>1, <2>3 DEF TypeOK
  <2>5. LiveInv'
    BY <2>1, <2>4 DEF LiveInv, TypeOK
  <2>6. TurnInv'
    BY <2>1, <2>2 DEF TurnInv, HasTurn, TypeOK
  <2>7. WaiterInv'
    <3>1. \A w \in Workers : pending'[w] = {} \/ \E id \in Ids : pending'[w] = {id}
      BY <2>4, IdFacts DEF WaiterInv
    <3>2. current # starting
      BY <2>1 DEF LiveInv
    <3>3. /\ \A w \in Workers : InitCall \in pending'[w] <=> w = starting
          /\ \A w \in Workers : ShutdownCall \notin pending'[w]
      BY <2>1, <2>3, <2>4, <3>2, IdFacts DEF WaiterInv
    <3>4. \A r \in Queries, w \in Workers : QueryCall(r) \in pending'[w] <=> r = q /\ w = current
      BY <2>2, <2>4, IdFacts DEF WaiterInv
    <3>5. \A r \in Queries : /\ call'[r] = "posted" <=> r = q
                             /\ call'[r] # "starting"
      BY <2>1, <2>2 DEF TypeOK
    <3> QED
      BY <2>1, <3>1, <3>3, <3>4, <3>5 DEF WaiterInv
  <2>8. DeliveryInv'
    <3>1. q \notin served
      BY <2>1 DEF DeliveryInv
    <3>2. \A i \in DOMAIN inbox[current] : inbox[current][i] # QueryCall(q)
      BY <2>1, <2>3 DEF DeliveryInv
    <3>3. inbox[current] \in Seq(Ids)
      BY <2>1 DEF TypeOK
    <3>4. inbox'[current] = Append(inbox[current], QueryCall(q))
      BY <2>1 DEF TypeOK
    <3>5. \A r \in Queries :
            /\ \A i, j \in DOMAIN inbox'[current] :
                 inbox'[current][i] = QueryCall(r) /\ inbox'[current][j] = QueryCall(r) => i = j
            /\ \A i \in DOMAIN inbox'[current] :
                 inbox'[current][i] = QueryCall(r) => QueryCall(r) \in pending'[current] /\ r \notin served
      BY <2>1, <2>4, <3>1, <3>2, <3>3, <3>4, IdFacts DEF DeliveryInv
    <3>6. \A w \in Workers : w # current => inbox'[w] = inbox[w]
      BY <2>1 DEF TypeOK
    <3>7. \A r \in served : call'[r] \notin {"idle", "queued", "starting"}
      BY <2>1 DEF DeliveryInv, TypeOK
    <3> QED
      BY <2>1, <2>4, <3>5, <3>6, <3>7 DEF DeliveryInv
  <2> QED
    BY <2>1, <2>5, <2>6, <2>7, <2>8 DEF PhaseInv
<1>3. CASE TurnPostFails(q)
  BY <1>0, <1>3, LiveOne, GivenUp DEF TurnPostFails, TakesTurn, TypeOK
<1>4. CASE TurnStarts(q)
  <2>1. /\ HasTurn(q) /\ call[q] = "queued" /\ phase = "open" /\ current = None
        /\ call' = [call EXCEPT ![q] = "starting"]
        /\ UNCHANGED <<turns, current, outbox, phase, sweep, served>>
    BY <1>4 DEF TurnStarts, TakesTurn
  <2>2. \A r \in Queries : call[r] \notin {"starting", "posted"}
    BY <2>1 DEF TurnInv, HasTurn
  <2>3. TurnInv'
    BY <2>1, <2>2 DEF TurnInv, HasTurn, TypeOK
  <2>4. \A r \in served : call'[r] \notin {"idle", "queued", "starting"}
    BY <2>1 DEF DeliveryInv, TypeOK
  <2>5. CASE starting # None
    <3>1. UNCHANGED <<live, starting, pending, inbox>>
      BY <1>4, <2>5 DEF TurnStarts
    <3>2. WaiterInv'
      BY <2>1, <2>2, <2>5, <3>1 DEF WaiterInv, TypeOK
    <3> QED
      BY <2>1, <2>3, <2>4, <3>1, <3>2 DEF LiveInv, PhaseInv, DeliveryInv
  <2>6. CASE starting = None
    <3>1. live = {}
      BY <2>1, <2>6 DEF LiveInv
    <3>2. PICK w \in Workers \ live : live' = live \cup {w} /\ starting' = w /\ Request(w, InitCall)
      BY <1>4, <2>6 DEF TurnStarts
    <3>3. w \in Workers /\ w # None
      BY QueryAssumption
    <3>4. \A x \in Workers : pending[x] = {} /\ inbox[x] = <<>> /\ outbox[x] = <<>>
      BY <3>1 DEF LiveInv
    <3>5. \A x \in Workers : /\ pending'[x] = IF x = w THEN {InitCall} ELSE {}
                             /\ inbox'[x] = IF x = w THEN <<InitCall>> ELSE <<>>
      <4>1. /\ pending' = [pending EXCEPT ![w] = @ \cup {InitCall}]
            /\ inbox' = [inbox EXCEPT ![w] = Append(@, InitCall)]
        BY <3>2 DEF Request
      <4>2. Append(<<>>, InitCall) = <<InitCall>>
        OBVIOUS
      <4> QED
        BY <3>4, <4>1, <4>2 DEF TypeOK
    <3>6. LiveInv'
      BY <2>1, <3>1, <3>2, <3>3, <3>4, <3>5 DEF LiveInv
    <3>7. WaiterInv'
      BY <2>1, <2>2, <3>2, <3>3, <3>4, <3>5, IdFacts DEF WaiterInv, TypeOK
    <3>8. DeliveryInv'
      <4>1. \A x \in Workers : \A i \in DOMAIN inbox'[x] : inbox'[x][i] = InitCall
        BY <3>5
      <4>2. \A x \in Workers : DOMAIN outbox'[x] = {}
        BY <2>1, <3>4
      <4> QED
        BY <2>1, <2>4, <4>1, <4>2, IdFacts DEF DeliveryInv
    <3> QED
      BY <2>1, <2>3, <3>6, <3>7, <3>8 DEF PhaseInv
  <2> QED
    BY <2>5, <2>6
<1> QED
  BY <1>1, <1>2, <1>3, <1>4 DEF TurnStep

\* The other steps of a caller.
LEMMA CallerKeeps ==
  ASSUME TypeOK, Strong, NEW q \in Queries,
         Call(q) \/ AbortWaiting(q) \/ AbortPosted(q) \/ Deadline(q) \/ StartDeadline(q)
  PROVE  Strong'
<1> USE DEF Strong, callVars, workerVars, closeVars
<1>0. Outcomes = {"answered", "timeout", "aborted", "failed"}
  BY DEF Outcomes
<1>1. CASE Call(q)
  <2>1. /\ call[q] = "idle" /\ call' = [call EXCEPT ![q] = "queued"] /\ turns' = Append(turns, q)
        /\ UNCHANGED <<live, current, starting, pending, inbox, outbox, phase, sweep, served>>
    BY <1>1 DEF Call
  <2>2. \A i \in DOMAIN turns : turns[i] # q /\ turns[i] \in Queries
    <3>1. \A i \in DOMAIN turns : turns[i] \in Queries
      BY DEF TypeOK
    <3>2. \A i \in DOMAIN turns : call[turns[i]] # "idle"
      BY DEF TurnInv
    <3> QED
      BY <2>1, <3>1, <3>2
  <2>3. \A r \in Queries : call[r] \in {"starting", "posted"} <=> call'[r] \in {"starting", "posted"}
    BY <2>1 DEF TypeOK
  <2>4. \A i, j \in DOMAIN turns' : turns'[i] = turns'[j] => i = j
    BY <2>1, <2>2 DEF TurnInv, TypeOK
  <2>5. \A i \in DOMAIN turns' : call'[turns'[i]] \in {"queued", "starting", "posted"}
    BY <2>1, <2>2 DEF TurnInv, TypeOK
  <2>6. \A r \in Queries : call'[r] \in {"starting", "posted"} => HasTurn(r)'
    BY <2>1, <2>3 DEF TurnInv, HasTurn, TypeOK
  <2>7. WaiterInv'
    BY <2>1, ZenonT(60) DEF WaiterInv, TypeOK
  <2>8. DeliveryInv'
    BY <2>1 DEF DeliveryInv, TypeOK
  <2> QED
    BY <2>1, <2>4, <2>5, <2>6, <2>7, <2>8 DEF LiveInv, TurnInv, PhaseInv
<1>2. CASE AbortWaiting(q)
  BY <1>2 DEF AbortWaiting, LiveInv, TurnInv, HasTurn, WaiterInv, PhaseInv, DeliveryInv
<1>3. CASE AbortPosted(q) \/ Deadline(q)
  <2>1. PICK w \in live : Dispose(w)
    BY <1>3 DEF AbortPosted, Deadline
  <2>2. HasTurn(q) /\ w \in Workers
    BY <1>3 DEF AbortPosted, Deadline, TurnInv, TypeOK
  <2>3. PICK kind \in Outcomes : Settle(q, kind)
    BY <1>0, <1>3 DEF AbortPosted, Deadline
  <2> QED
    BY <1>3, <2>1, <2>2, <2>3, GivenUp DEF AbortPosted, Deadline
<1>4. CASE StartDeadline(q)
  BY <1>0, <1>4, LiveOne, GivenUp DEF StartDeadline, TypeOK
<1> QED
  BY <1>1, <1>2, <1>3, <1>4

\* A message of a live worker arrives.
LEMMA WorkerEventKeeps ==
  ASSUME TypeOK, Strong, NEW w \in Workers, WorkerEvent(w)
  PROVE  Strong'
<1> USE DEF Strong, callVars, workerVars, closeVars
<1>0. Outcomes = {"answered", "timeout", "aborted", "failed"}
  BY DEF Outcomes
<1>1. ASSUME NEW q \in Queries, Ready(q, w)  PROVE Strong'
  <2>1. CASE q \in aborted
    BY <1>0, <1>1, <2>1, GivenUp DEF Ready, Delivers
  <2>2. CASE q \notin aborted
    <3>1. /\ w \in live /\ outbox[w] # <<>> /\ HasTurn(q) /\ call[q] = "starting"
          /\ starting' = None /\ current' = w
          /\ pending' = [pending EXCEPT ![w] = (@ \ {InitCall}) \cup {QueryCall(q)}]
          /\ inbox' = [inbox EXCEPT ![w] = Append(@, QueryCall(q))]
          /\ outbox' = [outbox EXCEPT ![w] = Tail(@)]
          /\ call' = [call EXCEPT ![q] = "posted"]
          /\ UNCHANGED <<turns, live, phase, sweep, served>>
      BY <1>1, <2>2 DEF Ready, Delivers
    <3>2. \A r \in Queries : r # q => call[r] \notin {"starting", "posted"}
      BY <3>1 DEF TurnInv, HasTurn
    <3>3. starting = w /\ live = {w} /\ w # None
      BY <3>1, LiveOne, QueryAssumption DEF WaiterInv
    <3>4. pending[w] = {InitCall}
      BY <3>3 DEF WaiterInv
    <3>5. /\ \A x \in Workers : x # w =>
               pending'[x] = {} /\ inbox'[x] = <<>> /\ outbox'[x] = <<>>
          /\ pending'[w] = {QueryCall(q)}
      BY <3>1, <3>3, <3>4, IdFacts DEF LiveInv, TypeOK
    <3>6. LiveInv'
      BY <3>1, <3>3, <3>5 DEF LiveInv
    <3>7. TurnInv'
      BY <3>1, <3>2 DEF TurnInv, HasTurn, TypeOK
    <3>8. WaiterInv'
      <4>1. \A x \in Workers : pending'[x] = {} \/ \E id \in Ids : pending'[x] = {id}
        BY <3>5, IdFacts
      <4>2. \A x \in Workers : InitCall \notin pending'[x] /\ ShutdownCall \notin pending'[x]
        BY <3>5, IdFacts
      <4>3. \A r \in Queries, x \in Workers : QueryCall(r) \in pending'[x] <=> r = q /\ x = w
        BY <3>5, IdFacts
      <4>4. \A r \in Queries : /\ call'[r] = "posted" <=> r = q
                               /\ call'[r] # "starting"
        BY <3>1, <3>2 DEF TypeOK
      <4> QED
        BY <3>1, <4>1, <4>2, <4>3, <4>4, QueryAssumption DEF WaiterInv
    <3>9. DeliveryInv'
      <4>1. q \notin served
        BY <3>1 DEF DeliveryInv
      <4>2. \A i \in DOMAIN inbox[w] : \A r \in Queries : inbox[w][i] # QueryCall(r)
        BY <3>4, IdFacts DEF DeliveryInv
      <4>3. inbox[w] \in Seq(Ids) /\ outbox[w] \in Seq(Events)
        BY DEF TypeOK
      <4>4. inbox'[w] = Append(inbox[w], QueryCall(q)) /\ outbox'[w] = Tail(outbox[w])
        BY <3>1 DEF TypeOK
      <4>5. \A i \in DOMAIN outbox'[w] : i + 1 \in DOMAIN outbox[w] /\ outbox'[w][i] = outbox[w][i + 1]
        BY <3>1, <4>3, <4>4, TailFacts
      <4>6. \A r \in Queries :
              /\ \A i, j \in DOMAIN inbox'[w] :
                   inbox'[w][i] = QueryCall(r) /\ inbox'[w][j] = QueryCall(r) => i = j
              /\ \A i \in DOMAIN inbox'[w] :
                   inbox'[w][i] = QueryCall(r) => QueryCall(r) \in pending'[w] /\ r \notin served
        BY <3>5, <4>1, <4>2, <4>3, <4>4, IdFacts
      <4>7. \A r \in Queries : \A i \in DOMAIN outbox'[w] :
              outbox'[w][i] = QueryCall(r) => r \in served
        BY <4>5 DEF DeliveryInv
      <4>8. \A r \in served : call'[r] \notin {"idle", "queued", "starting"}
        BY <3>1 DEF DeliveryInv, TypeOK
      <4>9. \A x \in Workers : x # w => DOMAIN inbox'[x] = {} /\ DOMAIN outbox'[x] = {}
        BY <3>5
      <4> QED
        BY <3>1, <4>6, <4>7, <4>8, <4>9 DEF DeliveryInv
    <3> QED
      BY <3>1, <3>6, <3>7, <3>8, <3>9 DEF PhaseInv
  <2> QED
    BY <2>1, <2>2
<1>2. ASSUME NEW q \in Queries, Answer(q, w)  PROVE Strong'
  <2>1. /\ w \in live /\ outbox[w] # <<>> /\ Head(outbox[w]) = QueryCall(q)
        /\ outbox' = [outbox EXCEPT ![w] = Tail(@)]
        /\ pending' = [pending EXCEPT ![w] = @ \ {QueryCall(q)}]
        /\ UNCHANGED <<live, current, starting, inbox, phase, sweep, served>>
    BY <1>2 DEF Answer, Delivers
  <2>2. outbox[w] \in Seq(Events) /\ outbox'[w] = Tail(outbox[w])
    BY <2>1 DEF TypeOK
  <2>3. \A i \in DOMAIN outbox'[w] : i + 1 \in DOMAIN outbox[w] /\ outbox'[w][i] = outbox[w][i + 1]
    BY <2>1, <2>2, TailFacts
  <2>4. q \in served
    BY <2>1, <2>2 DEF DeliveryInv
  <2>5. \A r \in Queries, x \in Workers :
          QueryCall(r) \in pending'[x] <=> QueryCall(r) \in pending[x] /\ ~(r = q /\ x = w)
    BY <2>1, IdFacts DEF TypeOK
  <2>6. /\ TurnInv'
        /\ \A r \in Queries : r # q => call'[r] = call[r]
        /\ IF QueryCall(q) \in pending[w] THEN call'[q] = "answered" ELSE call'[q] = call[q]
    <3>1. CASE QueryCall(q) \in pending[w]
      BY <1>0, <1>2, <3>1, SettleTurns DEF Answer, WaiterInv, TurnInv
    <3>2. CASE QueryCall(q) \notin pending[w]
      BY <1>2, <3>2 DEF Answer, TurnInv, HasTurn
    <3> QED
      BY <3>1, <3>2
  <2>7. LiveInv'
    BY <2>1 DEF LiveInv, TypeOK
  <2>8. WaiterInv'
    <3>1. \A x \in Workers : pending'[x] = {} \/ \E id \in Ids : pending'[x] = {id}
      <4>1. \A x \in Workers : pending'[x] = IF x = w THEN pending[x] \ {QueryCall(q)} ELSE pending[x]
        BY <2>1 DEF TypeOK
      <4>2. \A x \in Workers : pending'[x] = pending[x] \/ pending'[x] = {}
        <5> SUFFICES ASSUME NEW x \in Workers  PROVE pending'[x] = pending[x] \/ pending'[x] = {}
          OBVIOUS
        <5>1. CASE pending[x] = {}
          BY <4>1, <5>1
        <5>2. ASSUME NEW id \in Ids, pending[x] = {id}  PROVE pending'[x] = pending[x] \/ pending'[x] = {}
          <6>1. {id} \ {QueryCall(q)} = {id} \/ {id} \ {QueryCall(q)} = {}
            OBVIOUS
          <6> QED
            BY <4>1, <5>2, <6>1
        <5> QED
          BY <5>1, <5>2 DEF WaiterInv
      <4> QED
        BY <4>2 DEF WaiterInv
    <3>2. \A x \in Workers : /\ InitCall \in pending'[x] <=> InitCall \in pending[x]
                             /\ ShutdownCall \in pending'[x] <=> ShutdownCall \in pending[x]
      BY <2>1, IdFacts DEF TypeOK
    <3>3. \A r \in Queries : call'[r] = "posted" <=> \E x \in Workers : QueryCall(r) \in pending'[x]
      <4>1. ASSUME NEW r \in Queries, r # q
            PROVE  call'[r] = "posted" <=> \E x \in Workers : QueryCall(r) \in pending'[x]
        BY <2>5, <2>6, <4>1 DEF WaiterInv
      <4>2. CASE QueryCall(q) \in pending[w]
        <5>1. \A x \in Workers : QueryCall(q) \in pending[x] => x \in live
          BY DEF LiveInv
        <5>2. \A x \in Workers : QueryCall(q) \notin pending'[x]
          BY <2>1, <2>5, <5>1, LiveOne
        <5> QED
          BY <2>6, <4>1, <4>2, <5>2
      <4>3. CASE QueryCall(q) \notin pending[w]
        <5>1. call'[q] = "posted" <=> \E x \in Workers : QueryCall(q) \in pending'[x]
          BY <2>5, <2>6, <4>3 DEF WaiterInv
        <5> QED
          BY <4>1, <5>1
      <4> QED
        BY <4>2, <4>3
    <3>4. \A r \in Queries : call'[r] = "starting" => call[r] = "starting"
      BY <2>6
    <3> QED
      BY <2>1, <3>1, <3>2, <3>3, <3>4 DEF WaiterInv
  <2>9. DeliveryInv'
    <3>1. \A r \in Queries, x \in Workers : \A i \in DOMAIN inbox[x] :
            inbox[x][i] = QueryCall(r) => QueryCall(r) \in pending'[x]
      BY <2>4, <2>5 DEF DeliveryInv
    <3>2. \A r \in Queries, x \in Workers : \A i \in DOMAIN outbox'[x] :
            outbox'[x][i] = QueryCall(r) => r \in served
      BY <2>1, <2>3 DEF DeliveryInv, TypeOK
    <3>3. \A r \in served : call'[r] \notin {"idle", "queued", "starting"}
      BY <2>6 DEF DeliveryInv, TypeOK
    <3> QED
      BY <2>1, <3>1, <3>2, <3>3 DEF DeliveryInv
  <2> QED
    BY <2>1, <2>6, <2>7, <2>8, <2>9 DEF PhaseInv
<1>3. CASE ShutdownAnswered(w)
  <2>1. /\ w \in live /\ outbox[w] # <<>>
        /\ outbox' = [outbox EXCEPT ![w] = Tail(@)]
        /\ pending' = [pending EXCEPT ![w] = @ \ {ShutdownCall}]
        /\ UNCHANGED <<call, turns, live, current, starting, inbox, phase, sweep, served>>
    BY <1>3 DEF ShutdownAnswered, Delivers
  <2>2. outbox[w] \in Seq(Events) /\ outbox'[w] = Tail(outbox[w])
    BY <2>1 DEF TypeOK
  <2>3. \A i \in DOMAIN outbox'[w] : i + 1 \in DOMAIN outbox[w] /\ outbox'[w][i] = outbox[w][i + 1]
    BY <2>1, <2>2, TailFacts
  <2>4. \A id \in Ids, x \in Workers : id # ShutdownCall => (id \in pending'[x] <=> id \in pending[x])
    BY <2>1 DEF TypeOK
  <2>5. \A x \in Workers : pending'[x] = {} \/ \E id \in Ids : pending'[x] = {id}
    BY <2>1, ZenonT(60) DEF WaiterInv, TypeOK
  <2>6. \A x \in Workers : ShutdownCall \in pending'[x] => ShutdownCall \in pending[x]
    BY <2>1 DEF TypeOK
  <2>7. WaiterInv'
    BY <2>1, <2>4, <2>5, <2>6, IdFacts DEF WaiterInv
  <2>8. LiveInv'
    BY <2>1 DEF LiveInv, TypeOK
  <2>9. DeliveryInv'
    <3>1. \A r \in Queries, x \in Workers : \A i \in DOMAIN outbox'[x] :
            outbox'[x][i] = QueryCall(r) => r \in served
      BY <2>1, <2>3 DEF DeliveryInv, TypeOK
    <3> QED
      BY <2>1, <2>4, <3>1, IdFacts DEF DeliveryInv
  <2> QED
    BY <2>1, <2>7, <2>8, <2>9 DEF TurnInv, HasTurn, PhaseInv
<1>4. CASE WorkerLost(w)
  <2>1. Lose(w) /\ w \in live /\ UNCHANGED served
    BY <1>4 DEF WorkerLost, Delivers
  <2> QED
    BY <2>1, LoseCases, DiscardKeeps
<1> QED
  BY <1>1, <1>2, <1>3, <1>4 DEF WorkerEvent

\* A worker handles a message, or raises an error event.
LEMMA WorkerKeeps ==
  ASSUME TypeOK, Strong, NEW w \in Workers, WorkerAnswers(w) \/ WorkerSwallows(w) \/ WorkerErrs(w)
  PROVE  Strong'
<1> USE DEF Strong, callVars, workerVars, closeVars
<1>0. inbox[w] \in Seq(Ids) /\ outbox[w] \in Seq(Events)
  BY DEF TypeOK
<1>1. ASSUME NEW id \in Ids, WorkerHandles(w, id)
      PROVE  /\ \A q \in Queries :
                  /\ \A i, j \in DOMAIN inbox'[w] :
                       inbox'[w][i] = QueryCall(q) /\ inbox'[w][j] = QueryCall(q) => i = j
                  /\ \A i \in DOMAIN inbox'[w] : inbox'[w][i] = QueryCall(q) =>
                       QueryCall(q) \in pending[w] /\ q \notin served /\ id # QueryCall(q)
             /\ \A q \in Queries : id = QueryCall(q) => QueryCall(q) \in pending[w]
             /\ \A x \in Workers : x # w => inbox'[x] = inbox[x]
             /\ w \in live
  <2>1. inbox'[w] = Tail(inbox[w]) /\ inbox[w] # <<>> /\ id = inbox[w][1] /\ 1 \in DOMAIN inbox[w]
    BY <1>0, <1>1 DEF WorkerHandles, TypeOK
  <2>2. \A i \in DOMAIN inbox'[w] : /\ i + 1 \in DOMAIN inbox[w] /\ inbox'[w][i] = inbox[w][i + 1]
                                    /\ i \in Nat \ {0}
    BY <1>0, <2>1, TailFacts
  <2>3. \A q \in Queries : \A i, j \in DOMAIN inbox'[w] :
          inbox'[w][i] = QueryCall(q) /\ inbox'[w][j] = QueryCall(q) => i = j
    <3> SUFFICES ASSUME NEW q \in Queries, NEW i \in DOMAIN inbox'[w], NEW j \in DOMAIN inbox'[w],
                        inbox'[w][i] = QueryCall(q), inbox'[w][j] = QueryCall(q)
                 PROVE  i = j
      OBVIOUS
    <3>1. i + 1 = j + 1
      BY <2>2 DEF DeliveryInv
    <3> QED
      BY <2>2, <3>1
  <2>4. \A q \in Queries : \A i \in DOMAIN inbox'[w] : inbox'[w][i] = QueryCall(q) =>
          QueryCall(q) \in pending[w] /\ q \notin served /\ id # QueryCall(q)
    <3> SUFFICES ASSUME NEW q \in Queries, NEW i \in DOMAIN inbox'[w], inbox'[w][i] = QueryCall(q)
                 PROVE  QueryCall(q) \in pending[w] /\ q \notin served /\ id # QueryCall(q)
      OBVIOUS
    <3>1. i + 1 # 1
      BY <2>2
    <3> QED
      BY <2>1, <2>2, <3>1 DEF DeliveryInv
  <2> QED
    BY <1>1, <2>1, <2>3, <2>4 DEF DeliveryInv, WorkerHandles, TypeOK
<1>2. CASE WorkerAnswers(w)
  <2>1. PICK id \in Ids : /\ WorkerHandles(w, id)
                          /\ WorkerPosts(w, id) \/ WorkerPosts(w, Refusal)
                          /\ served' = served \cup {q \in Queries : id = QueryCall(q)}
    BY <1>2 DEF WorkerAnswers
  <2>2. UNCHANGED <<call, turns, live, current, starting, pending, phase, sweep>>
    BY <1>2 DEF WorkerAnswers
  <2>3. PICK event \in Events : WorkerPosts(w, event) /\ event \in {id, Refusal}
    BY <2>1, IdFacts
  <2>4. outbox'[w] = Append(outbox[w], event) /\ \A x \in Workers : x # w => outbox'[x] = outbox[x]
    BY <2>3 DEF WorkerPosts, TypeOK
  <2>5. \A q \in Queries : \A i \in DOMAIN outbox'[w] : outbox'[w][i] = QueryCall(q) => q \in served'
    BY <1>0, <2>1, <2>3, <2>4, IdFacts DEF DeliveryInv
  <2>6. \A q \in served' : call'[q] \notin {"idle", "queued", "starting"}
    BY <1>1, <2>1, <2>2 DEF DeliveryInv, WaiterInv
  <2>7. \A x \in Workers, q \in Queries :
          /\ \A i, j \in DOMAIN inbox'[x] : inbox'[x][i] = QueryCall(q) /\ inbox'[x][j] = QueryCall(q) => i = j
          /\ \A i \in DOMAIN inbox'[x] : inbox'[x][i] = QueryCall(q) => QueryCall(q) \in pending'[x] /\ q \notin served'
    <3>1. ASSUME NEW x \in Workers, x # w, NEW q \in Queries, NEW i \in DOMAIN inbox[x],
                 inbox[x][i] = QueryCall(q)
          PROVE  id # QueryCall(q)
      <4>1. QueryCall(q) \in pending[x]
        BY <3>1 DEF DeliveryInv
      <4>2. x \in live /\ w \in live
        BY <1>1, <2>1, <4>1 DEF LiveInv
      <4> QED
        BY <3>1, <4>2, LiveOne
    <3> QED
      BY <1>1, <2>1, <2>2, <3>1 DEF DeliveryInv
  <2>8. DeliveryInv'
    BY <2>1, <2>4, <2>5, <2>6, <2>7 DEF DeliveryInv
  <2>9. LiveInv'
    BY <1>1, <2>1, <2>2, <2>4 DEF LiveInv
  <2> QED
    BY <2>2, <2>8, <2>9 DEF TurnInv, HasTurn, WaiterInv, PhaseInv
<1>3. CASE WorkerSwallows(w)
  <2>1. PICK id \in Ids : WorkerHandles(w, id)
    BY <1>3 DEF WorkerSwallows
  <2>2. UNCHANGED <<call, turns, live, current, starting, pending, outbox, phase, sweep, served>>
    BY <1>3 DEF WorkerSwallows
  <2>3. DeliveryInv'
    BY <1>1, <2>1, <2>2 DEF DeliveryInv
  <2>4. LiveInv'
    BY <1>1, <2>1, <2>2 DEF LiveInv
  <2> QED
    BY <2>2, <2>3, <2>4 DEF TurnInv, HasTurn, WaiterInv, PhaseInv
<1>4. CASE WorkerErrs(w)
  <2>1. /\ w \in live
        /\ outbox'[w] = Append(outbox[w], ErrorEvent) /\ \A x \in Workers : x # w => outbox'[x] = outbox[x]
        /\ UNCHANGED <<call, turns, live, current, starting, pending, inbox, phase, sweep, served>>
    BY <1>4 DEF WorkerErrs, WorkerPosts, TypeOK
  <2>2. \A q \in Queries : \A i \in DOMAIN outbox'[w] : outbox'[w][i] = QueryCall(q) => q \in served
    BY <1>0, <2>1, IdFacts DEF DeliveryInv
  <2>3. DeliveryInv'
    BY <2>1, <2>2 DEF DeliveryInv
  <2>4. LiveInv'
    BY <2>1 DEF LiveInv
  <2> QED
    BY <2>1, <2>3, <2>4 DEF TurnInv, HasTurn, WaiterInv, PhaseInv
<1> QED
  BY <1>2, <1>3, <1>4

\* The steps of close.
LEMMA CloseKeeps ==
  ASSUME TypeOK, Strong,
         Close \/ CloseSweeps \/ CloseEnds \/ \E w \in Workers : CloseAsks(w) \/ CloseDisposes(w)
  PROVE  Strong'
<1> USE DEF Strong, callVars, workerVars, closeVars
<1>1. CASE Close \/ CloseSweeps \/ CloseEnds
  BY <1>1 DEF Close, CloseSweeps, CloseEnds, LiveInv, TurnInv, HasTurn, WaiterInv, PhaseInv, DeliveryInv
<1>2. ASSUME NEW w \in Workers, CloseAsks(w)  PROVE Strong'
  <2>1. /\ w \in live /\ pending[w] = {} /\ phase = "sweeping"
        /\ pending' = [pending EXCEPT ![w] = @ \cup {ShutdownCall}]
        /\ inbox' = [inbox EXCEPT ![w] = Append(@, ShutdownCall)]
        /\ UNCHANGED <<call, turns, live, current, starting, outbox, phase, sweep, served>>
    BY <1>2 DEF CloseAsks, Request
  <2>2. \A x \in Workers : pending'[x] = IF x = w THEN {ShutdownCall} ELSE pending[x]
    BY <2>1 DEF TypeOK
  <2>3. LiveInv'
    BY <2>1, <2>2 DEF LiveInv, TypeOK
  <2>4. WaiterInv'
    BY <2>1, <2>2, IdFacts DEF WaiterInv
  <2>5. DeliveryInv'
    <3>1. inbox[w] \in Seq(Ids) /\ inbox'[w] = Append(inbox[w], ShutdownCall)
      BY <2>1 DEF TypeOK
    <3>2. \A q \in Queries : \A i \in DOMAIN inbox'[w] : inbox'[w][i] # QueryCall(q)
      BY <2>1, <3>1, IdFacts DEF DeliveryInv
    <3>3. \A x \in Workers : x # w => inbox'[x] = inbox[x]
      BY <2>1 DEF TypeOK
    <3> QED
      BY <2>1, <2>2, <3>2, <3>3 DEF DeliveryInv
  <2> QED
    BY <2>1, <2>3, <2>4, <2>5 DEF TurnInv, HasTurn, PhaseInv
<1>3. ASSUME NEW w \in Workers, CloseDisposes(w)  PROVE Strong'
  <2>1. Lose(w) /\ sweep' = sweep \ {w} /\ UNCHANGED <<phase, served>>
    BY <1>3 DEF CloseDisposes
  <2>2. CASE Discards(w)
    BY <2>1, <2>2, DiscardKeeps
  <2>3. CASE w \notin live /\ UNCHANGED <<call, turns, workerVars>>
    BY <2>1, <2>3 DEF LiveInv, TurnInv, HasTurn, WaiterInv, PhaseInv, DeliveryInv
  <2> QED
    BY <2>1, <2>2, <2>3, LoseCases
<1> QED
  BY <1>1, <1>2, <1>3

\* The invariant holds in every instance.
LEMMA InvariantCorrect == Spec => [](TypeOK /\ Strong)
<1>1. Init => TypeOK /\ Strong
  <2> SUFFICES ASSUME Init  PROVE TypeOK /\ Strong
    OBVIOUS
  <2>1. TypeOK
    BY DEF Init, TypeOK
  <2>2. LiveInv
    BY QueryAssumption DEF Init, LiveInv
  <2>3. TurnInv /\ PhaseInv /\ DeliveryInv
    BY DEF Init, TurnInv, PhaseInv, DeliveryInv
  <2>4. WaiterInv
    BY QueryAssumption DEF Init, WaiterInv
  <2> QED
    BY <2>1, <2>2, <2>3, <2>4 DEF Strong
<1>2. TypeOK /\ Strong /\ [Next]_vars => TypeOK' /\ Strong'
  <2> SUFFICES ASSUME TypeOK, Strong, [Next]_vars  PROVE TypeOK' /\ Strong'
    OBVIOUS
  <2>1. CASE UNCHANGED vars
    <3> USE DEF vars, callVars, workerVars, closeVars
    <3>1. TypeOK' /\ LiveInv' /\ PhaseInv'
      BY <2>1 DEF TypeOK, Strong, LiveInv, PhaseInv
    <3>2. TurnInv' /\ WaiterInv' /\ DeliveryInv'
      BY <2>1 DEF Strong, TurnInv, HasTurn, WaiterInv, DeliveryInv
    <3> QED
      BY <3>1, <3>2 DEF Strong
  <2>2. CASE Next
    BY <2>2, QueryStepType, WorkerEventType, OtherStepType,
       TurnStepKeeps, CallerKeeps, WorkerEventKeeps, WorkerKeeps, CloseKeeps DEF Next, Strong
  <2> QED
    BY <2>1, <2>2
<1> QED
  BY <1>1, <1>2, PTL DEF Spec

\* Every variable keeps its type.
THEOREM TypeCorrect == Spec => []TypeOK
BY InvariantCorrect, PTL

\* The live workers are the initialized and the starting one, never both.
THEOREM OneWorkerCorrect == Spec => []OneWorker
<1>1. TypeOK /\ Strong => OneWorker
  <2> SUFFICES ASSUME TypeOK, Strong  PROVE OneWorker
    OBVIOUS
  <2>1. live = {} \/ \E w \in Workers : live = {w}
    BY DEF TypeOK, Strong, LiveInv
  <2>2. Cardinality(live) <= 1
    BY <2>1, FS_EmptySet, FS_Singleton
  <2> QED
    BY <2>2 DEF Strong, LiveInv, OneWorker
<1> QED
  BY <1>1, InvariantCorrect, PTL

\* The pending maps hold exactly the query that is being served.
THEOREM OneWaiterCorrect == Spec => []OneWaiter
<1>1. TypeOK /\ Strong => OneWaiter
  <2> SUFFICES ASSUME TypeOK, Strong  PROVE OneWaiter
    OBVIOUS
  <2>1. \A q \in Queries : call[q] = "posted" <=> \E w \in live : QueryCall(q) \in pending[w]
    BY DEF Strong, WaiterInv, LiveInv, TypeOK
  <2>2. \A w \in Workers : Cardinality(pending[w]) <= 1
    <3> SUFFICES ASSUME NEW w \in Workers  PROVE Cardinality(pending[w]) <= 1
      OBVIOUS
    <3>1. CASE pending[w] = {}
      BY <3>1, FS_EmptySet
    <3>2. ASSUME NEW id \in Ids, pending[w] = {id}  PROVE Cardinality(pending[w]) <= 1
      BY <3>2, FS_Singleton
    <3> QED
      BY <3>1, <3>2 DEF Strong, WaiterInv
  <2> QED
    BY <2>1, <2>2 DEF Strong, TurnInv, OneWaiter
<1> QED
  BY <1>1, InvariantCorrect, PTL

\* A closed transport has no worker, and nobody waits for one.
THEOREM ClosedCleanCorrect == Spec => []ClosedClean
<1>1. TypeOK /\ Strong => ClosedClean
  <2> SUFFICES ASSUME TypeOK, Strong, phase = "closed"
               PROVE  live = {} /\ \A q \in Queries : call[q] \notin {"starting", "posted"}
    BY DEF ClosedClean
  <2>1. live = {}
    BY DEF Strong, PhaseInv
  <2> QED
    BY <2>1, LiveOne DEF Strong, WaiterInv, LiveInv
<1> QED
  BY <1>1, InvariantCorrect, PTL

\* Once close has begun no worker is started.
THEOREM NoWorkerAfterCloseCorrect == Spec => NoWorkerAfterClose
<1>1. [Next]_vars => (phase # "open" => live' \subseteq live)
  <2> SUFFICES ASSUME [Next]_vars, phase # "open"  PROVE live' \subseteq live
    OBVIOUS
  <2> USE DEF callVars, workerVars, closeVars
  <2>1. CASE UNCHANGED vars
    BY <2>1 DEF vars
  <2>2. ASSUME NEW q \in Queries, TurnStep(q)  PROVE live' \subseteq live
    BY <2>2 DEF TurnStep, TurnAborted, TurnRefused, TurnPosts, TurnPostFails, TurnStarts,
                TurnCannotStart, TakesTurn
  <2>3. ASSUME NEW q \in Queries,
               Call(q) \/ AbortWaiting(q) \/ AbortPosted(q) \/ Deadline(q) \/ StartDeadline(q)
        PROVE  live' \subseteq live
    BY <2>3 DEF Call, AbortWaiting, AbortPosted, Deadline, StartDeadline, Dispose
  <2>4. ASSUME NEW w \in Workers, WorkerEvent(w)  PROVE live' \subseteq live
    BY <2>4 DEF WorkerEvent, Ready, Answer, ShutdownAnswered, WorkerLost, Lose, Dispose
  <2>5. ASSUME NEW w \in Workers,
               WorkerAnswers(w) \/ WorkerSwallows(w) \/ WorkerErrs(w) \/ CloseAsks(w) \/ CloseDisposes(w)
        PROVE  live' \subseteq live
    BY <2>5 DEF WorkerAnswers, WorkerSwallows, WorkerErrs, CloseAsks, CloseDisposes, Lose, Dispose
  <2>6. CASE Close \/ CloseSweeps \/ CloseEnds
    BY <2>6 DEF Close, CloseSweeps, CloseEnds
  <2> QED
    BY <2>1, <2>2, <2>3, <2>4, <2>5, <2>6 DEF Next
<1> QED
  BY <1>1, PTL DEF Spec, NoWorkerAfterClose

-----------------------------------------------------------------------------
(* QueryTransport implements QueryService: every step of the transport and  *)
(* of its workers is a step of the service, or one it does not see.         *)

Outcome == [q \in Queries |-> OutcomeOf(call[q])]

\* The service sees neither a change of worker nor of a state without outcome.
LEMMA Unseen ==
  ASSUME UNCHANGED <<turns, served>>, \A q \in Queries : OutcomeOf(call'[q]) = OutcomeOf(call[q])
  PROVE  UNCHANGED <<turns, Outcome, served>>
BY DEF Outcome

\* The turn chain moves on.
LEMMA SettleMaps ==
  ASSUME TypeOK, TurnInv, NEW q \in Queries, NEW kind \in Outcomes, HasTurn(q), Settle(q, kind),
         UNCHANGED served, kind = "answered" => q \in served
  PROVE  Service!Next
<1>1. /\ \A r \in Queries : r # q => call'[r] = call[r]
      /\ call'[q] = kind
  BY SettleTurns
<1>2. Outcome' = [Outcome EXCEPT ![q] = kind]
  BY <1>1 DEF Outcome, OutcomeOf
<1>3. Service!Settle(q, kind)
  BY <1>2 DEF Service!Settle, Settle, HasTurn, Outcome
<1> QED
  BY <1>3 DEF Service!Next, Outcomes

\* A worker is given up with the query that waits for it, or with none.
LEMMA DiscardMaps ==
  ASSUME TypeOK, Strong, NEW w \in Workers, Lose(w), UNCHANGED served
  PROVE  Service!Next \/ UNCHANGED <<turns, Outcome, served>>
<1>1. CASE turns # <<>> /\ WaitsFor(Head(turns), w)
  <2>1. /\ Head(turns) \in Queries /\ HasTurn(Head(turns)) /\ Settle(Head(turns), "failed")
        /\ "failed" \in Outcomes
    BY <1>1 DEF Lose, HasTurn, TypeOK, Outcomes
  <2> QED
    BY <2>1, SettleMaps DEF Strong
<1>2. CASE ~(turns # <<>> /\ WaitsFor(Head(turns), w))
  BY <1>2, Unseen DEF Lose
<1> QED
  BY <1>1, <1>2

LEMMA CallerMaps ==
  ASSUME TypeOK, Strong, NEW q \in Queries,
         \/ Call(q) \/ TurnStep(q) \/ AbortWaiting(q) \/ AbortPosted(q) \/ Deadline(q) \/ StartDeadline(q)
  PROVE  Service!Next \/ UNCHANGED <<turns, Outcome, served>>
<1> USE DEF Strong
<1>0. Outcomes = {"answered", "timeout", "aborted", "failed"}
  BY DEF Outcomes
<1>1. CASE Call(q)
  <2>1. /\ call[q] = "idle" /\ call' = [call EXCEPT ![q] = "queued"] /\ turns' = Append(turns, q)
        /\ UNCHANGED served
    BY <1>1 DEF Call
  <2>2. \A r \in Queries : OutcomeOf(call'[r]) = OutcomeOf(call[r])
    BY <1>0, <2>1 DEF OutcomeOf, TypeOK
  <2>3. Outcome[q] = "none" /\ Outcome' = Outcome
    BY <1>0, <2>1, <2>2 DEF Outcome, OutcomeOf
  <2>4. \A i \in DOMAIN turns : turns[i] # q
    BY <2>1 DEF TurnInv
  <2>5. Service!Ask(q)
    BY <2>1, <2>3, <2>4 DEF Service!Ask, Outcome
  <2> QED
    BY <2>5 DEF Service!Next
<1>2. CASE TurnAborted(q) \/ TurnRefused(q) \/ TurnCannotStart(q) \/ TurnPostFails(q) \/ StartDeadline(q)
  <2>1. HasTurn(q) /\ UNCHANGED served /\ \E kind \in Outcomes \ {"answered"} : Settle(q, kind)
    BY <1>0, <1>2 DEF TurnAborted, TurnRefused, TurnCannotStart, TurnPostFails, StartDeadline, TakesTurn
  <2> QED
    BY <2>1, SettleMaps
<1>3. CASE AbortPosted(q) \/ Deadline(q)
  <2>1. HasTurn(q) /\ UNCHANGED served /\ \E kind \in Outcomes \ {"answered"} : Settle(q, kind)
    BY <1>0, <1>3 DEF AbortPosted, Deadline, TurnInv
  <2> QED
    BY <2>1, SettleMaps
<1>4. CASE TurnPosts(q) \/ TurnStarts(q)
  <2>1. /\ call[q] = "queued" /\ \E state \in {"posted", "starting"} : call' = [call EXCEPT ![q] = state]
        /\ UNCHANGED <<turns, served>>
    BY <1>4 DEF TurnPosts, TurnStarts, TakesTurn
  <2>2. \A r \in Queries : OutcomeOf(call'[r]) = OutcomeOf(call[r])
    BY <1>0, <2>1 DEF OutcomeOf, TypeOK
  <2> QED
    BY <2>1, <2>2, Unseen
<1>5. CASE AbortWaiting(q)
  BY <1>5, Unseen DEF AbortWaiting
<1> QED
  BY <1>1, <1>2, <1>3, <1>4, <1>5 DEF TurnStep

LEMMA WorkerEventMaps ==
  ASSUME TypeOK, Strong, NEW w \in Workers, WorkerEvent(w)
  PROVE  Service!Next \/ UNCHANGED <<turns, Outcome, served>>
<1> USE DEF Strong
<1>0. Outcomes = {"answered", "timeout", "aborted", "failed"}
  BY DEF Outcomes
<1>1. ASSUME NEW q \in Queries, Ready(q, w)  PROVE Service!Next \/ UNCHANGED <<turns, Outcome, served>>
  <2>1. CASE q \in aborted
    BY <1>0, <1>1, <2>1, SettleMaps DEF Ready
  <2>2. CASE q \notin aborted
    <3>1. /\ call[q] = "starting" /\ call' = [call EXCEPT ![q] = "posted"] /\ UNCHANGED <<turns, served>>
      BY <1>1, <2>2 DEF Ready
    <3>2. \A r \in Queries : OutcomeOf(call'[r]) = OutcomeOf(call[r])
      BY <1>0, <3>1 DEF OutcomeOf, TypeOK
    <3> QED
      BY <3>1, <3>2, Unseen
  <2> QED
    BY <2>1, <2>2
<1>2. ASSUME NEW q \in Queries, Answer(q, w)  PROVE Service!Next \/ UNCHANGED <<turns, Outcome, served>>
  <2>1. CASE QueryCall(q) \in pending[w]
    <3>1. HasTurn(q) /\ Settle(q, "answered") /\ UNCHANGED served
      BY <1>2, <2>1 DEF Answer, WaiterInv, TurnInv
    <3>2. q \in served
      <4>1. outbox[w] \in Seq(Events) /\ outbox[w] # <<>> /\ Head(outbox[w]) = QueryCall(q)
        BY <1>2 DEF Answer, Delivers, TypeOK
      <4> QED
        BY <4>1 DEF DeliveryInv
    <3> QED
      BY <1>0, <3>1, <3>2, SettleMaps
  <2>2. CASE QueryCall(q) \notin pending[w]
    BY <1>2, <2>2, Unseen DEF Answer
  <2> QED
    BY <2>1, <2>2
<1>3. CASE ShutdownAnswered(w)
  BY <1>3, Unseen DEF ShutdownAnswered, callVars
<1>4. CASE WorkerLost(w)
  BY <1>4, DiscardMaps DEF WorkerLost
<1> QED
  BY <1>1, <1>2, <1>3, <1>4 DEF WorkerEvent

LEMMA OtherMaps ==
  ASSUME TypeOK, Strong,
         \/ \E w \in Workers : WorkerAnswers(w) \/ WorkerSwallows(w) \/ WorkerErrs(w)
                                 \/ CloseAsks(w) \/ CloseDisposes(w)
         \/ Close \/ CloseSweeps \/ CloseEnds
  PROVE  Service!Next \/ UNCHANGED <<turns, Outcome, served>>
<1> USE DEF Strong
<1>1. ASSUME NEW w \in Workers, WorkerAnswers(w)
      PROVE  Service!Next \/ UNCHANGED <<turns, Outcome, served>>
  <2>1. PICK id \in Ids : WorkerHandles(w, id) /\ served' = served \cup {q \in Queries : id = QueryCall(q)}
    BY <1>1 DEF WorkerAnswers
  <2>2. UNCHANGED <<call, turns>>
    BY <1>1 DEF WorkerAnswers, callVars
  <2>3. Outcome' = Outcome
    BY <2>2 DEF Outcome
  <2>4. ASSUME NEW q \in Queries, id = QueryCall(q)  PROVE Service!Next
    <3>1. {r \in Queries : id = QueryCall(r)} = {q}
      BY <2>4, IdFacts
    <3>2. inbox[w] \in Seq(Ids) /\ inbox[w] # <<>> /\ Head(inbox[w]) = QueryCall(q)
      BY <2>1, <2>4 DEF WorkerHandles, TypeOK
    <3>3. QueryCall(q) \in pending[w] /\ q \notin served
      BY <3>2 DEF DeliveryInv
    <3>4. HasTurn(q)
      BY <3>3 DEF WaiterInv, TurnInv
    <3>5. Service!Run(q)
      BY <2>1, <2>2, <2>3, <3>1, <3>3, <3>4 DEF Service!Run, HasTurn, Outcome
    <3> QED
      BY <3>5 DEF Service!Next
  <2>5. CASE \A q \in Queries : id # QueryCall(q)
    <3>1. served' = served
      BY <2>1, <2>5
    <3> QED
      BY <2>2, <2>3, <3>1
  <2> QED
    BY <2>4, <2>5
<1>2. ASSUME NEW w \in Workers, CloseDisposes(w)
      PROVE  Service!Next \/ UNCHANGED <<turns, Outcome, served>>
  BY <1>2, DiscardMaps DEF CloseDisposes
<1>3. CASE \/ \E w \in Workers : WorkerSwallows(w) \/ WorkerErrs(w) \/ CloseAsks(w)
           \/ Close \/ CloseSweeps \/ CloseEnds
  <2>1. UNCHANGED <<call, turns, served>>
    BY <1>3 DEF WorkerSwallows, WorkerErrs, CloseAsks, Close, CloseSweeps, CloseEnds, callVars
  <2> QED
    BY <2>1, Unseen
<1> QED
  BY <1>1, <1>2, <1>3

\* The transport implements the service, across deadlines, aborts, lost
\* workers and close, in every instance.
THEOREM ServiceImplemented == Spec => ImplementsService
<1>1. Init => Service!Init
  BY DEF Init, Service!Init, OutcomeOf, Outcomes
<1>2. TypeOK /\ Strong /\ [Next]_vars => [Service!Next]_<<turns, Outcome, served>>
  <2> SUFFICES ASSUME TypeOK, Strong, [Next]_vars
               PROVE  Service!Next \/ UNCHANGED <<turns, Outcome, served>>
    OBVIOUS
  <2>1. CASE UNCHANGED vars
    BY <2>1, Unseen DEF vars, callVars
  <2>2. CASE Next
    BY <2>2, CallerMaps, WorkerEventMaps, OtherMaps DEF Next
  <2> QED
    BY <2>1, <2>2
<1> QED
  BY <1>1, <1>2, InvariantCorrect, PTL DEF Spec, ImplementsService, Service!Spec, Outcome

=============================================================================
