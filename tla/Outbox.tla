-------------------------------- MODULE Outbox --------------------------------
(***************************************************************************)
(* The webhook outbox: events enqueued with the readings that caused them,   *)
(* and dispatches of the deliveries that are due, run by the requests an     *)
(* operator's scheduler makes (POST /v1/webhooks/dispatch).  Dispatches may   *)
(* overlap: nothing claims a delivery while its HTTP request is under way.    *)
(*                                                                         *)
(* As in Ingest, a dispatch selects outside of a transaction; its first       *)
(* UPDATE takes the database's write lock, and the lock is held, over the     *)
(* HTTP requests that follow, until the commit.  An UPDATE writes the columns *)
(* whose values the dispatch has changed, and no others.                     *)
(*                                                                         *)
(* The endpoints are those of one organization; dispatches serve all          *)
(* organizations alike.  next_retry_at is the number of minutes until the     *)
(* delivery is due, counted down by the clock.                               *)
(***************************************************************************)
EXTENDS Integers, Sequences, FiniteSets, SequencesExt

CONSTANTS
  Events,                 \* events readings may cause
  Endpoints,              \* subscribers' endpoints, registered or not yet
  Workers, NoWorker,      \* request threads, and "no thread"
  MaxAttempts,            \* webhook_max_attempts
  MaxBackoff,             \* the cap of the backoff, 60 minutes
  Limit,                  \* deliveries per dispatch, 25
  Faults                  \* which of "crash", "timeout" and "deactivate" happen

(* Rows of webhook_deliveries: an event for an endpoint. *)
Deliveries == Events \X Endpoints

PostCap == MaxAttempts + 1     \* more requests than this are not told apart

ASSUME OutboxAssumption ==
  /\ IsFiniteSet(Endpoints)
  /\ NoWorker \notin Workers
  /\ MaxAttempts \in Nat \ {0} /\ MaxBackoff \in Nat \ {0} /\ Limit \in Nat \ {0}

VARIABLES
  created,    \* the deliveries, in the order of created_at
  table,      \* webhook_deliveries, as committed; "absent" before its INSERT
  endpoint,   \* webhook_endpoints: "absent", "active" or "inactive"
  raised,     \* events that have occurred
  draft,      \* webhook_deliveries as the open write transaction sees it
  writer,     \* the worker that holds the write lock
  pc, job,    \* where each dispatch is, and its local variables
  posts,      \* HTTP requests made for each delivery, counted up to PostCap
  accepted    \* deliveries the subscriber has answered with a 2xx status

vars == <<created, table, endpoint, raised, draft, writer, pc, job, posts, accepted>>

subscriptions == <<endpoint, raised>>

RowType == [status : {"absent", "pending", "delivered", "failed"},
            attempts : 0..MaxAttempts, wait : 0..MaxBackoff]

Absent == [status |-> "absent", attempts |-> 0, wait |-> 0]
Queued == [status |-> "pending", attempts |-> 0, wait |-> 0]

NoDraft == [x \in Deliveries |-> Absent]
NoJob == [todo |-> {}]

Least(m, n) == IF m <= n THEN m ELSE n

-----------------------------------------------------------------------------
(* One delivery. *)

PowerOf2[n \in 0..MaxAttempts] == IF n = 0 THEN 1 ELSE 2 * PowerOf2[n - 1]

(* Variant: no cap. *)
Doubling(attempts) == PowerOf2[attempts - 1]

(* 1, 2, 4, ... minutes after the first, second, third, ... attempt. *)
Backoff(attempts) == Least(PowerOf2[attempts - 1], MaxBackoff)

(* Variant: the last attempt is not made. *)
OneShort(attempts) == attempts >= MaxAttempts - 1

Exhausted(attempts) == attempts >= MaxAttempts

(* Variant: any answer of the subscriber counts. *)
AnyAnswer(attempts, answer) == [status |-> "delivered", attempts |-> attempts, wait |-> 0]

(* What an attempt makes of the row: delivered on a 2xx answer; on any other  *)
(* answer or an exception, pending again after a backoff, or given up.        *)
Outcome(attempts, answer) ==
  CASE answer = "2xx" -> [status |-> "delivered", attempts |-> attempts, wait |-> 0]
    [] answer # "2xx" /\ Exhausted(attempts) ->
         [status |-> "failed", attempts |-> attempts, wait |-> 0]
    [] answer # "2xx" /\ ~ Exhausted(attempts) ->
         [status |-> "pending", attempts |-> attempts, wait |-> Backoff(attempts)]

(* Variant: the UPDATE writes every column. *)
WriteAll(row, loaded, new) == new

(* Variant: the counter is not written. *)
KeepCount(row, loaded, new) ==
  [status |-> IF new.status # loaded.status THEN new.status ELSE row.status,
   attempts |-> row.attempts,
   wait |-> IF new.wait # loaded.wait THEN new.wait ELSE row.wait]

(* The UPDATE: of the columns of new, those that differ from what the         *)
(* dispatch has loaded are written over the row.                             *)
Update(row, loaded, new) ==
  [status |-> IF new.status # loaded.status THEN new.status ELSE row.status,
   attempts |-> IF new.attempts # loaded.attempts THEN new.attempts ELSE row.attempts,
   wait |-> IF new.wait # loaded.wait THEN new.wait ELSE row.wait]

(* One minute less to wait. *)
Aged(row) == [row EXCEPT !.wait = IF @ = 0 THEN 0 ELSE @ - 1]

-----------------------------------------------------------------------------
(* Dispatches. *)

Image(w) == IF writer = w THEN draft ELSE table

Goto(w, label) == pc' = [pc EXCEPT ![w] = label]

(* A dispatch has the places of its deliveries in created, oldest first. *)
Item(w) == created[Min(job[w].todo)]

(* The request is over; an open transaction that was not committed is lost. *)
Leave(w) ==
  /\ Goto(w, "idle")
  /\ job' = [job EXCEPT ![w] = NoJob]
  /\ writer' = IF writer = w THEN NoWorker ELSE writer
  /\ draft' = IF writer = w THEN NoDraft ELSE draft

(* Variants: the status is not looked at; only first attempts are due. *)
AnyStatus(row) == row.status # "absent" /\ row.wait = 0
FirstOnly(row) == row.status = "pending" /\ row.attempts = 0

IsDue(row) == row.status = "pending" /\ row.wait = 0

(* The first Limit of the deliveries that are due. *)
Due == LET due == {i \in DOMAIN created : IsDue(table[created[i]])}
       IN  {i \in due : Cardinality({j \in due : j < i}) < Limit}

(* The oldest due deliveries are loaded; a dispatch that finds none changes   *)
(* nothing.                                                                  *)
StartDispatch(w) ==
  /\ pc[w] = "idle"
  /\ Due # {}
  /\ job' = [job EXCEPT ![w] = [todo |-> Due, loaded |-> table, read |-> <<>>, new |-> Absent]]
  /\ Goto(w, "attempt")
  /\ UNCHANGED <<created, table, subscriptions, draft, writer, posts, accepted>>

(* The endpoint of the delivery as the dispatch sees it: the session does not *)
(* refresh the row while it still holds it from the delivery before.          *)
Held(w) == LET read == job[w].read IN IF read # <<>> /\ read[1] = Item(w)[2] THEN read ELSE <<>>

Subscriber(w) == IF Held(w) # <<>> THEN Held(w) ELSE <<Item(w)[2], endpoint[Item(w)[2]]>>

Active(w) == Subscriber(w)[2] = "active"

(* Variant: the attempt is counted before the endpoint is looked at. *)
CountedSkip(w) ==
  /\ pc[w] = "attempt"
  /\ ~ Active(w)
  /\ job' = [job EXCEPT ![w].read = Subscriber(w),
                         ![w].new = [job[w].loaded[Item(w)] EXCEPT !.status = "failed", !.attempts = @ + 1]]
  /\ Goto(w, "flush")
  /\ UNCHANGED <<created, table, subscriptions, draft, writer, posts, accepted>>

(* No attempt is made at an inactive endpoint. *)
SkipInactive(w) ==
  /\ pc[w] = "attempt"
  /\ ~ Active(w)
  /\ job' = [job EXCEPT ![w].read = Subscriber(w),
                         ![w].new = [job[w].loaded[Item(w)] EXCEPT !.status = "failed"]]
  /\ Goto(w, "flush")
  /\ UNCHANGED <<created, table, subscriptions, draft, writer, posts, accepted>>

(* The HTTP request: answered with a 2xx status, or with another one, or not. *)
Attempt(w) ==
  /\ pc[w] = "attempt"
  /\ Active(w)
  /\ LET attempts == job[w].loaded[Item(w)].attempts + 1 IN
       \E answer \in {"2xx", "error"} :
         /\ job' = [job EXCEPT ![w].read = Subscriber(w), ![w].new = Outcome(attempts, answer)]
         /\ accepted' = IF answer = "2xx" THEN accepted \union {Item(w)} ELSE accepted
  /\ posts' = [posts EXCEPT ![Item(w)] = Least(@ + 1, PostCap)]
  /\ Goto(w, "flush")
  /\ UNCHANGED <<created, table, subscriptions, draft, writer>>

Flush(w) ==
  /\ pc[w] = "flush"
  /\ writer \in {NoWorker, w}
  /\ draft' = [Image(w) EXCEPT ![Item(w)] = Update(@, job[w].loaded[Item(w)], job[w].new)]
  /\ writer' = w
  /\ LET rest == job[w].todo \ {Min(job[w].todo)} IN
       /\ job' = [job EXCEPT ![w].todo = rest]
       /\ Goto(w, IF rest = {} THEN "commit" ELSE "attempt")
  /\ UNCHANGED <<created, table, subscriptions, posts, accepted>>

(* The database dependency commits once the response is sent. *)
Commit(w) ==
  /\ pc[w] = "commit"
  /\ table' = draft
  /\ Leave(w)
  /\ UNCHANGED <<created, subscriptions, posts, accepted>>

(* The write lock was not to be had within 30 s: the request fails. *)
BusyTimeout(w) ==
  /\ "timeout" \in Faults
  /\ pc[w] = "flush"
  /\ writer \notin {NoWorker, w}
  /\ Leave(w)
  /\ UNCHANGED <<created, table, subscriptions, posts, accepted>>

-----------------------------------------------------------------------------
(* The rest of the system. *)

(* POST /v1/webhook-endpoints *)
CreateEndpoint(p) ==
  /\ endpoint[p] = "absent"
  /\ writer = NoWorker
  /\ endpoint' = [endpoint EXCEPT ![p] = "active"]
  /\ UNCHANGED <<created, table, raised, draft, writer, pc, job, posts, accepted>>

(* A reading is committed together with a delivery of its event to every       *)
(* endpoint active at that time, in the order of a query that asks for none.  *)
Enqueue(e) ==
  /\ e \notin raised
  /\ writer = NoWorker
  /\ raised' = raised \union {e}
  /\ LET new == {<<e, p>> : p \in {q \in Endpoints : endpoint[q] = "active"}} IN
       /\ table' = [x \in Deliveries |-> IF x \in new THEN Queued ELSE table[x]]
       /\ \E order \in SetToSeqs(new) : created' = created \o order
  /\ UNCHANGED <<endpoint, draft, writer, pc, job, posts, accepted>>

(* No route of the service does it: an operator clears the column. *)
Deactivate(p) ==
  /\ "deactivate" \in Faults
  /\ endpoint[p] = "active"
  /\ writer = NoWorker
  /\ endpoint' = [endpoint EXCEPT ![p] = "inactive"]
  /\ UNCHANGED <<created, table, raised, draft, writer, pc, job, posts, accepted>>

(* A minute passes.  The half minute an UPDATE may wait for the lock is not    *)
(* taken off the backoff it writes.                                          *)
Tick ==
  /\ \E x \in Deliveries : table[x].wait > 0
  /\ table' = [x \in Deliveries |-> Aged(table[x])]
  /\ draft' = [x \in Deliveries |-> Aged(draft[x])]
  /\ UNCHANGED <<created, subscriptions, writer, pc, job, posts, accepted>>

Crash ==
  /\ "crash" \in Faults
  /\ \E w \in Workers : pc[w] # "idle"
  /\ pc' = [w \in Workers |-> "idle"]
  /\ job' = [w \in Workers |-> NoJob]
  /\ writer' = NoWorker
  /\ draft' = NoDraft
  /\ UNCHANGED <<created, table, subscriptions, posts, accepted>>

Init ==
  /\ created = <<>>
  /\ table = [x \in Deliveries |-> Absent]
  /\ endpoint = [p \in Endpoints |-> "absent"]
  /\ raised = {}
  /\ draft = NoDraft
  /\ writer = NoWorker
  /\ pc = [w \in Workers |-> "idle"]
  /\ job = [w \in Workers |-> NoJob]
  /\ posts = [x \in Deliveries |-> 0]
  /\ accepted = {}

Serve(w) == SkipInactive(w) \/ Attempt(w) \/ Flush(w) \/ Commit(w) \/ BusyTimeout(w)

Next ==
  \/ \E w \in Workers : StartDispatch(w) \/ Serve(w)
  \/ \E e \in Events : Enqueue(e)
  \/ \E p \in Endpoints : CreateEndpoint(p) \/ Deactivate(p)
  \/ Tick \/ Crash

Spec == Init /\ [][Next]_vars

(* The scheduler keeps dispatching ("cron every minute"), running threads run *)
(* and time passes.                                                         *)
FairSpec ==
  /\ Spec
  /\ \A w \in Workers : WF_vars(StartDispatch(w)) /\ WF_vars(Serve(w))
  /\ WF_vars(Tick)

-----------------------------------------------------------------------------
(* Properties. *)

EndpointStatus == {"absent", "active", "inactive"}

Dispatch == [todo : SUBSET Nat, loaded : [Deliveries -> RowType],
             read : {<<>>} \union (Endpoints \X EndpointStatus), new : RowType]

(* Type correctness; a dispatch in progress has a delivery at hand until it   *)
(* commits, and only one that has flushed can hold the lock.                 *)
TypeOK ==
  /\ created \in Seq(Deliveries)
  /\ table \in [Deliveries -> RowType]
  /\ endpoint \in [Endpoints -> EndpointStatus] /\ raised \subseteq Events
  /\ draft \in [Deliveries -> RowType]
  /\ writer \in Workers \union {NoWorker}
  /\ pc \in [Workers -> {"idle", "attempt", "flush", "commit"}]
  /\ job \in [Workers -> {NoJob} \union Dispatch]
  /\ \A w \in Workers :
       /\ pc[w] = "idle" <=> job[w] = NoJob
       /\ pc[w] \in {"attempt", "flush"} => job[w].todo # {}
       /\ job[w].todo \subseteq DOMAIN created
       /\ pc[w] = "commit" => writer = w
  /\ posts \in [Deliveries -> 0..PostCap]
  /\ accepted \subseteq Deliveries

(* However dispatches overlap, fail or die: a delivery counts as delivered    *)
(* only if its subscriber has accepted it.                                   *)
DeliveredWasAccepted ==
  \A x \in Deliveries : table[x].status = "delivered" => x \in accepted

(* A delivery is given up only after all of its attempts were made, unless    *)
(* its endpoint was deactivated.                                             *)
FailedWasExhausted ==
  \A x \in Deliveries :
    table[x].status = "failed" => posts[x] >= MaxAttempts \/ endpoint[x[2]] = "inactive"

(* No attempt is recorded that was not made.                                 *)
AttemptsCovered == \A x \in Deliveries : table[x].attempts <= posts[x]

(* A settled delivery never becomes pending again, not even when a dispatch   *)
(* that loaded it earlier finishes later with a failed attempt.              *)
SettledStays ==
  [][\A x \in Deliveries :
       table[x].status \in {"delivered", "failed"} => table'[x].status \in {"delivered", "failed"}]_vars

(* Dispatches that do not overlap count every attempt: webhook_max_attempts   *)
(* bounds the HTTP requests made for a delivery.                             *)
AttemptsExact ==
  (\A w \in Workers : pc[w] = "idle") => \A x \in Deliveries : table[x].attempts = posts[x]

(* Dispatches that do not overlap leave a delivered event delivered.          *)
DeliveredStays ==
  [][\A x \in Deliveries : table[x].status = "delivered" => table'[x].status = "delivered"]_vars

(* Every event is eventually delivered or given up.                          *)
EveryEventSettles ==
  \A x \in Deliveries :
    table[x].status = "pending" ~> table[x].status \in {"delivered", "failed"}
=============================================================================
