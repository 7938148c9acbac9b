----------------------------- MODULE OutboxProofs -----------------------------
(***************************************************************************)
(* Proofs about Outbox, for any events, endpoints and workers, any numbers of *)
(* attempts and deliveries per dispatch, and all of its faults.              *)
(***************************************************************************)
EXTENDS Outbox, FiniteSums

Settled(row) == row.status \in {"delivered", "failed"}

(* What a row of a delivery may say of it, be it committed, in a draft or in  *)
(* a dispatch that is about to write it.                                     *)
Fits(row, x, taken, posted, ends, occurred) ==
  /\ row.status = "delivered" => x \in taken
  /\ row.status = "failed" => posted[x] >= MaxAttempts \/ ends[x[2]] = "inactive"
  /\ row.status = "pending" => row.attempts < MaxAttempts
  /\ row.status # "absent" => x[1] \in occurred /\ ends[x[2]] # "absent"
  /\ row.attempts <= posted[x]

RowOK(row, x) == Fits(row, x, accepted, posts, endpoint, raised)

(* A draft settles more deliveries than the table, and unsettles none. *)
Follows(row, old) ==
  /\ Settled(old) => Settled(row)
  /\ old.status # "absent" => row.status # "absent"

TableOK == \A x \in Deliveries : RowOK(table[x], x)

DraftOK ==
  writer # NoWorker => \A x \in Deliveries : RowOK(draft[x], x) /\ Follows(draft[x], table[x])

QueueOK == \A i \in DOMAIN created : table[created[i]].status # "absent"

(* What a dispatch has loaded was pending and has not been attempted more      *)
(* often than posted; what it holds of an endpoint was true when it read it.  *)
LoadedOK(w) ==
  \A i \in job[w].todo : LET x == created[i] IN
    /\ job[w].loaded[x].status = "pending"
    /\ job[w].loaded[x].attempts < MaxAttempts
    /\ job[w].loaded[x].attempts <= posts[x]

ReadOK(w) ==
  LET read == job[w].read IN
    read # <<>> => /\ read[2] # "absent"
                   /\ read[2] = "inactive" => endpoint[read[1]] = "inactive"

NewOK(w) == pc[w] = "flush" => job[w].new.status # "absent" /\ RowOK(job[w].new, Item(w))

JobsOK == \A w \in Workers : pc[w] # "idle" => LoadedOK(w) /\ ReadOK(w) /\ NewOK(w)

OutboxInv == TypeOK /\ TableOK /\ DraftOK /\ QueueOK /\ JobsOK

-----------------------------------------------------------------------------
(* The operators. *)

(* The function that doubles is defined, and its values are naturals. *)
LEMMA PowerType == \A n \in 0..MaxAttempts : PowerOf2[n] \in Nat
<1> DEFINE Rec(g, n) == IF n = 0 THEN 1 ELSE 2 * g[n - 1]
           Solved(k) == \E g \in [0..k -> Nat] : \A n \in 0..k : g[n] = Rec(g, n)
           Bad == {k \in Nat : ~ Solved(k)}
<1>0. MaxAttempts \in Nat BY OutboxAssumption
<1>1. Solved(0)
  <2> DEFINE g == [n \in 0..0 |-> 1]
  <2>1. g \in [0..0 -> Nat] /\ \A n \in 0..0 : g[n] = Rec(g, n) OBVIOUS
  <2> QED BY <2>1
<1>2. ASSUME NEW k \in Nat, Solved(k) PROVE Solved(k + 1)
  <2>1. PICK g \in [0..k -> Nat] : \A n \in 0..k : g[n] = Rec(g, n) BY <1>2
  <2> DEFINE h == [n \in 0..(k + 1) |-> Rec(g, n)]
  <2>2. ASSUME NEW n \in 0..k PROVE h[n] = g[n] /\ h[n] \in Nat
    <3>1. n \in 0..(k + 1) OBVIOUS
    <3>2. h[n] = Rec(g, n) BY <3>1
    <3> HIDE DEF h
    <3>3. g[n] = Rec(g, n) /\ g[n] \in Nat BY <2>1
    <3> QED BY <3>2, <3>3
  <2>3. \A n \in 0..(k + 1) : n # 0 => n - 1 \in 0..k OBVIOUS
  <2>4. ASSUME NEW n \in 0..(k + 1) PROVE h[n] \in Nat /\ h[n] = Rec(h, n)
    <3>1. h[n] = Rec(g, n) OBVIOUS
    <3> HIDE DEF h
    <3>2. CASE n = 0
      <4>1. h[n] = 1 BY <3>1, <3>2
      <4> QED BY <3>2, <4>1
    <3>3. CASE n # 0
      <4>1. n - 1 \in 0..k BY <2>3, <3>3
      <4>2. h[n - 1] = g[n - 1] /\ h[n - 1] \in Nat BY <2>2, <4>1
      <4>3. h[n] = 2 * h[n - 1] BY <3>1, <3>3, <4>2
      <4> QED BY <3>3, <4>2, <4>3
    <3> QED BY <3>2, <3>3
  <2>5. h \in [0..(k + 1) -> Nat] BY <2>4
  <2> HIDE DEF h
  <2> QED BY <2>4, <2>5
<1> HIDE DEF Solved
<1>3. Bad = {}
  <2> SUFFICES ASSUME Bad # {} PROVE FALSE OBVIOUS
  <2>1. PICK k \in Bad : \A m \in Bad : k <= m BY LeastNumber
  <2>2. k \in Nat \ {0} BY <1>1
  <2>3. k - 1 \in Nat /\ k - 1 \notin Bad BY <2>1, <2>2
  <2>4. Solved((k - 1) + 1) BY <1>2, <2>3
  <2> QED BY <2>2, <2>4
<1>4. PICK g \in [0..MaxAttempts -> Nat] : \A n \in 0..MaxAttempts : g[n] = Rec(g, n)
  BY <1>0, <1>3 DEF Solved
<1> DEFINE Sol(h) == h = [n \in 0..MaxAttempts |-> Rec(h, n)]
<1>5. Sol(g) BY <1>4
<1>6. PowerOf2 = CHOOSE h : Sol(h) BY DEF PowerOf2
<1>7. Sol(PowerOf2) BY <1>5, <1>6
<1> DEFINE Wrong == {n \in 0..MaxAttempts : PowerOf2[n] \notin Nat}
<1>8. Wrong = {}
  <2> SUFFICES ASSUME Wrong # {} PROVE FALSE OBVIOUS
  <2>0. Wrong \in SUBSET Nat OBVIOUS
  <2>1. PICK n \in Wrong : \A m \in Wrong : n <= m
    <3> HIDE DEF Wrong
    <3> QED BY <2>0, LeastNumber
  <2>2. PowerOf2[n] = Rec(PowerOf2, n) BY <1>7
  <2>3. n # 0 BY <2>2
  <2>4. n - 1 \in 0..MaxAttempts BY <1>0, <2>3
  <2>5. n - 1 \notin Wrong BY <2>1, <2>4
  <2> QED BY <2>2, <2>3, <2>4, <2>5
<1> QED BY <1>8

LEMMA LeastOf ==
  ASSUME NEW m \in Int, NEW n \in Int
  PROVE  Least(m, n) \in {m, n} /\ Least(m, n) <= m /\ Least(m, n) <= n
BY DEF Least

LEMMA BackoffType == \A a \in 1..MaxAttempts : Backoff(a) \in 0..MaxBackoff
<1> TAKE a \in 1..MaxAttempts
<1>1. PowerOf2[a - 1] \in Nat BY OutboxAssumption, PowerType
<1>2. MaxBackoff \in Nat BY OutboxAssumption
<1> QED BY <1>1, <1>2 DEF Backoff, Least

LEMMA OutcomeType ==
  ASSUME NEW a \in 1..MaxAttempts, NEW answer
  PROVE  /\ Outcome(a, answer) \in RowType
         /\ Outcome(a, answer).attempts = a
         /\ answer = "2xx" => Outcome(a, answer).status = "delivered"
         /\ answer # "2xx" => Outcome(a, answer).status = IF a >= MaxAttempts THEN "failed" ELSE "pending"
<1>1. Backoff(a) \in 0..MaxBackoff /\ 0 \in 0..MaxBackoff /\ a \in 0..MaxAttempts
  BY OutboxAssumption, BackoffType
<1>2. CASE answer = "2xx" BY <1>1, <1>2 DEF Outcome, RowType
<1>3. CASE answer # "2xx" /\ Exhausted(a) BY <1>1, <1>3 DEF Outcome, RowType, Exhausted
<1>4. CASE answer # "2xx" /\ ~ Exhausted(a) BY <1>1, <1>4 DEF Outcome, RowType, Exhausted
<1> QED BY <1>2, <1>3, <1>4

LEMMA UpdateType ==
  ASSUME NEW row \in RowType, NEW loaded \in RowType, NEW new \in RowType
  PROVE  Update(row, loaded, new) \in RowType
BY DEF Update, RowType

LEMMA AgedType ==
  ASSUME NEW row \in RowType
  PROVE  Aged(row) \in RowType /\ Aged(row).status = row.status /\ Aged(row).attempts = row.attempts
<1>1. row.wait \in 0..MaxBackoff BY DEF RowType
<1>2. (IF row.wait = 0 THEN 0 ELSE row.wait - 1) \in 0..MaxBackoff BY <1>1, OutboxAssumption
<1> QED BY <1>2 DEF Aged, RowType

LEMMA MinOf ==
  ASSUME NEW T \in SUBSET Nat, T # {}
  PROVE  Min(T) \in T /\ \A n \in T : Min(T) <= n
BY LeastNumber DEF Min

LEMMA AbsentType == Absent \in RowType /\ Queued \in RowType
BY OutboxAssumption DEF Absent, Queued, RowType

LEMMA JobType ==
  ASSUME TypeOK, NEW w \in Workers, pc[w] # "idle"
  PROVE  job[w] \in Dispatch
BY DEF TypeOK

LEMMA ItemType ==
  ASSUME TypeOK, NEW w \in Workers, pc[w] \in {"attempt", "flush"}
  PROVE  LET k == Min(job[w].todo)
         IN  /\ job[w] \in Dispatch
             /\ k \in job[w].todo /\ k \in DOMAIN created /\ k \in Nat
             /\ Item(w) = created[k] /\ Item(w) \in Deliveries /\ Item(w)[2] \in Endpoints
<1>1. job[w] \in Dispatch /\ job[w].todo # {} BY JobType DEF TypeOK
<1>2. job[w].todo \in SUBSET Nat BY <1>1 DEF Dispatch
<1>3. Min(job[w].todo) \in job[w].todo BY <1>1, <1>2, MinOf
<1>4. Min(job[w].todo) \in DOMAIN created /\ Item(w) \in Deliveries
  BY <1>3 DEF TypeOK, Item
<1> QED BY <1>1, <1>2, <1>3, <1>4 DEF Item, Deliveries

-----------------------------------------------------------------------------
(* What a step leaves alone stays as good as it was. *)

Grows ==
  /\ \A x \in Deliveries : posts[x] <= posts'[x]
  /\ accepted \subseteq accepted' /\ raised \subseteq raised'
  /\ \A p \in Endpoints : /\ endpoint[p] # "absent" => endpoint'[p] # "absent"
                          /\ endpoint[p] = "inactive" => endpoint'[p] = "inactive"
  /\ \A i \in DOMAIN created : i \in DOMAIN created' /\ created'[i] = created[i]

LEMMA RowStays ==
  ASSUME TypeOK, TypeOK', Grows
  PROVE  \A x \in Deliveries, row \in RowType :
           RowOK(row, x) => Fits(row, x, accepted', posts', endpoint', raised')
<1> SUFFICES ASSUME NEW x \in Deliveries, NEW row \in RowType, RowOK(row, x)
             PROVE  Fits(row, x, accepted', posts', endpoint', raised')
  OBVIOUS
<1>1. x[2] \in Endpoints BY DEF Deliveries
<1>2. posts[x] \in Nat /\ posts'[x] \in Nat /\ posts[x] <= posts'[x] BY DEF TypeOK, Grows
<1>3. row.attempts \in Nat /\ MaxAttempts \in Nat BY OutboxAssumption DEF RowType
<1> QED BY <1>1, <1>2, <1>3 DEF RowOK, Fits, Grows

LEMMA JobStays ==
  ASSUME OutboxInv, TypeOK', Grows, NEW w \in Workers, pc[w] # "idle",
         pc'[w] = pc[w], job'[w] = job[w]
  PROVE  LoadedOK(w)' /\ ReadOK(w)' /\ NewOK(w)'
<1>1. LoadedOK(w) /\ ReadOK(w) /\ NewOK(w) /\ TypeOK BY DEF OutboxInv, JobsOK
<1>2. job[w] \in Dispatch /\ job[w].todo \subseteq DOMAIN created BY <1>1, JobType DEF TypeOK
<1>3. LoadedOK(w)'
  <2> SUFFICES ASSUME NEW i \in job[w].todo
               PROVE  LET x == created'[i] IN
                        /\ job[w].loaded[x].status = "pending"
                        /\ job[w].loaded[x].attempts < MaxAttempts
                        /\ job[w].loaded[x].attempts <= posts'[x]
    BY DEF LoadedOK
  <2> DEFINE x == created[i]
  <2>1. x \in Deliveries /\ created'[i] = x BY <1>1, <1>2 DEF TypeOK, Grows
  <2>2. job[w].loaded[x] \in RowType BY <1>2, <2>1 DEF Dispatch
  <2>3. posts[x] \in Nat /\ posts'[x] \in Nat /\ posts[x] <= posts'[x]
    BY <2>1 DEF TypeOK, Grows, OutboxInv
  <2>4. job[w].loaded[x].attempts \in Nat BY <2>2 DEF RowType
  <2> QED BY <1>1, <2>1, <2>3, <2>4 DEF LoadedOK
<1>4. ReadOK(w)'
  <2>1. job[w].read # <<>> => job[w].read[1] \in Endpoints BY <1>2 DEF Dispatch
  <2> QED BY <1>1, <2>1 DEF ReadOK, Grows
<1>5. NewOK(w)'
  <2> SUFFICES ASSUME pc[w] = "flush"
               PROVE  job[w].new.status # "absent" /\ RowOK(job[w].new, Item(w))'
    BY DEF NewOK
  <2> DEFINE x == Item(w)
  <2>1. x \in Deliveries /\ Item(w)' = x /\ job[w].new \in RowType
    BY <1>1, <1>2, ItemType DEF Item, Dispatch, Grows
  <2>2. job[w].new.status # "absent" /\ RowOK(job[w].new, x) BY <1>1 DEF NewOK
  <2>3. Fits(job[w].new, x, accepted', posts', endpoint', raised') BY <1>1, <2>1, <2>2, RowStays
  <2> QED BY <2>1, <2>2, <2>3 DEF RowOK
<1> QED BY <1>3, <1>4, <1>5

(* The dispatches a step of worker w does not take part in. *)
LEMMA OthersStay ==
  ASSUME OutboxInv, TypeOK', Grows, NEW w \in Workers,
         \A v \in Workers : v # w => pc'[v] = pc[v] /\ job'[v] = job[v],
         pc'[w] # "idle" => LoadedOK(w)' /\ ReadOK(w)' /\ NewOK(w)'
  PROVE  JobsOK'
<1> SUFFICES ASSUME NEW v \in Workers, pc'[v] # "idle"
             PROVE  LoadedOK(v)' /\ ReadOK(v)' /\ NewOK(v)'
  BY DEF JobsOK
<1>1. CASE v = w BY <1>1
<1>2. CASE v # w BY <1>2, JobStays
<1> QED BY <1>1, <1>2

(* A step that writes neither the table nor a draft. *)
LEMMA TablesStay ==
  ASSUME OutboxInv, TypeOK', Grows, UNCHANGED <<created, table, draft, writer>>
  PROVE  TableOK' /\ DraftOK' /\ QueueOK'
<1>1. TypeOK /\ TableOK /\ DraftOK /\ QueueOK BY DEF OutboxInv
<1>2. \A x \in Deliveries : table[x] \in RowType /\ draft[x] \in RowType BY <1>1 DEF TypeOK
<1>3. TableOK' BY <1>1, <1>2, RowStays DEF TableOK, RowOK
<1>4. DraftOK' BY <1>1, <1>2, RowStays DEF DraftOK, RowOK
<1>5. QueueOK' BY <1>1 DEF QueueOK
<1> QED BY <1>3, <1>4, <1>5
-----------------------------------------------------------------------------
(* The steps of a dispatch. *)

LEMMA StartKeeps ==
  ASSUME OutboxInv, NEW w \in Workers, StartDispatch(w)
  PROVE  OutboxInv'
<1>1. TypeOK /\ TableOK /\ QueueOK BY DEF OutboxInv
<1>2. Due \subseteq DOMAIN created /\ DOMAIN created \subseteq Nat /\ Due # {}
  <2>1. DOMAIN created = 1..Len(created) BY <1>1 DEF TypeOK
  <2>2. Due \subseteq DOMAIN created BY DEF Due
  <2>3. Due # {} BY DEF StartDispatch
  <2> QED BY <2>1, <2>2, <2>3
<1> DEFINE j == [todo |-> Due, loaded |-> table, read |-> <<>>, new |-> Absent]
<1>3. /\ job' = [job EXCEPT ![w] = j] /\ pc' = [pc EXCEPT ![w] = "attempt"]
      /\ pc[w] = "idle"
      /\ UNCHANGED <<created, table, endpoint, raised, draft, writer, posts, accepted>>
  BY DEF StartDispatch, Goto, subscriptions
<1>4. j \in Dispatch /\ j.todo = Due /\ j.loaded = table /\ j.read = <<>>
  BY <1>1, <1>2, AbsentType DEF Dispatch, TypeOK
<1>5. j # NoJob BY <1>2, <1>4 DEF NoJob
<1> HIDE DEF j
<1>6. /\ pc'[w] = "attempt" /\ job'[w] = j
      /\ \A v \in Workers : v # w => pc'[v] = pc[v] /\ job'[v] = job[v]
  BY <1>1, <1>3 DEF TypeOK
<1>7. TypeOK'
  <2>1. pc' \in [Workers -> {"idle", "attempt", "flush", "commit"}] BY <1>1, <1>3 DEF TypeOK
  <2>2. ASSUME NEW v \in Workers
        PROVE  /\ job'[v] \in {NoJob} \union Dispatch
               /\ pc'[v] = "idle" <=> job'[v] = NoJob
               /\ pc'[v] \in {"attempt", "flush"} => job'[v].todo # {}
               /\ job'[v].todo \subseteq DOMAIN created
               /\ pc'[v] = "commit" => writer = v
    BY <1>1, <1>2, <1>4, <1>5, <1>6 DEF TypeOK
  <2> QED BY <1>1, <1>3, <2>1, <2>2 DEF TypeOK
<1>8. Grows BY <1>1, <1>3 DEF Grows, TypeOK
<1>9. LoadedOK(w)' /\ ReadOK(w)' /\ NewOK(w)'
  <2>1. ASSUME NEW i \in Due
        PROVE  LET x == created[i] IN
                 table[x].status = "pending" /\ table[x].attempts < MaxAttempts
                 /\ table[x].attempts <= posts[x]
    <3>1. created[i] \in Deliveries BY <1>1, <1>2 DEF TypeOK
    <3>2. table[created[i]].status = "pending" BY DEF Due, IsDue
    <3> QED BY <1>1, <3>1, <3>2 DEF TableOK, RowOK, Fits
  <2> QED BY <1>3, <1>4, <1>6, <2>1 DEF LoadedOK, ReadOK, NewOK
<1>10. JobsOK' BY <1>6, <1>7, <1>8, <1>9, OthersStay
<1> QED BY <1>3, <1>7, <1>8, <1>10, TablesStay DEF OutboxInv

(* What a dispatch knows of the subscriber it serves, fresh or held. *)
LEMMA SubscriberKnown ==
  ASSUME OutboxInv, NEW w \in Workers, pc[w] = "attempt"
  PROVE  /\ Subscriber(w) \in Endpoints \X EndpointStatus
         /\ Subscriber(w)[1] = Item(w)[2]
         /\ Subscriber(w)[2] # "absent"
         /\ Subscriber(w)[2] = "inactive" => endpoint[Subscriber(w)[1]] = "inactive"
<1>1. TypeOK /\ JobsOK /\ TableOK /\ QueueOK BY DEF OutboxInv
<1>2. /\ job[w] \in Dispatch /\ Item(w) \in Deliveries /\ Item(w)[2] \in Endpoints
      /\ Min(job[w].todo) \in DOMAIN created /\ Item(w) = created[Min(job[w].todo)]
  BY <1>1, ItemType
<1>3. endpoint[Item(w)[2]] # "absent" BY <1>1, <1>2 DEF QueueOK, TableOK, RowOK, Fits
<1>4. ReadOK(w) BY <1>1 DEF JobsOK
<1>5. CASE Held(w) # <<>>
  <2>1. Subscriber(w) = job[w].read /\ job[w].read # <<>> /\ job[w].read[1] = Item(w)[2]
    BY <1>5 DEF Subscriber, Held
  <2> QED BY <1>2, <1>4, <2>1 DEF ReadOK, Dispatch
<1>6. CASE Held(w) = <<>>
  <2>1. Subscriber(w) = <<Item(w)[2], endpoint[Item(w)[2]]>> BY <1>6 DEF Subscriber
  <2> QED BY <1>1, <1>2, <1>3, <2>1 DEF TypeOK
<1> QED BY <1>5, <1>6

(* What an attempt, or the lack of one, makes of the job of its dispatch. *)
LEMMA AttemptStep ==
  ASSUME OutboxInv, NEW w \in Workers, pc[w] = "attempt",
         NEW new \in RowType,
         job' = [job EXCEPT ![w].read = Subscriber(w), ![w].new = new],
         pc' = [pc EXCEPT ![w] = "flush"],
         UNCHANGED <<created, table, endpoint, raised, draft, writer>>,
         posts' \in [Deliveries -> 0..PostCap], accepted' \subseteq Deliveries,
         \A x \in Deliveries : posts[x] <= posts'[x],
         accepted \subseteq accepted',
         new.status # "absent",
         Fits(new, Item(w), accepted', posts', endpoint, raised)
  PROVE  OutboxInv'
<1>1. TypeOK /\ JobsOK /\ TableOK /\ QueueOK BY DEF OutboxInv
<1>2. /\ job[w] \in Dispatch /\ Item(w) \in Deliveries /\ Item(w)[2] \in Endpoints
      /\ Min(job[w].todo) \in DOMAIN created /\ Item(w) = created[Min(job[w].todo)]
  BY <1>1, ItemType
<1>4. LoadedOK(w) /\ ReadOK(w) BY <1>1 DEF JobsOK
<1> DEFINE j == [job[w] EXCEPT !.read = Subscriber(w), !.new = new]
<1>5. /\ Subscriber(w) \in Endpoints \X EndpointStatus
      /\ Subscriber(w)[2] # "absent"
      /\ Subscriber(w)[2] = "inactive" => endpoint[Subscriber(w)[1]] = "inactive"
  BY SubscriberKnown
<1>6. j \in Dispatch /\ j.todo = job[w].todo /\ j.loaded = job[w].loaded
      /\ j.read = Subscriber(w) /\ j.new = new
  BY <1>2, <1>5 DEF Dispatch
<1>7. job'[w] = j /\ pc'[w] = "flush" BY <1>1 DEF TypeOK
<1> HIDE DEF j
<1>8. \A v \in Workers : v # w => pc'[v] = pc[v] /\ job'[v] = job[v] BY <1>1 DEF TypeOK
<1>9. job[w] # NoJob /\ job[w].todo # {} BY <1>1 DEF TypeOK
<1>10. j # NoJob BY <1>6, <1>9 DEF NoJob
<1>11. TypeOK'
  <2>1. pc' \in [Workers -> {"idle", "attempt", "flush", "commit"}] BY <1>1 DEF TypeOK
  <2>2. ASSUME NEW v \in Workers
        PROVE  /\ job'[v] \in {NoJob} \union Dispatch
               /\ pc'[v] = "idle" <=> job'[v] = NoJob
               /\ pc'[v] \in {"attempt", "flush"} => job'[v].todo # {}
               /\ job'[v].todo \subseteq DOMAIN created
               /\ pc'[v] = "commit" => writer = v
    <3>1. CASE v = w BY <1>1, <1>6, <1>7, <1>9, <1>10, <3>1 DEF TypeOK
    <3>2. CASE v # w
      <4>1. pc'[v] = pc[v] /\ job'[v] = job[v] BY <1>8, <3>2
      <4> QED BY <1>1, <4>1 DEF TypeOK
    <3> QED BY <3>1, <3>2
  <2> QED BY <1>1, <2>1, <2>2 DEF TypeOK
<1>12. Grows BY <1>1 DEF Grows, TypeOK
<1>13. LoadedOK(w)'
  <2> SUFFICES ASSUME NEW i \in job[w].todo
               PROVE  LET x == created[i] IN
                        /\ job[w].loaded[x].status = "pending"
                        /\ job[w].loaded[x].attempts < MaxAttempts
                        /\ job[w].loaded[x].attempts <= posts'[x]
    BY <1>6, <1>7 DEF LoadedOK
  <2> DEFINE x == created[i]
  <2>1. i \in DOMAIN created /\ x \in Deliveries BY <1>1 DEF TypeOK
  <2>2. posts[x] \in Nat /\ posts'[x] \in Nat /\ posts[x] <= posts'[x] BY <1>1, <2>1 DEF TypeOK
  <2>3. job[w].loaded[x].attempts \in Nat BY <1>2, <2>1 DEF Dispatch, RowType
  <2>4. /\ job[w].loaded[x].status = "pending"
        /\ job[w].loaded[x].attempts < MaxAttempts
        /\ job[w].loaded[x].attempts <= posts[x]
    BY <1>4 DEF LoadedOK
  <2> QED BY <2>2, <2>3, <2>4
<1>14. ReadOK(w)' BY <1>5, <1>6, <1>7 DEF ReadOK
<1>15. NewOK(w)'
  <2>1. Item(w)' = Item(w) BY <1>6, <1>7 DEF Item
  <2> QED BY <1>6, <1>7, <2>1 DEF NewOK, RowOK
<1>16. JobsOK' BY <1>8, <1>11, <1>12, <1>13, <1>14, <1>15, OthersStay
<1> QED BY <1>11, <1>12, <1>16, TablesStay DEF OutboxInv

LEMMA SkipKeeps ==
  ASSUME OutboxInv, NEW w \in Workers, SkipInactive(w)
  PROVE  OutboxInv'
<1> DEFINE x == Item(w)
           new == [job[w].loaded[x] EXCEPT !.status = "failed"]
<1>1. TypeOK /\ TableOK /\ QueueOK /\ LoadedOK(w) /\ pc[w] = "attempt"
  BY DEF OutboxInv, JobsOK, SkipInactive
<1>2. /\ job[w] \in Dispatch /\ x \in Deliveries /\ Min(job[w].todo) \in job[w].todo
      /\ Min(job[w].todo) \in DOMAIN created /\ x = created[Min(job[w].todo)]
  BY <1>1, ItemType
<1>3. /\ job' = [job EXCEPT ![w].read = Subscriber(w), ![w].new = new]
      /\ pc' = [pc EXCEPT ![w] = "flush"]
      /\ UNCHANGED <<created, table, endpoint, raised, draft, writer, posts, accepted>>
      /\ ~ Active(w)
  BY DEF SkipInactive, Goto, subscriptions
<1>4. job[w].loaded[x] \in RowType BY <1>2 DEF Dispatch
<1>5. new \in RowType /\ new.status = "failed" /\ new.attempts = job[w].loaded[x].attempts
  BY <1>4 DEF RowType
<1>6. new.attempts <= posts[x] BY <1>1, <1>2, <1>5 DEF LoadedOK
<1>7. x[1] \in raised /\ endpoint[x[2]] # "absent"
  BY <1>1, <1>2 DEF QueueOK, TableOK, RowOK, Fits
<1>8. endpoint[x[2]] = "inactive"
  <2>1. Subscriber(w)[1] = x[2] BY <1>1, SubscriberKnown
  <2>2. Subscriber(w)[2] \in EndpointStatus BY <1>1, SubscriberKnown
  <2>3. Subscriber(w)[2] = "inactive" BY <1>1, <1>3, <2>2, SubscriberKnown DEF Active, EndpointStatus
  <2> QED BY <1>1, <2>1, <2>3, SubscriberKnown
<1>9. Fits(new, x, accepted', posts', endpoint, raised)
  BY <1>3, <1>5, <1>6, <1>7, <1>8 DEF Fits
<1>10. /\ posts' \in [Deliveries -> 0..PostCap] /\ accepted' \subseteq Deliveries
       /\ \A y \in Deliveries : posts[y] <= posts'[y]
       /\ accepted \subseteq accepted'
  BY <1>1, <1>3 DEF TypeOK, PostCap
<1> HIDE DEF x, new
<1> QED BY <1>1, <1>3, <1>5, <1>9, <1>10, AttemptStep DEF x

LEMMA AttemptKeeps ==
  ASSUME OutboxInv, NEW w \in Workers, Attempt(w)
  PROVE  OutboxInv'
<1> DEFINE x == Item(w)
           old == job[w].loaded[x]
<1>1. TypeOK /\ TableOK /\ QueueOK /\ LoadedOK(w) /\ pc[w] = "attempt"
  BY DEF OutboxInv, JobsOK, Attempt
<1>2. /\ job[w] \in Dispatch /\ x \in Deliveries /\ Min(job[w].todo) \in job[w].todo
      /\ Min(job[w].todo) \in DOMAIN created /\ x = created[Min(job[w].todo)]
  BY <1>1, ItemType
<1>3. PICK answer \in {"2xx", "error"} :
        /\ job' = [job EXCEPT ![w].read = Subscriber(w),
                               ![w].new = Outcome(old.attempts + 1, answer)]
        /\ accepted' = IF answer = "2xx" THEN accepted \union {x} ELSE accepted
  BY DEF Attempt
<1>4. /\ pc' = [pc EXCEPT ![w] = "flush"]
      /\ posts' = [posts EXCEPT ![x] = Least(posts[x] + 1, PostCap)]
      /\ UNCHANGED <<created, table, endpoint, raised, draft, writer>>
  BY DEF Attempt, Goto, subscriptions
<1>5. old \in RowType /\ old.attempts < MaxAttempts /\ old.attempts <= posts[x]
  BY <1>1, <1>2 DEF Dispatch, LoadedOK
<1> DEFINE a == old.attempts + 1
           new == Outcome(a, answer)
<1>6. a \in 1..MaxAttempts /\ MaxAttempts \in Nat BY <1>5, OutboxAssumption DEF RowType
<1> HIDE DEF a
<1>7. /\ new \in RowType /\ new.attempts = a
      /\ answer = "2xx" => new.status = "delivered"
      /\ answer # "2xx" => new.status = IF a >= MaxAttempts THEN "failed" ELSE "pending"
  BY <1>6, OutcomeType
<1> HIDE DEF new
<1>8. posts \in [Deliveries -> 0..PostCap] /\ posts[x] \in 0..PostCap /\ PostCap = MaxAttempts + 1
  BY <1>1, <1>2 DEF TypeOK, PostCap
<1>9. /\ posts'[x] \in 0..PostCap /\ posts[x] <= posts'[x] /\ a <= posts'[x]
      /\ a >= MaxAttempts => posts'[x] >= MaxAttempts
  <2>1. posts'[x] = Least(posts[x] + 1, PostCap) BY <1>2, <1>4, <1>8
  <2> QED BY <1>5, <1>6, <1>8, <2>1 DEF a, Least, RowType
<1>10. /\ posts' \in [Deliveries -> 0..PostCap]
       /\ \A y \in Deliveries : posts[y] <= posts'[y]
  <2>1. \A y \in Deliveries : y # x => posts'[y] = posts[y] BY <1>4, <1>8
  <2>2. \A y \in Deliveries : posts[y] \in 0..PostCap BY <1>8
  <2>3. \A y \in Deliveries : posts'[y] \in 0..PostCap /\ posts[y] <= posts'[y]
    BY <1>9, <2>1, <2>2, <1>8, <1>6
  <2> QED BY <1>4, <1>8, <2>3
<1>11. /\ accepted' \subseteq Deliveries /\ accepted \subseteq accepted'
       /\ answer = "2xx" => x \in accepted'
  BY <1>1, <1>2, <1>3 DEF TypeOK
<1>12. x[1] \in raised /\ endpoint[x[2]] # "absent"
  BY <1>1, <1>2 DEF QueueOK, TableOK, RowOK, Fits
<1>13. new.status # "absent" /\ Fits(new, x, accepted', posts', endpoint, raised)
  BY <1>3, <1>6, <1>7, <1>9, <1>11, <1>12 DEF Fits
<1>14. job' = [job EXCEPT ![w].read = Subscriber(w), ![w].new = new] BY <1>3 DEF new, a
<1> HIDE DEF x, old
<1> QED BY <1>1, <1>4, <1>7, <1>10, <1>11, <1>13, <1>14, AttemptStep DEF x

(* The UPDATE keeps a row good, also when the row is no longer what the        *)
(* dispatch has loaded, and does not unsettle it.                            *)
LEMMA UpdateKeeps ==
  ASSUME NEW x, NEW row \in RowType, NEW loaded \in RowType, NEW new \in RowType,
         NEW old \in RowType,
         loaded.status = "pending", new.status # "absent", row.status # "absent",
         RowOK(row, x), RowOK(new, x), Follows(row, old)
  PROVE  /\ RowOK(Update(row, loaded, new), x)
         /\ Follows(Update(row, loaded, new), old)
<1> DEFINE u == Update(row, loaded, new)
<1>1. /\ u.status = IF new.status # "pending" THEN new.status ELSE row.status
      /\ u.attempts \in {new.attempts, row.attempts}
  BY DEF Update
<1> HIDE DEF u
<1>2. CASE new.status # "pending"
  <2>1. new.status \in {"delivered", "failed"} BY <1>2 DEF RowType
  <2> QED BY <1>1, <1>2, <2>1 DEF u, RowOK, Fits, Follows, Settled
<1>3. CASE new.status = "pending"
  <2>1. u.status = row.status BY <1>1, <1>3
  <2> QED BY <1>1, <1>3, <2>1 DEF u, RowOK, Fits, Follows, Settled
<1> QED BY <1>2, <1>3

LEMMA ImageOK ==
  ASSUME OutboxInv, NEW w \in Workers
  PROVE  /\ Image(w) \in [Deliveries -> RowType]
         /\ \A x \in Deliveries : RowOK(Image(w)[x], x) /\ Follows(Image(w)[x], table[x])
<1>1. CASE writer = w
  <2>1. Image(w) = draft /\ writer # NoWorker BY <1>1, OutboxAssumption DEF Image
  <2> QED BY <2>1 DEF OutboxInv, DraftOK, TypeOK
<1>2. CASE writer # w
  <2>1. Image(w) = table BY <1>2 DEF Image
  <2> QED BY <2>1 DEF OutboxInv, TableOK, TypeOK, Follows
<1> QED BY <1>1, <1>2

LEMMA FlushKeeps ==
  ASSUME OutboxInv, NEW w \in Workers, Flush(w)
  PROVE  OutboxInv'
<1> DEFINE x == Item(w)
           img == Image(w)
           loaded == job[w].loaded[x]
           new == job[w].new
           rest == job[w].todo \ {Min(job[w].todo)}
           j == [job[w] EXCEPT !.todo = rest]
<1>1. /\ TypeOK /\ TableOK /\ QueueOK /\ LoadedOK(w) /\ ReadOK(w) /\ NewOK(w) /\ pc[w] = "flush"
      /\ writer \in {NoWorker, w}
  BY DEF OutboxInv, JobsOK, Flush
<1>2. /\ job[w] \in Dispatch /\ x \in Deliveries /\ Min(job[w].todo) \in job[w].todo
      /\ Min(job[w].todo) \in DOMAIN created /\ x = created[Min(job[w].todo)]
  BY <1>1, ItemType
<1>3. /\ draft' = [img EXCEPT ![x] = Update(img[x], loaded, new)]
      /\ writer' = w
      /\ job' = [job EXCEPT ![w].todo = rest]
      /\ pc' = [pc EXCEPT ![w] = IF rest = {} THEN "commit" ELSE "attempt"]
      /\ UNCHANGED <<created, table, endpoint, raised, posts, accepted>>
  BY DEF Flush, Goto, subscriptions
<1>4. /\ img \in [Deliveries -> RowType]
      /\ \A y \in Deliveries : RowOK(img[y], y) /\ Follows(img[y], table[y])
  BY ImageOK
<1>5. /\ loaded \in RowType /\ new \in RowType /\ table[x] \in RowType
      /\ loaded.status = "pending" /\ new.status # "absent" /\ RowOK(new, x)
  BY <1>1, <1>2 DEF Dispatch, TypeOK, LoadedOK, NewOK
<1>6. img[x] \in RowType /\ img[x].status # "absent"
  BY <1>1, <1>2, <1>4 DEF QueueOK, Follows
<1>7. /\ Update(img[x], loaded, new) \in RowType
      /\ RowOK(Update(img[x], loaded, new), x)
      /\ Follows(Update(img[x], loaded, new), table[x])
  BY <1>2, <1>4, <1>5, <1>6, UpdateType, UpdateKeeps
<1>8. j \in Dispatch /\ j.todo = rest /\ j.loaded = job[w].loaded /\ j.read = job[w].read
  BY <1>2 DEF Dispatch
<1>9. j # NoJob
  <2>1. "new" \in DOMAIN j BY <1>8 DEF Dispatch
  <2>2. "new" \notin DOMAIN NoJob BY DEF NoJob
  <2> QED BY <2>1, <2>2
<1>10. /\ pc'[w] = (IF rest = {} THEN "commit" ELSE "attempt") /\ job'[w] = j
       /\ \A v \in Workers : v # w => pc'[v] = pc[v] /\ job'[v] = job[v]
  BY <1>1, <1>3 DEF TypeOK
<1>11. rest \subseteq job[w].todo OBVIOUS
<1> HIDE DEF img, loaded, new, x, rest, j
<1>12. /\ draft' \in [Deliveries -> RowType]
       /\ \A y \in Deliveries : RowOK(draft'[y], y) /\ Follows(draft'[y], table[y])
  <2>1. draft' \in [Deliveries -> RowType] BY <1>3, <1>4, <1>7
  <2>2. ASSUME NEW y \in Deliveries PROVE RowOK(draft'[y], y) /\ Follows(draft'[y], table[y])
    <3>1. CASE y = x BY <1>2, <1>3, <1>4, <1>7, <3>1
    <3>2. CASE y # x BY <1>3, <1>4, <3>2
    <3> QED BY <3>1, <3>2
  <2> QED BY <2>1, <2>2
<1>13. TypeOK'
  <2>1. /\ pc' \in [Workers -> {"idle", "attempt", "flush", "commit"}]
        /\ job' \in [Workers -> {NoJob} \union Dispatch]
    BY <1>1, <1>3, <1>8, <1>10 DEF TypeOK, j
  <2>2. ASSUME NEW v \in Workers
        PROVE  /\ pc'[v] = "idle" <=> job'[v] = NoJob
               /\ pc'[v] \in {"attempt", "flush"} => job'[v].todo # {}
               /\ job'[v].todo \subseteq DOMAIN created
               /\ pc'[v] = "commit" => writer' = v
    <3>1. CASE v = w BY <1>1, <1>3, <1>8, <1>9, <1>10, <1>11, <3>1 DEF TypeOK
    <3>2. CASE v # w
      <4>1. pc[v] # "commit" BY <1>1, <3>2, OutboxAssumption DEF TypeOK
      <4> QED BY <1>1, <1>10, <3>2, <4>1 DEF TypeOK
    <3> QED BY <3>1, <3>2
  <2> QED BY <1>1, <1>3, <1>12, <2>1, <2>2 DEF TypeOK
<1>14. Grows BY <1>1, <1>3 DEF Grows, TypeOK
<1>15. LoadedOK(w)' /\ ReadOK(w)' /\ NewOK(w)'
  <2>1. LoadedOK(w)' BY <1>1, <1>3, <1>8, <1>10, <1>11 DEF LoadedOK
  <2>2. ReadOK(w)' BY <1>1, <1>3, <1>8, <1>10 DEF ReadOK
  <2>3. NewOK(w)' BY <1>10 DEF NewOK
  <2> QED BY <2>1, <2>2, <2>3
<1>16. JobsOK' BY <1>10, <1>13, <1>14, <1>15, OthersStay
<1>17. TableOK' /\ QueueOK' BY <1>1, <1>3 DEF TableOK, QueueOK, RowOK
<1>18. DraftOK' BY <1>3, <1>12 DEF DraftOK, RowOK
<1> QED BY <1>13, <1>16, <1>17, <1>18 DEF OutboxInv

(* The end of a dispatch, with its draft committed or lost. *)
LEMMA LeaveKeeps ==
  ASSUME OutboxInv, NEW w \in Workers, Leave(w),
         table' = table \/ (writer = w /\ table' = draft),
         UNCHANGED <<created, endpoint, raised, posts, accepted>>
  PROVE  OutboxInv'
<1>1. TypeOK /\ TableOK /\ QueueOK /\ DraftOK BY DEF OutboxInv
<1>2. /\ pc' = [pc EXCEPT ![w] = "idle"] /\ job' = [job EXCEPT ![w] = NoJob]
      /\ writer' = IF writer = w THEN NoWorker ELSE writer
      /\ draft' = IF writer = w THEN NoDraft ELSE draft
  BY DEF Leave, Goto
<1>3. /\ pc'[w] = "idle" /\ job'[w] = NoJob
      /\ \A v \in Workers : v # w => pc'[v] = pc[v] /\ job'[v] = job[v]
  BY <1>1, <1>2 DEF TypeOK
<1>4. NoDraft \in [Deliveries -> RowType] BY AbsentType DEF NoDraft
<1>5. TypeOK'
  <2>1. /\ pc' \in [Workers -> {"idle", "attempt", "flush", "commit"}]
        /\ job' \in [Workers -> {NoJob} \union Dispatch]
    BY <1>1, <1>2 DEF TypeOK
  <2>2. ASSUME NEW v \in Workers
        PROVE  /\ pc'[v] = "idle" <=> job'[v] = NoJob
               /\ pc'[v] \in {"attempt", "flush"} => job'[v].todo # {}
               /\ job'[v].todo \subseteq DOMAIN created
               /\ pc'[v] = "commit" => writer' = v
    BY <1>1, <1>2, <1>3 DEF TypeOK, NoJob
  <2>3. draft' \in [Deliveries -> RowType] /\ table' \in [Deliveries -> RowType]
        /\ writer' \in Workers \union {NoWorker}
    BY <1>1, <1>2, <1>4 DEF TypeOK
  <2> QED BY <1>1, <2>1, <2>2, <2>3 DEF TypeOK
<1>6. Grows BY <1>1 DEF Grows, TypeOK
<1>7. JobsOK' BY <1>3, <1>5, <1>6, OthersStay
<1>8. CASE table' = table /\ writer # w
  BY <1>1, <1>2, <1>5, <1>7, <1>8 DEF OutboxInv, TableOK, QueueOK, DraftOK, RowOK
<1>9. CASE writer = w
  <2>1. writer' = NoWorker BY <1>2, <1>9
  <2>2. \A y \in Deliveries : RowOK(table'[y], y) /\ Follows(table'[y], table[y])
    <3>1. CASE table' = table BY <1>1, <3>1 DEF TableOK, Follows
    <3>2. CASE table' = draft BY <1>1, <1>9, <3>2, OutboxAssumption DEF DraftOK
    <3> QED BY <3>1, <3>2, <1>9
  <2>3. TableOK' BY <2>2 DEF TableOK, RowOK
  <2>4. QueueOK'
    <3>1. \A i \in DOMAIN created : created[i] \in Deliveries BY <1>1 DEF TypeOK
    <3> QED BY <1>1, <2>2, <3>1 DEF QueueOK, Follows
  <2> QED BY <1>5, <1>7, <2>1, <2>3, <2>4 DEF OutboxInv, DraftOK
<1> QED BY <1>8, <1>9

LEMMA CommitKeeps ==
  ASSUME OutboxInv, NEW w \in Workers, Commit(w)
  PROVE  OutboxInv'
<1>1. writer = w BY DEF OutboxInv, TypeOK, Commit
<1> QED BY <1>1, LeaveKeeps DEF Commit, subscriptions

LEMMA BusyTimeoutKeeps ==
  ASSUME OutboxInv, NEW w \in Workers, BusyTimeout(w)
  PROVE  OutboxInv'
BY LeaveKeeps DEF BusyTimeout, subscriptions

-----------------------------------------------------------------------------
(* The steps of the rest of the system. *)

(* A step of no dispatch leaves every dispatch where it is. *)
LEMMA AllJobsStay ==
  ASSUME OutboxInv, TypeOK', Grows, UNCHANGED <<pc, job>>
  PROVE  JobsOK'
<1> SUFFICES ASSUME NEW v \in Workers, pc'[v] # "idle"
             PROVE  LoadedOK(v)' /\ ReadOK(v)' /\ NewOK(v)'
  BY DEF JobsOK
<1> QED BY JobStays

LEMMA EndpointKeeps ==
  ASSUME OutboxInv, NEW p \in Endpoints, CreateEndpoint(p) \/ Deactivate(p)
  PROVE  OutboxInv'
<1>1. TypeOK BY DEF OutboxInv
<1>2. /\ endpoint' \in [Endpoints -> EndpointStatus]
      /\ \A q \in Endpoints : /\ endpoint[q] # "absent" => endpoint'[q] # "absent"
                              /\ endpoint[q] = "inactive" => endpoint'[q] = "inactive"
  BY <1>1 DEF TypeOK, CreateEndpoint, Deactivate, EndpointStatus
<1>3. UNCHANGED <<created, table, raised, draft, writer, pc, job, posts, accepted>>
  BY DEF CreateEndpoint, Deactivate
<1>4. TypeOK' BY <1>1, <1>2, <1>3 DEF TypeOK
<1>5. Grows BY <1>1, <1>2, <1>3 DEF Grows, TypeOK
<1> QED BY <1>3, <1>4, <1>5, AllJobsStay, TablesStay DEF OutboxInv

(* The deliveries of an event are appended, each once. *)
LEMMA Appended ==
  ASSUME TypeOK, NEW new \in SUBSET Deliveries, IsFiniteSet(new),
         NEW order \in SetToSeqs(new), created' = created \o order
  PROVE  /\ created' \in Seq(Deliveries) /\ order \in Seq(new)
         /\ Len(created') = Len(created) + Len(order)
         /\ \A i \in 1..Len(created) : created'[i] = created[i]
         /\ \A i \in 1..Len(order) : created'[Len(created) + i] = order[i]
         /\ \A i, k \in 1..Len(order) : i # k => order[i] # order[k]
<1>1. Cardinality(new) \in Nat BY FS_CardinalityType
<1>2. /\ order \in [1..Cardinality(new) -> new]
      /\ \A i, k \in 1..Cardinality(new) : i # k => order[i] # order[k]
  BY DEF SetToSeqs
<1>3. order \in Seq(new) /\ Len(order) = Cardinality(new) BY <1>1, <1>2
<1>4. order \in Seq(Deliveries) /\ created \in Seq(Deliveries) BY <1>3 DEF TypeOK
<1>5. /\ created' \in Seq(Deliveries) /\ Len(created') = Len(created) + Len(order)
      /\ \A i \in 1..Len(created) : created'[i] = created[i]
  BY <1>4
<1>6. \A i \in 1..Len(order) : created'[Len(created) + i] = order[i]
  <2> SUFFICES ASSUME NEW i \in 1..Len(order) PROVE created'[Len(created) + i] = order[i]
    OBVIOUS
  <2>1. Len(created) \in Nat /\ Len(order) \in Nat BY <1>4
  <2>2. /\ Len(created) + i \in 1..(Len(created) + Len(order))
        /\ ~ (Len(created) + i <= Len(created)) /\ Len(created) + i - Len(created) = i
    BY <2>1
  <2> QED BY <1>4, <2>1, <2>2
<1> QED BY <1>2, <1>3, <1>5, <1>6

LEMMA EnqueueKeeps ==
  ASSUME OutboxInv, NEW e \in Events, Enqueue(e)
  PROVE  OutboxInv'
<1> DEFINE new == {<<e, p>> : p \in {q \in Endpoints : endpoint[q] = "active"}}
<1>1. TypeOK /\ TableOK /\ QueueOK BY DEF OutboxInv
<1>2. /\ e \notin raised /\ writer = NoWorker
      /\ raised' = raised \union {e}
      /\ table' = [x \in Deliveries |-> IF x \in new THEN Queued ELSE table[x]]
      /\ UNCHANGED <<endpoint, draft, writer, pc, job, posts, accepted>>
  BY DEF Enqueue
<1>3. PICK order \in SetToSeqs(new) : created' = created \o order BY DEF Enqueue
<1>4. /\ new \in SUBSET Deliveries
      /\ \A x \in new : x[1] = e /\ endpoint[x[2]] = "active"
  BY DEF Deliveries
<1>5. IsFiniteSet(new)
  <2>1. IsFiniteSet({e} \X Endpoints) BY FS_Product, FS_Singleton, OutboxAssumption
  <2>2. new \subseteq {e} \X Endpoints OBVIOUS
  <2> QED BY <2>1, <2>2, FS_Subset
<1> HIDE DEF new
<1>6. /\ created' \in Seq(Deliveries) /\ order \in Seq(new)
      /\ Len(created') = Len(created) + Len(order)
      /\ \A i \in 1..Len(created) : created'[i] = created[i]
      /\ \A i \in 1..Len(order) : created'[Len(created) + i] = order[i]
  BY <1>1, <1>3, <1>4, <1>5, Appended
<1>7. DOMAIN created = 1..Len(created) /\ DOMAIN created' = 1..Len(created')
      /\ Len(created) \in Nat /\ Len(order) \in Nat /\ created \in Seq(Deliveries)
  BY <1>1, <1>6 DEF TypeOK
<1>8. \A i \in DOMAIN created : i \in DOMAIN created' /\ created'[i] = created[i]
  BY <1>6, <1>7
<1>9. \A x \in Deliveries : table'[x] = IF x \in new THEN Queued ELSE table[x] BY <1>2
<1>10. table' \in [Deliveries -> RowType] BY <1>1, <1>2, AbsentType DEF TypeOK
<1>11. TypeOK'
  <2>1. raised' \subseteq Events BY <1>1, <1>2 DEF TypeOK
  <2>2. \A w \in Workers : job'[w].todo \subseteq DOMAIN created' BY <1>1, <1>2, <1>8 DEF TypeOK
  <2> QED BY <1>1, <1>2, <1>6, <1>10, <2>1, <2>2 DEF TypeOK
<1>12. Grows BY <1>1, <1>2, <1>8 DEF Grows, TypeOK
<1>13. TableOK'
  <2> SUFFICES ASSUME NEW x \in Deliveries
               PROVE  Fits(table'[x], x, accepted', posts', endpoint', raised')
    BY DEF TableOK, RowOK
  <2>1. CASE x \in new
    <3>1. table'[x] = Queued /\ posts'[x] \in Nat /\ MaxAttempts > 0 /\ MaxAttempts \in Nat
      BY <1>9, <1>11, <2>1, OutboxAssumption DEF TypeOK
    <3> QED BY <1>2, <1>4, <2>1, <3>1 DEF Fits, Queued
  <2>2. CASE x \notin new
    <3>1. table'[x] = table[x] /\ table[x] \in RowType /\ RowOK(table[x], x)
      BY <1>1, <1>9, <2>2 DEF TypeOK, TableOK
    <3> QED BY <1>1, <1>11, <1>12, <3>1, RowStays
  <2> QED BY <2>1, <2>2
<1>14. QueueOK'
  <2> SUFFICES ASSUME NEW i \in DOMAIN created' PROVE table'[created'[i]].status # "absent"
    BY DEF QueueOK
  <2>1. CASE i \in DOMAIN created
    <3>1. created'[i] = created[i] /\ created[i] \in Deliveries BY <1>7, <1>8, <2>1
    <3> QED BY <1>1, <1>9, <2>1, <3>1 DEF QueueOK, Queued
  <2>2. CASE i \notin DOMAIN created
    <3> DEFINE k == i - Len(created)
    <3>1. k \in 1..Len(order) /\ i = Len(created) + k BY <1>6, <1>7, <2>2
    <3>2. created'[i] = order[k] /\ order[k] \in new BY <1>6, <3>1
    <3> QED BY <1>4, <1>9, <3>2 DEF Queued
  <2> QED BY <2>1, <2>2
<1>15. DraftOK' BY <1>2 DEF DraftOK
<1>16. JobsOK' BY <1>2, <1>11, <1>12, AllJobsStay
<1> QED BY <1>11, <1>13, <1>14, <1>15, <1>16 DEF OutboxInv

LEMMA TickKeeps ==
  ASSUME OutboxInv, Tick
  PROVE  OutboxInv'
<1>1. TypeOK /\ TableOK /\ DraftOK /\ QueueOK BY DEF OutboxInv
<1>2. /\ table' = [x \in Deliveries |-> Aged(table[x])]
      /\ draft' = [x \in Deliveries |-> Aged(draft[x])]
      /\ UNCHANGED <<created, endpoint, raised, writer, pc, job, posts, accepted>>
  BY DEF Tick, subscriptions
<1>3. ASSUME NEW x \in Deliveries
      PROVE  /\ table'[x] \in RowType /\ table'[x].status = table[x].status
             /\ table'[x].attempts = table[x].attempts
             /\ draft'[x] \in RowType /\ draft'[x].status = draft[x].status
             /\ draft'[x].attempts = draft[x].attempts
  BY <1>1, <1>2, AgedType DEF TypeOK
<1>4. table' \in [Deliveries -> RowType] /\ draft' \in [Deliveries -> RowType] BY <1>2, <1>3
<1>5. TypeOK' BY <1>1, <1>2, <1>4 DEF TypeOK
<1>6. Grows BY <1>1, <1>2 DEF Grows, TypeOK
<1>7. TableOK' BY <1>1, <1>2, <1>3 DEF TableOK, RowOK, Fits
<1>8. DraftOK' BY <1>1, <1>2, <1>3 DEF DraftOK, RowOK, Fits, Follows, Settled
<1>9. QueueOK'
  <2>1. \A i \in DOMAIN created : created[i] \in Deliveries BY <1>1 DEF TypeOK
  <2> QED BY <1>1, <1>2, <1>3, <2>1 DEF QueueOK
<1> QED BY <1>2, <1>5, <1>6, <1>7, <1>8, <1>9, AllJobsStay DEF OutboxInv

LEMMA CrashKeeps ==
  ASSUME OutboxInv, Crash
  PROVE  OutboxInv'
<1>1. TypeOK BY DEF OutboxInv
<1>2. /\ pc' = [w \in Workers |-> "idle"] /\ job' = [w \in Workers |-> NoJob]
      /\ writer' = NoWorker /\ draft' = NoDraft
      /\ UNCHANGED <<created, table, endpoint, raised, posts, accepted>>
  BY DEF Crash, subscriptions
<1>3. NoDraft \in [Deliveries -> RowType] BY AbsentType DEF NoDraft
<1>4. TypeOK' BY <1>1, <1>2, <1>3 DEF TypeOK, NoJob
<1>5. JobsOK' BY <1>2 DEF JobsOK
<1> QED BY <1>2, <1>4, <1>5 DEF OutboxInv, TableOK, DraftOK, QueueOK, RowOK

-----------------------------------------------------------------------------
(* The invariant. *)

LEMMA InitOutboxInv == Init => OutboxInv
<1> SUFFICES ASSUME Init PROVE OutboxInv OBVIOUS
<1>1. NoDraft \in [Deliveries -> RowType] BY AbsentType DEF NoDraft
<1>2. TypeOK
  <2>1. table \in [Deliveries -> RowType] BY AbsentType DEF Init
  <2>2. posts \in [Deliveries -> 0..PostCap] BY OutboxAssumption DEF Init, PostCap
  <2>3. created \in Seq(Deliveries) BY DEF Init
  <2> QED BY <1>1, <2>1, <2>2, <2>3 DEF Init, TypeOK, NoJob, EndpointStatus
<1>3. TableOK BY DEF Init, TableOK, RowOK, Fits, Absent
<1> QED BY <1>2, <1>3 DEF Init, OutboxInv, DraftOK, QueueOK, JobsOK

LEMMA StutterKeeps ==
  ASSUME OutboxInv, UNCHANGED vars
  PROVE  OutboxInv'
BY DEF OutboxInv, vars, TypeOK, TableOK, DraftOK, QueueOK, JobsOK, RowOK, LoadedOK, ReadOK, NewOK,
       Item

LEMMA OutboxInvKept == OutboxInv /\ [Next]_vars => OutboxInv'
<1> SUFFICES ASSUME OutboxInv, [Next]_vars PROVE OutboxInv' OBVIOUS
<1>1. ASSUME NEW w \in Workers, StartDispatch(w) PROVE OutboxInv' BY <1>1, StartKeeps
<1>2. ASSUME NEW w \in Workers, SkipInactive(w) PROVE OutboxInv' BY <1>2, SkipKeeps
<1>3. ASSUME NEW w \in Workers, Attempt(w) PROVE OutboxInv' BY <1>3, AttemptKeeps
<1>4. ASSUME NEW w \in Workers, Flush(w) PROVE OutboxInv' BY <1>4, FlushKeeps
<1>5. ASSUME NEW w \in Workers, Commit(w) PROVE OutboxInv' BY <1>5, CommitKeeps
<1>6. ASSUME NEW w \in Workers, BusyTimeout(w) PROVE OutboxInv' BY <1>6, BusyTimeoutKeeps
<1>7. ASSUME NEW e \in Events, Enqueue(e) PROVE OutboxInv' BY <1>7, EnqueueKeeps
<1>8. ASSUME NEW p \in Endpoints, CreateEndpoint(p) \/ Deactivate(p) PROVE OutboxInv'
  BY <1>8, EndpointKeeps
<1>9. CASE Tick BY <1>9, TickKeeps
<1>10. CASE Crash BY <1>10, CrashKeeps
<1>11. CASE UNCHANGED vars BY <1>11, StutterKeeps
<1> QED BY <1>1, <1>2, <1>3, <1>4, <1>5, <1>6, <1>7, <1>8, <1>9, <1>10, <1>11 DEF Next, Serve

LEMMA OutboxInvHolds == Spec => []OutboxInv
BY InitOutboxInv, OutboxInvKept, PTL DEF Spec

(* Tables, drafts and dispatches stay well typed, however dispatches overlap, *)
(* and the countdown to a retry never exceeds the cap of the backoff.        *)
THEOREM TypeCorrect == Spec => []TypeOK
BY OutboxInvHolds, PTL DEF OutboxInv

(* A delivery counts as delivered only if its subscriber has accepted it,      *)
(* however dispatches overlap, fail or die.                                  *)
THEOREM DeliveredAccepted == Spec => []DeliveredWasAccepted
<1>1. OutboxInv => DeliveredWasAccepted
  BY DEF OutboxInv, TableOK, RowOK, Fits, DeliveredWasAccepted
<1> QED BY <1>1, OutboxInvHolds, PTL

(* A delivery fails only after all of its attempts, or at an endpoint that     *)
(* was deactivated.                                                          *)
THEOREM FailedExhausted == Spec => []FailedWasExhausted
<1>1. OutboxInv => FailedWasExhausted
  BY DEF OutboxInv, TableOK, RowOK, Fits, FailedWasExhausted
<1> QED BY <1>1, OutboxInvHolds, PTL

(* No attempt is recorded that was not made. *)
THEOREM AttemptsMade == Spec => []AttemptsCovered
<1>1. OutboxInv => AttemptsCovered
  BY DEF OutboxInv, TableOK, RowOK, Fits, AttemptsCovered
<1> QED BY <1>1, OutboxInvHolds, PTL

(* What a step makes of the table: nothing, the draft of the writer that       *)
(* commits, a minute, or new deliveries.                                     *)
LEMMA TableSteps ==
  ASSUME OutboxInv, [Next]_vars
  PROVE  \/ UNCHANGED table
         \/ \E w \in Workers : Commit(w) /\ writer = w /\ table' = draft
         \/ \A x \in Deliveries : /\ table'[x].status = table[x].status
                                  /\ table'[x].attempts = table[x].attempts
         \/ \A x \in Deliveries : table'[x] = table[x] \/ (table[x].status = "absent" /\ table'[x] = Queued)
<1>1. TypeOK /\ TableOK BY DEF OutboxInv
<1>2. ASSUME NEW w \in Workers, StartDispatch(w) PROVE UNCHANGED table BY <1>2 DEF StartDispatch
<1>3. ASSUME NEW w \in Workers, SkipInactive(w) \/ Attempt(w) \/ Flush(w) \/ BusyTimeout(w)
      PROVE  UNCHANGED table
  BY <1>3 DEF SkipInactive, Attempt, Flush, BusyTimeout
<1>4. ASSUME NEW w \in Workers, Commit(w) PROVE writer = w /\ table' = draft
  BY <1>1, <1>4 DEF Commit, TypeOK
<1>5. ASSUME NEW p \in Endpoints, CreateEndpoint(p) \/ Deactivate(p) PROVE UNCHANGED table
  BY <1>5 DEF CreateEndpoint, Deactivate
<1>6. ASSUME NEW e \in Events, Enqueue(e)
      PROVE  \A x \in Deliveries : table'[x] = table[x] \/ (table[x].status = "absent" /\ table'[x] = Queued)
  <2> TAKE x \in Deliveries
  <2> DEFINE new == {<<e, p>> : p \in {q \in Endpoints : endpoint[q] = "active"}}
  <2>1. table'[x] = IF x \in new THEN Queued ELSE table[x] BY <1>6 DEF Enqueue
  <2>2. x \in new => x[1] \notin raised BY <1>6 DEF Enqueue
  <2> HIDE DEF new
  <2> QED BY <1>1, <2>1, <2>2 DEF TableOK, RowOK, Fits
<1>7. CASE Tick BY <1>1, <1>7, AgedType DEF Tick, TypeOK
<1>8. CASE Crash BY <1>8 DEF Crash
<1>9. CASE UNCHANGED vars BY <1>9 DEF vars
<1> QED BY <1>2, <1>3, <1>4, <1>5, <1>6, <1>7, <1>8, <1>9 DEF Next, Serve

(* What was delivered or given up never becomes pending again. *)
THEOREM SettledFinal == Spec => SettledStays
<1>1. OutboxInv /\ [Next]_vars =>
        [\A x \in Deliveries :
           table[x].status \in {"delivered", "failed"} => table'[x].status \in {"delivered", "failed"}]_vars
  <2> SUFFICES ASSUME OutboxInv, [Next]_vars, NEW x \in Deliveries,
                      table[x].status \in {"delivered", "failed"}
               PROVE  table'[x].status \in {"delivered", "failed"}
    OBVIOUS
  <2>1. CASE \E w \in Workers : Commit(w) /\ writer = w /\ table' = draft
    <3>1. writer # NoWorker BY <2>1, OutboxAssumption
    <3> QED BY <2>1, <3>1 DEF OutboxInv, DraftOK, Follows, Settled
  <2> QED BY <2>1, TableSteps DEF Queued
<1> QED BY <1>1, OutboxInvHolds, PTL DEF Spec, SettledStays

-----------------------------------------------------------------------------
(* Dispatches that do not overlap: one worker. *)

(* A delivery is queued once; while a dispatch runs, the deliveries it still   *)
(* has at hand are pending in the image it works on, and the image has lost    *)
(* no delivered event of the table.                                          *)
Alone(w) ==
  /\ \A i, k \in DOMAIN created : created[i] = created[k] => i = k
  /\ pc[w] = "idle" => writer # w
  /\ pc[w] # "idle" => \A i \in job[w].todo : Image(w)[created[i]].status = "pending"
  /\ \A x \in Deliveries : table[x].status = "delivered" => Image(w)[x].status = "delivered"

(* The attempts recorded are those made, but for the one whose answer the      *)
(* dispatch is about to write.                                               *)
Counted(w) ==
  /\ \A x \in Deliveries : Image(w)[x].status = "absent" => Image(w)[x].attempts = 0
  /\ pc[w] # "idle" =>
       \A i \in job[w].todo : job[w].loaded[created[i]].attempts = Image(w)[created[i]].attempts
  /\ \A x \in Deliveries :
       posts[x] = IF pc[w] = "flush" /\ x = Item(w) THEN job[w].new.attempts ELSE Image(w)[x].attempts

LEMMA StartAlone ==
  ASSUME NEW w, Workers = {w}, OutboxInv, Alone(w), StartDispatch(w)
  PROVE  Alone(w)' /\ (Counted(w) => Counted(w)')
<1>1. TypeOK /\ w \in Workers BY DEF OutboxInv
<1>2. /\ job'[w] = [todo |-> Due, loaded |-> table, read |-> <<>>, new |-> Absent]
      /\ pc'[w] = "attempt" /\ pc[w] = "idle"
      /\ UNCHANGED <<created, table, draft, writer, posts>>
  BY <1>1 DEF StartDispatch, Goto, TypeOK
<1>3. job'[w].todo = Due /\ job'[w].loaded = table BY <1>2
<1>4. Image(w) = table /\ Image(w)' = table BY <1>2 DEF Alone, Image
<1>5. \A i \in Due : table[created[i]].status = "pending" BY DEF Due, IsDue
<1>6. Alone(w)' BY <1>2, <1>3, <1>4, <1>5 DEF Alone
<1>7. ASSUME Counted(w) PROVE Counted(w)' BY <1>2, <1>3, <1>4, <1>7 DEF Counted
<1> QED BY <1>6, <1>7

LEMMA SkipAlone ==
  ASSUME NEW w, Workers = {w}, OutboxInv, Alone(w), SkipInactive(w)
  PROVE  Alone(w)' /\ (Counted(w) => Counted(w)')
<1> DEFINE new == [job[w].loaded[Item(w)] EXCEPT !.status = "failed"]
<1>1. TypeOK /\ w \in Workers /\ pc[w] = "attempt" BY DEF OutboxInv, SkipInactive
<1>2. /\ job[w] \in Dispatch /\ Item(w) \in Deliveries /\ Min(job[w].todo) \in job[w].todo
      /\ Item(w) = created[Min(job[w].todo)]
  BY <1>1, ItemType
<1>3. /\ job' = [job EXCEPT ![w].read = Subscriber(w), ![w].new = new]
      /\ pc'[w] = "flush"
      /\ UNCHANGED <<created, table, draft, writer, posts>>
  BY <1>1 DEF SkipInactive, Goto, TypeOK
<1>4. new.attempts = job[w].loaded[Item(w)].attempts BY <1>2 DEF Dispatch, RowType
<1> HIDE DEF new
<1>5. /\ job'[w].todo = job[w].todo /\ job'[w].loaded = job[w].loaded /\ job'[w].new = new
  BY <1>1, <1>2, <1>3 DEF TypeOK, Dispatch
<1>6. Image(w)' = Image(w) /\ Item(w)' = Item(w) BY <1>3, <1>5 DEF Image, Item
<1>7. Alone(w)' BY <1>1, <1>3, <1>5, <1>6 DEF Alone
<1>8. ASSUME Counted(w) PROVE Counted(w)'
  <2>1. \A y \in Deliveries : Image(w)'[y].status = "absent" => Image(w)'[y].attempts = 0
    BY <1>6, <1>8 DEF Counted
  <2>2. \A i \in job[w].todo :
          job[w].loaded[created[i]].attempts = Image(w)[created[i]].attempts
    BY <1>1, <1>8 DEF Counted
  <2>3. \A i \in job'[w].todo :
          job'[w].loaded[created'[i]].attempts = Image(w)'[created'[i]].attempts
    BY <1>3, <1>5, <1>6, <2>2
  <2>4. new.attempts = Image(w)[Item(w)].attempts BY <1>2, <1>4, <2>2
  <2>5. \A y \in Deliveries : posts[y] = Image(w)[y].attempts
    BY <1>1, <1>8 DEF Counted
  <2>6. \A y \in Deliveries :
          posts'[y] = IF y = Item(w)' THEN job'[w].new.attempts ELSE Image(w)'[y].attempts
    BY <1>3, <1>5, <1>6, <2>4, <2>5
  <2> QED BY <1>3, <2>1, <2>3, <2>6 DEF Counted
<1> QED BY <1>7, <1>8

LEMMA AttemptAlone ==
  ASSUME NEW w, Workers = {w}, OutboxInv, Alone(w), Attempt(w)
  PROVE  Alone(w)' /\ (Counted(w) => Counted(w)')
<1> DEFINE x == Item(w)
           old == job[w].loaded[x]
<1>1. TypeOK /\ w \in Workers /\ pc[w] = "attempt" /\ LoadedOK(w)
  BY DEF OutboxInv, JobsOK, Attempt
<1>2. /\ job[w] \in Dispatch /\ x \in Deliveries /\ Min(job[w].todo) \in job[w].todo
      /\ x = created[Min(job[w].todo)]
  BY <1>1, ItemType
<1>3. PICK answer \in {"2xx", "error"} :
        job' = [job EXCEPT ![w].read = Subscriber(w), ![w].new = Outcome(old.attempts + 1, answer)]
  BY DEF Attempt
<1>4. /\ pc'[w] = "flush"
      /\ posts' = [posts EXCEPT ![x] = Least(posts[x] + 1, PostCap)]
      /\ UNCHANGED <<created, table, draft, writer>>
  BY <1>1 DEF Attempt, Goto, TypeOK
<1>5. old \in RowType /\ old.attempts < MaxAttempts BY <1>1, <1>2 DEF Dispatch, LoadedOK
<1>6. old.attempts \in Nat /\ old.attempts + 1 \in 1..MaxAttempts /\ MaxAttempts \in Nat
  BY <1>5, OutboxAssumption DEF RowType
<1> DEFINE new == Outcome(old.attempts + 1, answer)
<1>7. new.attempts = old.attempts + 1 BY <1>6, OutcomeType
<1> HIDE DEF new
<1>8. /\ job'[w].todo = job[w].todo /\ job'[w].loaded = job[w].loaded /\ job'[w].new = new
  BY <1>1, <1>2, <1>3 DEF TypeOK, Dispatch, new
<1>9. Image(w)' = Image(w) /\ Item(w)' = x BY <1>4, <1>8 DEF Image, Item
<1>10. Alone(w)' BY <1>1, <1>4, <1>8, <1>9 DEF Alone
<1>11. ASSUME Counted(w) PROVE Counted(w)'
  <2>1. old.attempts = Image(w)[x].attempts /\ posts[x] = Image(w)[x].attempts
    BY <1>1, <1>2, <1>11 DEF Counted
  <2>2. posts'[x] = Least(posts[x] + 1, PostCap) BY <1>1, <1>2, <1>4 DEF TypeOK
  <2>3. posts'[x] = new.attempts BY <1>6, <1>7, <2>1, <2>2 DEF Least, PostCap
  <2>4. \A y \in Deliveries : y # x => posts'[y] = posts[y] BY <1>1, <1>4 DEF TypeOK
  <2>5. \A y \in Deliveries : y # x => posts'[y] = Image(w)[y].attempts
    BY <1>1, <1>11, <2>4 DEF Counted
  <2> HIDE DEF x, old
  <2> QED BY <1>1, <1>4, <1>8, <1>9, <1>11, <2>3, <2>5 DEF Counted
<1> QED BY <1>10, <1>11

LEMMA FlushAlone ==
  ASSUME NEW w, Workers = {w}, OutboxInv, Alone(w), Flush(w)
  PROVE  Alone(w)' /\ (Counted(w) => Counted(w)')
<1> DEFINE x == Item(w)
           img == Image(w)
           loaded == job[w].loaded[x]
           new == job[w].new
           least == Min(job[w].todo)
           rest == job[w].todo \ {least}
           u == Update(img[x], loaded, new)
<1>1. TypeOK /\ w \in Workers /\ pc[w] = "flush" /\ LoadedOK(w) /\ NewOK(w)
  BY DEF OutboxInv, JobsOK, Flush
<1>2. /\ job[w] \in Dispatch /\ x \in Deliveries /\ least \in job[w].todo
      /\ least \in DOMAIN created /\ x = created[least] /\ job[w].todo \subseteq DOMAIN created
  BY <1>1, ItemType DEF TypeOK
<1>3. /\ draft' = [img EXCEPT ![x] = u]
      /\ writer' = w /\ pc'[w] \in {"commit", "attempt"}
      /\ job'[w].todo = rest /\ job'[w].loaded = job[w].loaded
      /\ UNCHANGED <<created, table, posts>>
  <2>1. /\ job' = [job EXCEPT ![w].todo = rest]
        /\ pc' = [pc EXCEPT ![w] = IF rest = {} THEN "commit" ELSE "attempt"]
    BY DEF Flush, Goto
  <2>2. pc'[w] \in {"commit", "attempt"} BY <1>1, <2>1 DEF TypeOK
  <2>3. job'[w].todo = rest /\ job'[w].loaded = job[w].loaded
    BY <1>1, <1>2, <2>1 DEF TypeOK, Dispatch
  <2> QED BY <2>2, <2>3 DEF Flush
<1>4. img \in [Deliveries -> RowType] BY <1>1, ImageOK
<1>5. /\ img[x].status = "pending" /\ new.status # "absent"
      /\ u.status # "absent"
      /\ u.attempts = IF new.attempts # loaded.attempts THEN new.attempts ELSE img[x].attempts
  BY <1>1, <1>2 DEF Alone, NewOK, Update
<1>6. \A i \in rest : created[i] # x /\ created[i] \in Deliveries
  BY <1>1, <1>2 DEF Alone, TypeOK
<1> HIDE DEF u, x, loaded, new, least
<1>7. /\ Image(w)' = draft' /\ draft'[x] = u
      /\ \A y \in Deliveries : y # x => draft'[y] = img[y]
  BY <1>2, <1>3, <1>4 DEF Image
<1> HIDE DEF img
<1>8. Alone(w)'
  <2>1. \A y \in Deliveries : table[y].status = "delivered" => draft'[y].status = "delivered"
    BY <1>5, <1>7 DEF Alone, img
  <2>2. \A i \in rest : draft'[created[i]].status = "pending"
    BY <1>1, <1>6, <1>7 DEF Alone, img
  <2> HIDE DEF rest
  <2> QED BY <1>3, <1>7, <2>1, <2>2 DEF Alone
<1>9. ASSUME Counted(w) PROVE Counted(w)'
  <2>1. img[x].attempts = loaded.attempts /\ posts[x] = new.attempts
    BY <1>1, <1>2, <1>9 DEF Counted, img, loaded, new, x
  <2>2. u.attempts = posts[x] BY <1>5, <2>1
  <2>3. \A y \in Deliveries : y # x => posts[y] = img[y].attempts
    BY <1>1, <1>9 DEF Counted, img, x
  <2>4. \A y \in Deliveries : draft'[y].attempts = posts[y] BY <1>7, <2>2, <2>3
  <2>5. \A y \in Deliveries : draft'[y].status = "absent" => draft'[y].attempts = 0
    BY <1>5, <1>7, <1>9 DEF Counted, img
  <2>6. \A i \in rest : job[w].loaded[created[i]].attempts = draft'[created[i]].attempts
    BY <1>1, <1>6, <1>7, <1>9 DEF Counted, img
  <2> HIDE DEF rest
  <2> QED BY <1>3, <1>7, <2>4, <2>5, <2>6 DEF Counted
<1> QED BY <1>8, <1>9

LEMMA CommitAlone ==
  ASSUME NEW w, Workers = {w}, OutboxInv, Alone(w), Commit(w)
  PROVE  Alone(w)' /\ (Counted(w) => Counted(w)')
<1>1. TypeOK /\ w \in Workers BY DEF OutboxInv
<1>2. /\ writer = w /\ table' = draft /\ writer' = NoWorker /\ NoWorker # w
      /\ pc[w] = "commit" /\ pc'[w] = "idle" /\ UNCHANGED <<created, posts>>
  BY <1>1, OutboxAssumption DEF Commit, Leave, Goto, TypeOK
<1>3. Image(w) = draft /\ Image(w)' = draft BY <1>2 DEF Image
<1>4. Alone(w)' BY <1>2, <1>3 DEF Alone
<1>5. ASSUME Counted(w) PROVE Counted(w)' BY <1>2, <1>3, <1>5 DEF Counted
<1> QED BY <1>4, <1>5

LEMMA EnqueueAlone ==
  ASSUME NEW w, Workers = {w}, OutboxInv, OutboxInv', Alone(w), NEW e \in Events, Enqueue(e)
  PROVE  Alone(w)' /\ (Counted(w) => Counted(w)')
<1> DEFINE new == {<<e, p>> : p \in {q \in Endpoints : endpoint[q] = "active"}}
<1>1. TypeOK /\ w \in Workers /\ TableOK /\ QueueOK BY DEF OutboxInv
<1>2. /\ e \notin raised /\ writer = NoWorker
      /\ table' = [x \in Deliveries |-> IF x \in new THEN Queued ELSE table[x]]
      /\ UNCHANGED <<writer, pc, job, posts>>
  BY DEF Enqueue
<1>3. PICK order \in SetToSeqs(new) : created' = created \o order BY DEF Enqueue
<1>4. new \in SUBSET Deliveries /\ \A x \in new : x[1] = e BY DEF Deliveries
<1>5. IsFiniteSet(new)
  <2>1. IsFiniteSet({e} \X Endpoints) BY FS_Product, FS_Singleton, OutboxAssumption
  <2>2. new \subseteq {e} \X Endpoints OBVIOUS
  <2> QED BY <2>1, <2>2, FS_Subset
<1> HIDE DEF new
<1>6. /\ created' \in Seq(Deliveries) /\ order \in Seq(new)
      /\ Len(created') = Len(created) + Len(order)
      /\ \A i \in 1..Len(created) : created'[i] = created[i]
      /\ \A i \in 1..Len(order) : created'[Len(created) + i] = order[i]
      /\ \A i, k \in 1..Len(order) : i # k => order[i] # order[k]
  BY <1>1, <1>3, <1>4, <1>5, Appended
<1>7. /\ DOMAIN created = 1..Len(created) /\ DOMAIN created' = 1..Len(created')
      /\ Len(created) \in Nat /\ Len(order) \in Nat /\ created \in Seq(Deliveries)
  BY <1>1, <1>6 DEF TypeOK
<1>8. Image(w) = table /\ Image(w)' = table' BY <1>1, <1>2, OutboxAssumption DEF Image
<1>9. \A x \in Deliveries : /\ x[1] \in raised => table'[x] = table[x]
                            /\ \/ table'[x] = table[x]
                               \/ table[x].status = "absent" /\ table'[x] = Queued
  BY <1>1, <1>2, <1>4 DEF TableOK, RowOK, Fits
<1>10. \A i \in DOMAIN created : created[i] \in Deliveries /\ created[i][1] \in raised
  BY <1>1, <1>7 DEF TableOK, RowOK, Fits, QueueOK
<1>11. \A i, k \in DOMAIN created' : created'[i] = created'[k] => i = k
  <2>1. ASSUME NEW i \in DOMAIN created'
        PROVE  \/ i \in DOMAIN created /\ created'[i] = created[i] /\ created'[i][1] \in raised
               \/ /\ i - Len(created) \in 1..Len(order)
                  /\ created'[i] = order[i - Len(created)]
                  /\ created'[i][1] = e
    <3>1. CASE i \in DOMAIN created BY <1>6, <1>7, <1>10, <3>1
    <3>2. CASE i \notin DOMAIN created
      <4>1. i - Len(created) \in 1..Len(order) /\ i = Len(created) + (i - Len(created))
        BY <1>6, <1>7, <3>2
      <4>2. created'[i] = order[i - Len(created)] /\ order[i - Len(created)] \in new
        BY <1>6, <4>1
      <4> QED BY <1>4, <4>1, <4>2
    <3> QED BY <3>1, <3>2
  <2> SUFFICES ASSUME NEW i \in DOMAIN created', NEW k \in DOMAIN created',
                      created'[i] = created'[k]
               PROVE  i = k
    OBVIOUS
  <2>2. i \in Nat /\ k \in Nat BY <1>6, <1>7
  <2>3. CASE created'[i][1] \in raised BY <1>2, <2>1, <2>3 DEF Alone
  <2>4. CASE created'[i][1] = e
    <3>1. order[i - Len(created)] = order[k - Len(created)] /\ i - Len(created) \in 1..Len(order)
          /\ k - Len(created) \in 1..Len(order)
      BY <1>2, <2>1, <2>4
    <3>2. i - Len(created) = k - Len(created) BY <1>6, <3>1
    <3> QED BY <1>7, <2>2, <3>2
  <2> QED BY <2>1, <2>3, <2>4
<1>12. pc[w] # "idle" => \A i \in job[w].todo : /\ created'[i] = created[i]
                                                 /\ table'[created[i]] = table[created[i]]
  BY <1>1, <1>6, <1>7, <1>9, <1>10 DEF TypeOK
<1>13. Alone(w)' BY <1>2, <1>8, <1>9, <1>11, <1>12 DEF Alone, Queued
<1>14. ASSUME Counted(w) PROVE Counted(w)'
  <2>1. pc[w] = "flush" => Item(w)' = Item(w)
    <3>1. pc[w] = "flush" => Min(job[w].todo) \in job[w].todo BY <1>1, ItemType
    <3> QED BY <1>2, <1>12, <3>1 DEF Item
  <2>2. \A x \in Deliveries : table'[x].attempts = table[x].attempts
    BY <1>8, <1>9, <1>14 DEF Counted, Queued
  <2>3. \A x \in Deliveries : table'[x].status = "absent" => table'[x].attempts = 0
    BY <1>8, <1>9, <1>14 DEF Counted, Queued
  <2> QED BY <1>2, <1>8, <1>12, <1>14, <2>1, <2>2, <2>3 DEF Counted
<1> QED BY <1>13, <1>14

LEMMA TickAlone ==
  ASSUME NEW w, Workers = {w}, OutboxInv, Alone(w), Tick
  PROVE  Alone(w)' /\ (Counted(w) => Counted(w)')
<1>1. TypeOK /\ w \in Workers BY DEF OutboxInv
<1>2. /\ table' = [x \in Deliveries |-> Aged(table[x])]
      /\ draft' = [x \in Deliveries |-> Aged(draft[x])]
      /\ UNCHANGED <<created, writer, pc, job, posts>>
  BY DEF Tick
<1>3. \A x \in Deliveries : /\ table'[x].status = table[x].status
                            /\ table'[x].attempts = table[x].attempts
                            /\ draft'[x].status = draft[x].status
                            /\ draft'[x].attempts = draft[x].attempts
  BY <1>1, <1>2, AgedType DEF TypeOK
<1>4. \A x \in Deliveries : /\ Image(w)'[x].status = Image(w)[x].status
                            /\ Image(w)'[x].attempts = Image(w)[x].attempts
  BY <1>2, <1>3 DEF Image
<1>5. \A i \in job[w].todo : created[i] \in Deliveries BY <1>1 DEF TypeOK
<1>6. Item(w)' = Item(w) BY <1>2 DEF Item
<1>7. Alone(w)' BY <1>2, <1>3, <1>4, <1>5 DEF Alone
<1>8. ASSUME Counted(w) PROVE Counted(w)' BY <1>2, <1>4, <1>5, <1>6, <1>8 DEF Counted
<1> QED BY <1>7, <1>8

LEMMA InitAlone ==
  ASSUME NEW w, Workers = {w}, Init
  PROVE  Alone(w) /\ Counted(w)
<1>1. w \in Workers /\ w # NoWorker BY OutboxAssumption
<1>2. Image(w) = table BY <1>1 DEF Init, Image
<1> QED BY <1>1, <1>2 DEF Init, Alone, Counted, Absent

LEMMA AloneKept ==
  ASSUME NEW w, Workers = {w}, OutboxInv, OutboxInv', Alone(w), [Next]_vars
  PROVE  /\ Alone(w)'
         /\ "crash" \notin Faults /\ Counted(w) => Counted(w)'
<1>1. TypeOK /\ w \in Workers BY DEF OutboxInv
<1>2. CASE StartDispatch(w) BY <1>2, StartAlone
<1>3. CASE SkipInactive(w) BY <1>3, SkipAlone
<1>4. CASE Attempt(w) BY <1>4, AttemptAlone
<1>5. CASE Flush(w) BY <1>5, FlushAlone
<1>6. CASE Commit(w) BY <1>6, CommitAlone
<1>7. CASE BusyTimeout(w)
  <2>1. writer \in {NoWorker, w} BY <1>1 DEF TypeOK
  <2> QED BY <1>7, <2>1 DEF BusyTimeout
<1>8. ASSUME NEW e \in Events, Enqueue(e) PROVE Alone(w)' /\ (Counted(w) => Counted(w)')
  BY <1>8, EnqueueAlone
<1>9. ASSUME NEW p \in Endpoints, CreateEndpoint(p) \/ Deactivate(p)
      PROVE  Alone(w)' /\ (Counted(w) => Counted(w)')
  BY <1>9 DEF CreateEndpoint, Deactivate, Alone, Counted, Image, Item
<1>10. CASE Tick BY <1>10, TickAlone
<1>11. CASE Crash
  <2>1. /\ pc'[w] = "idle" /\ writer' = NoWorker /\ NoWorker # w
        /\ UNCHANGED <<created, table>>
    BY <1>1, <1>11, OutboxAssumption DEF Crash
  <2>2. Image(w)' = table BY <2>1 DEF Image
  <2>3. Alone(w)' BY <2>1, <2>2 DEF Alone
  <2> QED BY <1>11, <2>3 DEF Crash
<1>12. CASE UNCHANGED vars BY <1>12 DEF vars, Alone, Counted, Image, Item
<1> QED BY <1>2, <1>3, <1>4, <1>5, <1>6, <1>7, <1>8, <1>9, <1>10, <1>11, <1>12 DEF Next, Serve

(* Where one worker runs the dispatches, a delivered event stays delivered,    *)
(* whatever crashes and deactivations happen.                                *)
THEOREM DeliveredFinal ==
  ASSUME NEW worker, Workers = {worker}
  PROVE  Spec => DeliveredStays
<1>1. Init => OutboxInv /\ Alone(worker) BY InitOutboxInv, InitAlone
<1>2. OutboxInv /\ Alone(worker) /\ [Next]_vars => (OutboxInv /\ Alone(worker))'
  BY OutboxInvKept, AloneKept
<1>3. OutboxInv /\ Alone(worker) /\ [Next]_vars =>
        [\A x \in Deliveries : table[x].status = "delivered" => table'[x].status = "delivered"]_vars
  <2> SUFFICES ASSUME OutboxInv, Alone(worker), [Next]_vars, NEW x \in Deliveries,
                      table[x].status = "delivered"
               PROVE  table'[x].status = "delivered"
    OBVIOUS
  <2>1. CASE \E w \in Workers : Commit(w) /\ writer = w /\ table' = draft
    <3>1. writer = worker /\ table' = draft BY <2>1
    <3> QED BY <3>1 DEF Alone, Image
  <2> QED BY <2>1, TableSteps DEF Queued
<1> QED BY <1>1, <1>2, <1>3, PTL DEF Spec, DeliveredStays

(* Where one worker runs the dispatches and none of them is cut off, the       *)
(* attempts recorded are those made.                                         *)
THEOREM AttemptsCounted ==
  ASSUME NEW worker, Workers = {worker}, "crash" \notin Faults
  PROVE  Spec => []AttemptsExact
<1> DEFINE I == OutboxInv /\ Alone(worker) /\ Counted(worker)
<1>1. Init => I BY InitOutboxInv, InitAlone
<1>2. I /\ [Next]_vars => I' BY OutboxInvKept, AloneKept
<1>3. I => AttemptsExact
  <2> SUFFICES ASSUME I, \A w \in Workers : pc[w] = "idle", NEW x \in Deliveries
               PROVE  table[x].attempts = posts[x]
    BY DEF AttemptsExact
  <2>1. pc[worker] = "idle" OBVIOUS
  <2>2. Image(worker) = table BY <2>1 DEF Alone, Image
  <2> QED BY <2>1, <2>2 DEF Counted
<1> QED BY <1>1, <1>2, <1>3, PTL DEF Spec

=============================================================================
