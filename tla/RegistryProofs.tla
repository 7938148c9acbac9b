---------------------------- MODULE RegistryProofs ----------------------------
(***************************************************************************)
(* Proofs about Registry, for any organizations, keys, threads and requests: *)
(* types, the refinement of the register of names, and what keys promise.     *)
(***************************************************************************)
EXTENDS Registry, TLAPS

(* What task is as a function, and which requests come to which step. *)
TasksInv ==
  /\ task \in [Threads -> TaskType \union {NoTask}]
  /\ \A w \in Threads : at[w] # "idle" =>
       /\ task[w] \in TaskType
       /\ [org |-> task[w].org, key |-> task[w].key, body |-> task[w].body] \in Requests
       /\ at[w] \in {"lookup", "store_read", "store_write"} => task[w].key # NoKey
       /\ at[w] = "settle" => task[w].body.kind = "settle"
       /\ at[w] = "insert" => task[w].body.kind # "settle"

TypeInv == RegistryTypeOK /\ TasksInv

-----------------------------------------------------------------------------
(* The shapes of the steps a request takes without writing to the tables. *)

Quiet(w) == holder # w /\ UNCHANGED <<things, records, desk, holder, sent, history>>

(* The request is over, and no transaction was open. *)
Quits(w) ==
  /\ at[w] # "idle"
  /\ Quiet(w)
  /\ at' = [at EXCEPT ![w] = "idle"]
  /\ task' = [task EXCEPT ![w] = NoTask]

Misses(w) ==
  /\ at[w] = "lookup"
  /\ Stored(w) = {}
  /\ Quiet(w)
  /\ at' = [at EXCEPT ![w] = "check"]
  /\ task' = task

Replays(w) ==
  /\ at[w] = "lookup"
  /\ Quiet(w)
  /\ \E r \in Stored(w) : r.body = task[w].body /\ task' = [task EXCEPT ![w].answer = r.answer]
  /\ at' = [at EXCEPT ![w] = "commit"]

(* The check is passed: nothing stands against the insert or the update. *)
PassesToInsert(w) ==
  /\ at[w] = "check"
  /\ Quiet(w)
  /\ task[w].body.kind # "settle"
  /\ \A n \in task[w].body.uses : InService(n, task[w].org)
  /\ at' = [at EXCEPT ![w] = "insert"]
  /\ task' = task

PassesToSettle(w) ==
  /\ at[w] = "check"
  /\ Quiet(w)
  /\ task[w].body.kind = "settle"
  /\ \E t \in things : {t.id} = task[w].body.uses
  /\ at' = [at EXCEPT ![w] = "settle"]
  /\ task' = task

(* The item of a batch is refused or a duplicate. *)
Verdict(w, a) ==
  \/ a = NoAnswer
  \/ \E t \in Same(w) : t.body = task[w].body /\ a = [thing |-> t.id, note |-> "duplicate"]

Judges(w) ==
  /\ at[w] = "check"
  /\ Quiet(w)
  /\ at' = [at EXCEPT ![w] = AfterItem(w)]
  /\ \E a : Verdict(w, a) /\ task' = [task EXCEPT ![w].answer = a]

ReadsRecord(w) ==
  /\ at[w] = "store_read"
  /\ Quiet(w)
  /\ task' = [task EXCEPT ![w].seen = Stored(w)]
  /\ at' = [at EXCEPT ![w] = "store_write"]

(* The record is already what it should be. *)
Leaves(w) ==
  /\ at[w] = "store_write"
  /\ Quiet(w)
  /\ RecordOf(w, task[w].answer) \in task[w].seen
  /\ at' = [at EXCEPT ![w] = "commit"]
  /\ task' = task

(* The shapes of those that write: w takes the lock, the tables wait. *)
Takes(w, ts, rs) ==
  /\ holder = NoThread
  /\ holder' = w
  /\ desk' = [things |-> ts, records |-> rs]
  /\ at' = [at EXCEPT ![w] = "commit"]
  /\ UNCHANGED <<things, records, sent, answered, raced>>

Enters(w) ==
  /\ at[w] = "insert"
  /\ ~ Register!Named(NewThing(w), things)
  /\ Takes(w, things \union {NewThing(w)},
           IF task[w].key = NoKey THEN records ELSE Merged(records, RecordOf(w, Created(w))))
  /\ task' = [task EXCEPT ![w].answer = Created(w)]
  /\ afterlife' = IF task[w].body.uses \intersect task[w].gone = {}
                    THEN afterlife ELSE afterlife \union {task[w].num}

StoresNew(w) ==
  /\ at[w] = "store_write"
  /\ task[w].seen = {} /\ Stored(w) = {}
  /\ Takes(w, things, records \union {RecordOf(w, task[w].answer)})
  /\ UNCHANGED <<task, afterlife>>

StoresOver(w) ==
  /\ at[w] = "store_write"
  /\ \E r \in task[w].seen, cur \in Stored(w) : Takes(w, things, Merged(records, Updated(RecordOf(w, task[w].answer), r, cur)))
  /\ UNCHANGED <<task, afterlife>>

SettledAll(w) == {IF t.id \in task[w].body.uses THEN Register!Settled(t) ELSE t : t \in things}

Settling(w) ==
  /\ at[w] = "settle"
  /\ Takes(w, SettledAll(w), records)
  /\ UNCHANGED <<task, afterlife>>

WritesDesk(w) == Enters(w) \/ StoresNew(w) \/ StoresOver(w) \/ Settling(w)

(* w's request is over and answered; if it has written, its draft is in force. *)
Ends(w) ==
  /\ at[w] = "commit"
  /\ things' = (IF holder = w THEN desk.things ELSE things)
  /\ records' = (IF holder = w THEN desk.records ELSE records)
  /\ holder' = (IF holder = w THEN NoThread ELSE holder)
  /\ desk' = (IF holder = w THEN NoDesk ELSE desk)
  /\ at' = [at EXCEPT ![w] = "idle"]
  /\ task' = [task EXCEPT ![w] = NoTask]
  /\ answered' = (IF task[w].key = NoKey THEN answered
                    ELSE answered \union {RecordOf(w, task[w].answer)})
  /\ UNCHANGED <<sent, raced, afterlife>>

(* Every step of a request has one of these shapes. *)
LEMMA Shapes ==
  ASSUME TypeInv, NEW w \in Threads, Handle(w)
  PROVE  \/ Begin(w) \/ Quits(w) \/ Misses(w) \/ Replays(w)
         \/ PassesToInsert(w) \/ PassesToSettle(w) \/ Judges(w)
         \/ ReadsRecord(w) \/ Leaves(w) \/ WritesDesk(w) \/ Ends(w)
<1>h. holder = w => at[w] = "commit"
  BY DEF TypeInv, RegistryTypeOK
<1>n. w # NoThread
  BY RegistryAssumption
<1>1. CASE Begin(w)
  BY <1>1
<1>2. CASE Lookup(w)
  <2>1. at[w] = "lookup" /\ holder # w /\ UNCHANGED <<things, records, sent, history>>
    BY <1>2, <1>h DEF Lookup
  <2>2. CASE Stored(w) = {} /\ Move(w, "check") /\ UNCHANGED <<task, desk, holder>>
    BY <2>1, <2>2 DEF Misses, Move, Quiet
  <2>3. CASE \E r \in Stored(w) : /\ SameRequest(r, task[w].body)
                                  /\ Answer(w, r.answer) /\ Move(w, "commit")
                                  /\ UNCHANGED <<desk, holder>>
    BY <2>1, <2>3 DEF Replays, Move, Quiet, Answer, SameRequest
  <2>4. CASE GiveUp(w)
    BY <2>1, <2>4 DEF Quits, GiveUp, Quiet
  <2> QED
    BY <1>2, <2>2, <2>3, <2>4 DEF Lookup
<1>3. CASE CheckSerial(w)
  <2>1. /\ at[w] = "check" /\ holder # w /\ UNCHANGED <<things, records, sent, history>>
        /\ task[w].body.kind = "device"
    BY <1>3, <1>h DEF CheckSerial, ServesCheck
  <2>2. CASE GiveUp(w)
    BY <2>1, <2>2 DEF Quits, GiveUp, Quiet
  <2>3. CASE Move(w, "insert") /\ UNCHANGED <<task, desk, holder>>
    <3>1. task[w].body.uses = {}
      BY <2>1, RegistryAssumption DEF TypeInv, TasksInv
    <3> QED
      BY <2>1, <2>3, <3>1 DEF PassesToInsert, Move, Quiet
  <2> QED
    BY <1>3, <2>2, <2>3 DEF CheckSerial
<1>4. CASE CheckParts(w)
  <2>1. /\ at[w] = "check" /\ holder # w /\ UNCHANGED <<things, records, sent, history>>
        /\ task[w].body.kind = "shipment"
    BY <1>4, <1>h DEF CheckParts, ServesCheck
  <2>2. CASE GiveUp(w)
    BY <2>1, <2>2 DEF Quits, GiveUp, Quiet
  <2>3. CASE /\ \A n \in task[w].body.uses : InService(n, task[w].org)
             /\ Move(w, "insert") /\ UNCHANGED <<task, desk, holder>>
    BY <2>1, <2>3 DEF PassesToInsert, Move, Quiet
  <2> QED
    BY <1>4, <2>2, <2>3 DEF CheckParts
<1>5. CASE CheckReading(w)
  <2>1. /\ at[w] = "check" /\ UNCHANGED <<things, records, desk, holder, sent, history>>
        /\ task[w].body.kind = "reading" /\ holder # w
    BY <1>5, <1>h DEF CheckReading, ServesCheck
  <2>2. CASE Move(w, AfterItem(w)) /\ Answer(w, NoAnswer)
    BY <2>1, <2>2 DEF Judges, Move, Quiet, Answer, Verdict
  <2>3. CASE \E t \in Same(w) : /\ t.body = task[w].body
                                /\ Move(w, AfterItem(w))
                                /\ Answer(w, [thing |-> t.id, note |-> "duplicate"])
    BY <2>1, <2>3 DEF Judges, Move, Quiet, Answer, Verdict
  <2>4. CASE /\ \A n \in task[w].body.uses : InService(n, task[w].org)
             /\ Move(w, "insert") /\ UNCHANGED task
    BY <2>1, <2>4 DEF PassesToInsert, Move, Quiet
  <2> QED
    BY <1>5, <2>2, <2>3, <2>4 DEF CheckReading
<1>6. CASE CheckSettle(w)
  <2>1. /\ at[w] = "check" /\ holder # w /\ UNCHANGED <<things, records, sent, history>>
        /\ task[w].body.kind = "settle"
    BY <1>6, <1>h DEF CheckSettle, ServesCheck
  <2>2. CASE GiveUp(w)
    BY <2>1, <2>2 DEF Quits, GiveUp, Quiet
  <2>3. CASE /\ \E t \in things : {t.id} = task[w].body.uses
             /\ Move(w, "settle") /\ UNCHANGED <<task, desk, holder>>
    BY <2>1, <2>3 DEF PassesToSettle, Move, Quiet
  <2> QED
    BY <1>6, <2>2, <2>3 DEF CheckSettle
<1>7. CASE Enter(w)
  <2>1. at[w] = "insert" /\ holder = NoThread /\ UNCHANGED <<things, sent, answered, raced>>
    BY <1>7 DEF Enter
  <2>2. CASE GiveUp(w) /\ UNCHANGED <<records, afterlife>>
    BY <2>1, <2>2, <1>n DEF Quits, GiveUp, Quiet, history
  <2>3. CASE /\ NameFree(NewThing(w), things)
             /\ Draft(w, things \union {NewThing(w)},
                 IF task[w].key = NoKey THEN records ELSE Merged(records, RecordOf(w, Created(w))))
             /\ Answer(w, Created(w))
             /\ Move(w, "commit")
             /\ afterlife' = IF task[w].body.uses \intersect task[w].gone = {}
                               THEN afterlife ELSE afterlife \union {task[w].num}
    <3>1. Enters(w)
      BY <2>1, <2>3 DEF Enters, Takes, Draft, Answer, Move, NameFree
    <3> QED
      BY <3>1 DEF WritesDesk
  <2> QED
    BY <1>7, <2>2, <2>3 DEF Enter
<1>8. CASE StoreRead(w)
  BY <1>8, <1>h DEF StoreRead, ReadsRecord, Quiet, Move
<1>9. CASE StoreWrite(w)
  <2>1. at[w] = "store_write" /\ holder # w /\ UNCHANGED <<things, sent, history>>
    BY <1>9, <1>h DEF StoreWrite
  <2>2. CASE /\ RecordOf(w, task[w].answer) \in task[w].seen
             /\ Move(w, "commit") /\ UNCHANGED <<records, desk, holder, task>>
    BY <2>1, <2>2 DEF Leaves, Quiet, Move
  <2>3. CASE GiveUp(w) /\ UNCHANGED records
    BY <2>1, <2>3 DEF Quits, GiveUp, Quiet
  <2>4. CASE /\ task[w].seen = {} /\ Stored(w) = {} /\ holder = NoThread
             /\ Draft(w, things, records \union {RecordOf(w, task[w].answer)})
             /\ Move(w, "commit") /\ UNCHANGED task
    <3>1. StoresNew(w)
      BY <2>1, <2>4 DEF StoresNew, Takes, Draft, Move, history
    <3> QED
      BY <3>1 DEF WritesDesk
  <2>5. CASE \E r \in task[w].seen, cur \in Stored(w) :
               /\ holder = NoThread
               /\ Draft(w, things, Merged(records, Updated(RecordOf(w, task[w].answer), r, cur)))
               /\ Move(w, "commit") /\ UNCHANGED task
    <3>1. StoresOver(w)
      BY <2>1, <2>5 DEF StoresOver, Takes, Draft, Move, history
    <3> QED
      BY <3>1 DEF WritesDesk
  <2> QED
    BY <1>9, <2>2, <2>3, <2>4, <2>5 DEF StoreWrite
<1>10. CASE Settle(w)
  <2>1. Settling(w)
    BY <1>10 DEF Settle, Settling, Takes, Draft, Move, history, SettledAll
  <2> QED
    BY <2>1 DEF WritesDesk
<1>11. CASE Finish(w)
  BY <1>11 DEF Finish, Ends, GiveUp
<1>12. CASE GiveUpWaiting(w)
  BY <1>12, <1>h DEF GiveUpWaiting, Quits, GiveUp, Quiet
<1> QED
  BY <1>1, <1>2, <1>3, <1>4, <1>5, <1>6, <1>7, <1>8, <1>9, <1>10, <1>11, <1>12 DEF Handle

-----------------------------------------------------------------------------
(* Types. *)

LEMMA NoThingInside == NoThread \notin Threads /\ NoKey \notin Keys
BY RegistryAssumption

LEMMA RecordTyped ==
  ASSUME TypeInv, NEW w \in Threads, at[w] # "idle", task[w].key # NoKey, NEW a \in AnswerType
  PROVE  RecordOf(w, a) \in RecordType
BY DEF TypeInv, TasksInv, TaskType, RecordOf, RecordType

LEMMA NewThingTyped ==
  ASSUME TypeInv, NEW w \in Threads, at[w] # "idle"
  PROVE  NewThing(w) \in ThingType /\ Created(w) \in AnswerType
BY DEF TypeInv, TasksInv, TaskType, NewThing, ThingType, Created, AnswerType, Notes

LEMMA SettledTyped ==
  ASSUME NEW t \in ThingType
  PROVE  /\ Register!Settled(t) \in ThingType
         /\ Register!Settled(t).id = t.id /\ Register!Settled(t).org = t.org
         /\ Register!Settled(t).body = t.body /\ Register!Settled(t).status = "settled"
BY DEF Register!Settled, ThingType

LEMMA TaskAnswered ==
  ASSUME NEW j \in TaskType, NEW a \in AnswerType
  PROVE  [j EXCEPT !.answer = a] \in TaskType
BY DEF TaskType

LEMMA TaskSeen ==
  ASSUME NEW j \in TaskType, NEW rs \in SUBSET RecordType
  PROVE  [j EXCEPT !.seen = rs] \in TaskType
BY DEF TaskType

(* A step by which only w's place and task change keeps the types. *)
LEMMA TypesOfQuiet ==
  ASSUME TypeInv, NEW w \in Threads, NEW place \in Stops, NEW j \in TaskType,
         at[w] # "idle", place # "settle" \/ task[w].body.kind = "settle",
         place # "insert" \/ task[w].body.kind # "settle",
         place \in {"store_read", "store_write"} => task[w].key # NoKey,
         place # "lookup",
         Quiet(w), at' = [at EXCEPT ![w] = place], task' = [task EXCEPT ![w] = j],
         j.org = task[w].org, j.key = task[w].key, j.body = task[w].body
  PROVE  TypeInv'
<1> USE DEF TypeInv
<1>1. /\ at \in [Threads -> Stops \union {"idle"}]
      /\ task \in [Threads -> TaskType \union {NoTask}]
  BY DEF RegistryTypeOK, TasksInv
<1>2. /\ at'[w] = place /\ task'[w] = j
      /\ \A v \in Threads \ {w} : at'[v] = at[v] /\ task'[v] = task[v]
  BY <1>1
<1>3. place # "idle"
  BY DEF Stops
<1>4. RegistryTypeOK'
  BY <1>1, <1>2, <1>3 DEF RegistryTypeOK, Quiet, history
<1>5. TasksInv'
  BY <1>1, <1>2, <1>3 DEF TasksInv
<1> QED
  BY <1>4, <1>5

(* A step that takes the lock keeps the types if its draft has them. *)
LEMMA TypesOfTakes ==
  ASSUME TypeInv, NEW w \in Threads, at[w] # "idle", NEW ts \in SUBSET ThingType,
         NEW rs \in SUBSET RecordType, Takes(w, ts, rs), NEW j \in TaskType,
         task' = [task EXCEPT ![w] = j],
         j.org = task[w].org, j.key = task[w].key, j.body = task[w].body,
         afterlife' \subseteq Nat
  PROVE  TypeInv'
<1> USE DEF TypeInv
<1>1. /\ at \in [Threads -> Stops \union {"idle"}]
      /\ task \in [Threads -> TaskType \union {NoTask}]
  BY DEF RegistryTypeOK, TasksInv
<1>2. /\ at'[w] = "commit" /\ task'[w] = j
      /\ \A v \in Threads \ {w} : at'[v] = at[v] /\ task'[v] = task[v]
  BY <1>1 DEF Takes
<1>3. at' \in [Threads -> Stops \union {"idle"}]
  BY <1>1 DEF Takes, Stops
<1>4. task' \in [Threads -> TaskType \union {NoTask}]
  BY <1>1
<1>5. RegistryTypeOK'
  BY <1>1, <1>2, <1>3, <1>4 DEF RegistryTypeOK, Takes
<1>6. TasksInv'
  BY <1>1, <1>2, <1>4 DEF TasksInv
<1> QED
  BY <1>5, <1>6

(* A step that ends w's request keeps them. *)
LEMMA TypesOfIdle ==
  ASSUME TypeInv, NEW w \in Threads,
         at' = [at EXCEPT ![w] = "idle"], task' = [task EXCEPT ![w] = NoTask],
         things' \subseteq ThingType, records' \subseteq RecordType,
         desk' \in [things : SUBSET ThingType, records : SUBSET RecordType],
         holder' \in {holder, NoThread}, holder' # w,
         answered' \subseteq RecordType, UNCHANGED <<sent, raced, afterlife>>
  PROVE  TypeInv'
<1> USE DEF TypeInv
<1>1. /\ at \in [Threads -> Stops \union {"idle"}]
      /\ task \in [Threads -> TaskType \union {NoTask}]
  BY DEF RegistryTypeOK, TasksInv
<1>2. /\ at'[w] = "idle" /\ task'[w] = NoTask
      /\ \A v \in Threads \ {w} : at'[v] = at[v] /\ task'[v] = task[v]
  BY <1>1
<1>3. at' \in [Threads -> Stops \union {"idle"}] /\ task' \in [Threads -> TaskType \union {NoTask}]
  BY <1>1
<1>4. RegistryTypeOK'
  BY <1>1, <1>2, <1>3, NoThingInside DEF RegistryTypeOK
<1>5. TasksInv'
  BY <1>1, <1>2, <1>3 DEF TasksInv
<1> QED
  BY <1>4, <1>5

LEMMA TypesOfBegin ==
  ASSUME TypeInv, NEW w \in Threads, Begin(w)
  PROVE  TypeInv'
<1> USE DEF TypeInv
<1>1. /\ at \in [Threads -> Stops \union {"idle"}]
      /\ task \in [Threads -> TaskType \union {NoTask}]
      /\ sent \in Nat
  BY DEF RegistryTypeOK, TasksInv
<1>2. PICK q \in Requests :
        /\ task' = [task EXCEPT ![w] =
             [num |-> sent + 1, org |-> q.org, key |-> q.key, body |-> q.body,
              answer |-> NoAnswer, seen |-> {}, gone |-> SettledIds]]
        /\ Move(w, IF q.key = NoKey THEN FirstRead(q.body) ELSE "lookup")
        /\ raced' = IF q.key # NoKey /\ InFlight(q) THEN raced \union {<<q.org, q.key>>} ELSE raced
  BY DEF Begin
<1> DEFINE j == [num |-> sent + 1, org |-> q.org, key |-> q.key, body |-> q.body,
                 answer |-> NoAnswer, seen |-> {}, gone |-> SettledIds]
<1>3. q \in [org : Companies, key : Keys \union {NoKey}, body : BodyType]
  BY RegistryAssumption
<1>4. SettledIds \subseteq Nat
  BY DEF SettledIds, RegistryTypeOK, ThingType
<1>5. NoAnswer \in AnswerType
  BY DEF NoAnswer, AnswerType, Notes
<1>6. j \in TaskType
  BY <1>1, <1>3, <1>4, <1>5 DEF TaskType
<1>7. j.org = q.org /\ j.key = q.key /\ j.body = q.body
  OBVIOUS
<1>q. q = [org |-> j.org, key |-> j.key, body |-> j.body]
  BY <1>3, <1>7
<1> DEFINE place == IF q.key = NoKey THEN FirstRead(q.body) ELSE "lookup"
<1>8. /\ place \in {"lookup", "check", "insert"}
      /\ place = "lookup" => q.key # NoKey
      /\ place = "insert" => q.body.kind = "profile"
  BY DEF FirstRead
<1>9. task' = [task EXCEPT ![w] = j] /\ at' = [at EXCEPT ![w] = place]
  BY <1>2 DEF Move
<1> HIDE DEF j, place
<1>10. /\ at'[w] = place /\ task'[w] = j
       /\ \A v \in Threads \ {w} : at'[v] = at[v] /\ task'[v] = task[v]
  BY <1>1, <1>9
<1>11. at' \in [Threads -> Stops \union {"idle"}] /\ task' \in [Threads -> TaskType \union {NoTask}]
  BY <1>1, <1>6, <1>8, <1>9 DEF Stops
<1>12. raced' \subseteq Companies \X Keys
  BY <1>2, <1>3 DEF RegistryTypeOK
<1>13. holder # w
  BY DEF RegistryTypeOK, Begin
<1>14. RegistryTypeOK'
  <2>1. UNCHANGED <<things, records, desk, holder, answered, afterlife>> /\ sent' \in Nat
    BY <1>1 DEF Begin
  <2>2. \A v \in Threads : IF at'[v] = "idle" THEN task'[v] = NoTask ELSE task'[v] \in TaskType
    BY <1>6, <1>8, <1>10 DEF RegistryTypeOK
  <2>3. holder' \in Threads => at'[holder'] = "commit"
    BY <1>10, <1>13, <2>1 DEF RegistryTypeOK
  <2> QED
    BY <1>11, <1>12, <2>1, <2>2, <2>3 DEF RegistryTypeOK
<1>15. TasksInv'
  BY <1>6, <1>7, <1>8, <1>q, <1>10, <1>11 DEF TasksInv
<1> QED
  BY <1>14, <1>15

LEMMA StoredTyped ==
  ASSUME TypeInv, NEW w \in Threads
  PROVE  Stored(w) \subseteq RecordType /\ \A r \in Stored(w) : r.org = task[w].org /\ r.key = task[w].key
BY DEF Stored, Slot, Register!Slot, TypeInv, RegistryTypeOK

LEMMA UpdatedTyped ==
  ASSUME NEW m \in RecordType, NEW r \in RecordType, NEW c \in RecordType
  PROVE  Updated(m, r, c) \in RecordType
BY DEF Updated, RecordType

LEMMA MergedTyped ==
  ASSUME NEW rs \in SUBSET RecordType, NEW q \in RecordType
  PROVE  Merged(rs, q) \in SUBSET RecordType
BY DEF Merged

LEMMA SameTask ==
  ASSUME TypeInv, NEW w \in Threads
  PROVE  task = [task EXCEPT ![w] = task[w]]
BY DEF TypeInv, TasksInv

LEMMA EnterTyped ==
  ASSUME TypeInv, NEW w \in Threads, Enters(w)
  PROVE  TypeInv'
<1> DEFINE j == [task[w] EXCEPT !.answer = Created(w)]
<1>1. task[w] \in TaskType /\ at[w] # "idle"
  BY DEF TypeInv, TasksInv, Enters
<1>2. NewThing(w) \in ThingType /\ Created(w) \in AnswerType
  BY <1>1, NewThingTyped
<1>3. j \in TaskType /\ j.org = task[w].org /\ j.key = task[w].key /\ j.body = task[w].body
  BY <1>1, <1>2, TaskAnswered DEF TaskType
<1>4. (IF task[w].key = NoKey THEN records ELSE Merged(records, RecordOf(w, Created(w)))) \in SUBSET RecordType
  BY <1>1, <1>2, RecordTyped, MergedTyped DEF TypeInv, RegistryTypeOK
<1>5. things \union {NewThing(w)} \in SUBSET ThingType
  BY <1>2 DEF TypeInv, RegistryTypeOK
<1>6. afterlife' \subseteq Nat
  BY <1>1 DEF Enters, TypeInv, RegistryTypeOK, TaskType
<1>7. task' = [task EXCEPT ![w] = j]
  BY DEF Enters
<1> QED
  BY <1>1, <1>3, <1>4, <1>5, <1>6, <1>7, TypesOfTakes DEF Enters

LEMMA DeskTyped ==
  ASSUME TypeInv, NEW w \in Threads, WritesDesk(w)
  PROVE  TypeInv'
<1>0. at[w] # "idle" /\ task[w] \in TaskType /\ task[w].answer \in AnswerType
  BY DEF TypeInv, TasksInv, WritesDesk, Enters, StoresNew, StoresOver, Settling, TaskType
<1>r. things \in SUBSET ThingType /\ records \in SUBSET RecordType /\ afterlife \subseteq Nat
  BY DEF TypeInv, RegistryTypeOK
<1>m. at[w] = "store_write" => RecordOf(w, task[w].answer) \in RecordType
  BY <1>0, RecordTyped DEF TypeInv, TasksInv
<1>1. CASE Enters(w)
  BY <1>1, EnterTyped
<1>2. CASE StoresNew(w)
  <2>1. records \union {RecordOf(w, task[w].answer)} \in SUBSET RecordType
    BY <1>2, <1>r, <1>m DEF StoresNew
  <2> QED
    BY <1>0, <1>2, <1>r, <2>1, SameTask, TypesOfTakes DEF StoresNew
<1>3. CASE StoresOver(w)
  <2>1. PICK r \in task[w].seen, cur \in Stored(w) :
          Takes(w, things, Merged(records, Updated(RecordOf(w, task[w].answer), r, cur)))
    BY <1>3 DEF StoresOver
  <2>2. r \in RecordType /\ cur \in RecordType
    BY <1>0, StoredTyped DEF TaskType
  <2>3. Merged(records, Updated(RecordOf(w, task[w].answer), r, cur)) \in SUBSET RecordType
    BY <1>3, <1>r, <1>m, <2>2, UpdatedTyped, MergedTyped DEF StoresOver
  <2> QED
    BY <1>0, <1>3, <1>r, <2>1, <2>3, SameTask, TypesOfTakes DEF StoresOver
<1>4. CASE Settling(w)
  <2>1. SettledAll(w) \in SUBSET ThingType
    BY <1>r, SettledTyped DEF SettledAll
  <2> QED
    BY <1>0, <1>4, <1>r, <2>1, SameTask, TypesOfTakes DEF Settling
<1> QED
  BY <1>1, <1>2, <1>3, <1>4 DEF WritesDesk

LEMMA VerdictTyped ==
  ASSUME TypeInv, NEW w \in Threads, NEW x, Verdict(w, x)
  PROVE  x \in AnswerType
<1>1. NoAnswer \in AnswerType
  BY DEF NoAnswer, AnswerType, Notes
<1>2. ASSUME NEW t \in Same(w) PROVE [thing |-> t.id, note |-> "duplicate"] \in AnswerType
  BY <1>2 DEF Same, TypeInv, RegistryTypeOK, ThingType, AnswerType, Notes
<1> QED
  BY <1>1, <1>2 DEF Verdict

LEMMA HandleTyped ==
  ASSUME TypeInv, NEW w \in Threads, Handle(w)
  PROVE  TypeInv'
<1>0. at[w] # "idle" => /\ task[w] \in TaskType
                        /\ (at[w] = "lookup" => task[w].key # NoKey)
                        /\ (at[w] = "store_read" => task[w].key # NoKey)
                        /\ task[w].answer \in AnswerType
  BY DEF TypeInv, TasksInv, TaskType
<1>s. task = [task EXCEPT ![w] = task[w]]
  BY SameTask
<1>p. {"check", "insert", "commit", "store_read", "store_write", "settle"} \subseteq Stops
  BY DEF Stops
<1>1. CASE Begin(w)
  BY <1>1, TypesOfBegin
<1>2. CASE Quits(w)
  <2>1. /\ things' \subseteq ThingType /\ records' \subseteq RecordType
        /\ desk' \in [things : SUBSET ThingType, records : SUBSET RecordType]
        /\ answered' \subseteq RecordType
    BY <1>2 DEF Quits, Quiet, history, TypeInv, RegistryTypeOK
  <2> QED
    BY <1>2, <2>1, TypesOfIdle DEF Quits, Quiet, history
<1>3. CASE Misses(w)
  BY <1>3, <1>0, <1>s, <1>p, TypesOfQuiet DEF Misses
<1>4. CASE Replays(w)
  <2>1. PICK r \in Stored(w) : task' = [task EXCEPT ![w].answer = r.answer]
    BY <1>4 DEF Replays
  <2> DEFINE j == [task[w] EXCEPT !.answer = r.answer]
  <2>2. r.answer \in AnswerType
    BY StoredTyped DEF RecordType
  <2>3. j \in TaskType /\ j.org = task[w].org /\ j.key = task[w].key /\ j.body = task[w].body
    BY <1>4, <1>0, <2>2, TaskAnswered DEF Replays, TaskType
  <2>4. task' = [task EXCEPT ![w] = j]
    BY <2>1
  <2> HIDE DEF j
  <2> QED
    BY <1>4, <1>p, <2>3, <2>4, TypesOfQuiet DEF Replays
<1>5. CASE PassesToInsert(w)
  BY <1>5, <1>0, <1>s, <1>p, TypesOfQuiet DEF PassesToInsert
<1>6. CASE PassesToSettle(w)
  BY <1>6, <1>0, <1>s, <1>p, TypesOfQuiet DEF PassesToSettle
<1>7. CASE Judges(w)
  <2>1. PICK x : Verdict(w, x) /\ task' = [task EXCEPT ![w].answer = x]
    BY <1>7 DEF Judges
  <2> DEFINE j == [task[w] EXCEPT !.answer = x]
  <2>2. j \in TaskType /\ j.org = task[w].org /\ j.key = task[w].key /\ j.body = task[w].body
    BY <1>7, <1>0, <2>1, VerdictTyped, TaskAnswered DEF Judges, TaskType
  <2>3. task' = [task EXCEPT ![w] = j]
    BY <2>1
  <2> HIDE DEF j
  <2>4. AfterItem(w) \in {"commit", "store_read"} /\ (AfterItem(w) = "store_read" => task[w].key # NoKey)
    BY DEF AfterItem
  <2> QED
    BY <1>7, <1>p, <2>2, <2>3, <2>4, TypesOfQuiet DEF Judges
<1>8. CASE ReadsRecord(w)
  <2> DEFINE j == [task[w] EXCEPT !.seen = Stored(w)]
  <2>1. j \in TaskType /\ j.org = task[w].org /\ j.key = task[w].key /\ j.body = task[w].body
    BY <1>8, <1>0, StoredTyped, TaskSeen DEF ReadsRecord, TaskType
  <2>2. task' = [task EXCEPT ![w] = j]
    BY <1>8 DEF ReadsRecord
  <2> HIDE DEF j
  <2> QED
    BY <1>8, <1>0, <1>p, <2>1, <2>2, TypesOfQuiet DEF ReadsRecord
<1>9. CASE Leaves(w)
  BY <1>9, <1>0, <1>s, <1>p, TypesOfQuiet DEF Leaves
<1>10. CASE WritesDesk(w)
  BY <1>10, DeskTyped
<1>11. CASE Ends(w)
  <2>1. /\ things' \subseteq ThingType /\ records' \subseteq RecordType
        /\ desk' \in [things : SUBSET ThingType, records : SUBSET RecordType]
    BY <1>11 DEF Ends, NoDesk, TypeInv, RegistryTypeOK
  <2>2. holder' \in {holder, NoThread} /\ holder' # w
    BY <1>11, NoThingInside DEF Ends
  <2>3. answered' \subseteq RecordType
    BY <1>11, <1>0, RecordTyped DEF Ends, TypeInv, RegistryTypeOK
  <2> QED
    BY <1>11, <2>1, <2>2, <2>3, TypesOfIdle DEF Ends
<1> QED
  BY Shapes, <1>1, <1>2, <1>3, <1>4, <1>5, <1>6, <1>7, <1>8, <1>9, <1>10, <1>11

LEMMA TypeStep ==
  ASSUME TypeInv, [RegistryNext]_registryVars
  PROVE  TypeInv'
<1>1. CASE \E w \in Threads : Handle(w)
  BY <1>1, HandleTyped
<1>2. CASE Die
  <2>1. RegistryTypeOK'
    BY <1>2, NoThingInside DEF Die, TypeInv, RegistryTypeOK, NoDesk, history
  <2>2. TasksInv'
    BY <1>2 DEF Die, TasksInv
  <2> QED
    BY <2>1, <2>2 DEF TypeInv
<1>3. CASE UNCHANGED registryVars
  BY <1>3 DEF registryVars, TypeInv, RegistryTypeOK, TasksInv
<1> QED
  BY <1>1, <1>2, <1>3 DEF RegistryNext

LEMMA TypeInit ==
  ASSUME RegistryInit
  PROVE  TypeInv
BY NoThingInside DEF RegistryInit, TypeInv, RegistryTypeOK, TasksInv, NoDesk

(* Every reachable state of Registry is well typed, and only a thread about    *)
(* to commit holds the write lock, whatever requests race or die.             *)
THEOREM TypeCorrect == RegistrySpec => []RegistryTypeOK
<1>1. RegistryInit => TypeInv
  BY TypeInit
<1>2. TypeInv /\ [RegistryNext]_registryVars => TypeInv'
  BY TypeStep
<1>3. TypeInv => RegistryTypeOK
  BY DEF TypeInv
<1> QED
  BY <1>1, <1>2, <1>3, PTL DEF RegistrySpec

-----------------------------------------------------------------------------
(* The register of names. *)

(* A step of NameRegister, between given tables. *)
RegStep(ts, rs, us, qs) ==
  \/ Register!Enters(ts, us) /\ Register!Remembers(rs, qs, us)
  \/ us = ts /\ Register!Remembers(rs, qs, ts)
  \/ Register!Settles(ts, us) /\ qs = rs

Unique(ts) == \A t, u \in ts : t.id = u.id => t = u

AllBacked(rs, ts) == \A r \in rs : Register!Backed(r, ts)

(* Everything in ts is still in us, and what was settled is. *)
Persists(ts, us) ==
  \A t \in ts : \E u \in us : /\ u.id = t.id /\ u.org = t.org /\ u.body = t.body
                              /\ t.status = "settled" => u.status = "settled"

(* What Register!Backed says of a record of o with answer x. *)
BackedFor(o, x, ts) == x.thing = NoThing \/ \E t \in ts : t.id = x.thing /\ t.org = o

(* What holds of a request at each of its steps. *)
Waits(w) ==
  /\ at[w] = "settle" => \E t \in things : {t.id} = task[w].body.uses
  /\ at[w] \in {"store_read", "store_write"} => BackedFor(task[w].org, task[w].answer, things)
  /\ at[w] = "insert" => task[w].body.uses \intersect task[w].gone = {}
  /\ \A n \in task[w].gone : \E t \in things : t.id = n /\ t.status = "settled"

(* The number of a request in progress is its own. *)
OwnNumber(w) ==
  /\ task[w].num <= sent
  /\ \A t \in things : t.id # task[w].num
  /\ holder \in Threads /\ holder # w => \A t \in desk.things : t.id # task[w].num
  /\ \A v \in Threads : at[v] # "idle" /\ v # w => task[v].num # task[w].num

(* The draft of the holder of the lock is one step of the register ahead. *)
DeskAhead ==
  holder \in Threads =>
    /\ RegStep(things, records, desk.things, desk.records)
    /\ \A t \in desk.things : t.id <= sent

SafeInv ==
  /\ TypeInv
  /\ Unique(things) /\ AllBacked(records, things)
  /\ \A t \in things : t.id <= sent
  /\ DeskAhead
  /\ \A w \in Threads : at[w] # "idle" => Waits(w) /\ OwnNumber(w)
  /\ afterlife = {}

LEMMA PersistsBacked ==
  ASSUME NEW ts, NEW us, Persists(ts, us), NEW r, Register!Backed(r, ts)
  PROVE  Register!Backed(r, us)
BY DEF Persists, Register!Backed

(* A step of the register keeps what is entered, and answers backed. *)
LEMMA StepKeeps ==
  ASSUME NEW ts \in SUBSET ThingType, NEW us \in SUBSET ThingType, NEW rs, NEW qs,
         RegStep(ts, rs, us, qs), Unique(ts), AllBacked(rs, ts)
  PROVE  Unique(us) /\ AllBacked(qs, us) /\ Persists(ts, us)
<1>1. Persists(ts, us) /\ Unique(us)
  <2>1. CASE Register!Enters(ts, us)
    BY <2>1 DEF Register!Enters, Persists, Unique
  <2>2. CASE us = ts
    BY <2>2 DEF Persists
  <2>3. CASE Register!Settles(ts, us)
    <3>1. PICK t \in ts : us = (ts \ {t}) \union {Register!Settled(t)}
      BY <2>3 DEF Register!Settles
    <3>2. /\ Register!Settled(t).id = t.id /\ Register!Settled(t).org = t.org
          /\ Register!Settled(t).body = t.body /\ Register!Settled(t).status = "settled"
      BY SettledTyped
    <3>3. Persists(ts, us)
      BY <3>1, <3>2 DEF Persists
    <3>4. Unique(us)
      BY <3>1, <3>2 DEF Unique
    <3> QED
      BY <3>3, <3>4
  <2> QED
    BY <2>1, <2>2, <2>3 DEF RegStep
<1>2. \A r \in rs : Register!Backed(r, us)
  BY <1>1, PersistsBacked DEF AllBacked
<1>3. Register!Remembers(rs, qs, us) \/ qs = rs
  BY DEF RegStep
<1>4. AllBacked(qs, us)
  BY <1>2, <1>3 DEF AllBacked, Register!Remembers
<1> QED
  BY <1>1, <1>4

LEMMA QuietSafe ==
  ASSUME SafeInv, TypeInv', NEW w \in Threads, at[w] # "idle", NEW place \in Stops \union {"idle"}, NEW j,
         UNCHANGED <<things, records, desk, holder, sent, afterlife>>,
         at' = [at EXCEPT ![w] = place], task' = [task EXCEPT ![w] = j],
         place # "idle" => /\ j.num = task[w].num /\ j.gone = task[w].gone
                           /\ j.org = task[w].org /\ j.key = task[w].key /\ j.body = task[w].body
                           /\ place = "settle" => \E t \in things : {t.id} = j.body.uses
                           /\ place = "insert" => j.body.uses \intersect j.gone = {}
                           /\ place \in {"store_read", "store_write"} =>
                                BackedFor(j.org, j.answer, things)
  PROVE  SafeInv'
<1> USE DEF SafeInv
<1>1. /\ at'[w] = place /\ task'[w] = j
      /\ \A v \in Threads \ {w} : at'[v] = at[v] /\ task'[v] = task[v]
  BY DEF TypeInv, RegistryTypeOK, TasksInv
<1>2. UNCHANGED <<things, records, desk, holder, sent, afterlife>>
  OBVIOUS
<1>3. ASSUME NEW v \in Threads, at'[v] # "idle" PROVE at[v] # "idle" /\ task'[v].num = task[v].num
  BY <1>1, <1>3
<1>4. ASSUME NEW v \in Threads, at'[v] # "idle" PROVE OwnNumber(v)'
  BY <1>2, <1>3, <1>4 DEF OwnNumber
<1>5. ASSUME NEW v \in Threads, at'[v] # "idle" PROVE Waits(v)'
  <2>1. CASE v = w
    <3>1. Waits(w)
      OBVIOUS
    <3> QED
      BY <1>1, <1>2, <1>5, <2>1, <3>1 DEF Waits, BackedFor
  <2>2. CASE v # w
    BY <1>1, <1>2, <1>5, <2>2 DEF Waits, BackedFor
  <2> QED
    BY <2>1, <2>2
<1>6. DeskAhead' /\ AllBacked(records, things)' /\ Unique(things)'
  BY <1>2 DEF DeskAhead, AllBacked, Unique, RegStep, Register!Enters, Register!Remembers,
              Register!Settles, Register!Backed
<1> QED
  BY <1>2, <1>4, <1>5, <1>6

LEMMA TakesSafe ==
  ASSUME SafeInv, TypeInv', NEW w \in Threads, at[w] # "idle",
         NEW ts, NEW rs, Takes(w, ts, rs),
         NEW j, task' = [task EXCEPT ![w] = j], j.num = task[w].num, j.gone = task[w].gone,
         afterlife' = afterlife,
         RegStep(things, records, ts, rs),
         \A t \in ts : t.id = task[w].num \/ \E u \in things : u.id = t.id
  PROVE  SafeInv'
<1> USE DEF SafeInv
<1>1. /\ at'[w] = "commit" /\ task'[w] = j
      /\ \A v \in Threads \ {w} : at'[v] = at[v] /\ task'[v] = task[v]
  BY DEF Takes, TypeInv, RegistryTypeOK, TasksInv
<1>2. /\ UNCHANGED <<things, records, sent, afterlife>>
      /\ holder' = w /\ desk'.things = ts /\ desk'.records = rs
  BY DEF Takes
<1>3. \A t \in ts : t.id <= sent
  BY DEF OwnNumber
<1>4. DeskAhead'
  BY <1>2, <1>3 DEF DeskAhead, RegStep, Register!Enters, Register!Remembers, Register!Settles,
                    Register!Backed
<1>5. ASSUME NEW v \in Threads, at'[v] # "idle" PROVE OwnNumber(v)'
  <2>1. at[v] # "idle" /\ task'[v].num = task[v].num
    BY <1>1, <1>5
  <2>2. \A u \in Threads : at'[u] # "idle" => at[u] # "idle" /\ task'[u].num = task[u].num
    BY <1>1
  <2>3. v # w => \A t \in ts : t.id # task[v].num
    BY <2>1 DEF OwnNumber
  <2> QED
    BY <1>2, <2>1, <2>2, <2>3 DEF OwnNumber
<1>6. ASSUME NEW v \in Threads, at'[v] # "idle" PROVE Waits(v)'
  BY <1>1, <1>2, <1>6 DEF Waits, BackedFor
<1>7. AllBacked(records, things)' /\ Unique(things)'
  BY <1>2 DEF AllBacked, Unique, Register!Backed
<1> QED
  BY <1>2, <1>4, <1>5, <1>6, <1>7

LEMMA EndsSafe ==
  ASSUME SafeInv, TypeInv', NEW w \in Threads, Ends(w), holder = w
  PROVE  SafeInv'
<1> USE DEF SafeInv
<1>1. /\ at'[w] = "idle"
      /\ \A v \in Threads \ {w} : at'[v] = at[v] /\ task'[v] = task[v]
  BY DEF Ends, TypeInv, RegistryTypeOK, TasksInv
<1>2. /\ things' = desk.things /\ records' = desk.records
      /\ holder' = NoThread /\ UNCHANGED <<sent, afterlife>>
  BY DEF Ends
<1>3. things \in SUBSET ThingType /\ desk.things \in SUBSET ThingType
  BY DEF TypeInv, RegistryTypeOK
<1>4. RegStep(things, records, things', records') /\ \A t \in things' : t.id <= sent
  BY <1>2 DEF DeskAhead
<1>5. Unique(things') /\ AllBacked(records', things') /\ Persists(things, things')
  BY <1>2, <1>3, <1>4, StepKeeps
<1>6. DeskAhead'
  BY <1>2, NoThingInside DEF DeskAhead
<1>7. ASSUME NEW v \in Threads, at'[v] # "idle" PROVE Waits(v)'
  <2>1. v # w /\ at[v] # "idle" /\ at'[v] = at[v] /\ task'[v] = task[v]
    BY <1>1, <1>7
  <2>2. Waits(v)
    BY <2>1
  <2> QED
    BY <1>5, <2>1, <2>2 DEF Waits, Persists, BackedFor
<1>8. ASSUME NEW v \in Threads, at'[v] # "idle" PROVE OwnNumber(v)'
  <2>1. v # w /\ at[v] # "idle" /\ at'[v] = at[v] /\ task'[v] = task[v]
    BY <1>1, <1>8
  <2>2. \A u \in Threads : at'[u] # "idle" => at[u] # "idle" /\ task'[u] = task[u]
    BY <1>1
  <2>3. OwnNumber(v)
    BY <2>1
  <2> QED
    BY <1>2, <2>1, <2>2, <2>3, NoThingInside DEF OwnNumber
<1>9. AllBacked(records, things)' /\ Unique(things)'
  BY <1>5 DEF AllBacked, Unique, Register!Backed
<1> QED
  BY <1>2, <1>4, <1>6, <1>7, <1>8, <1>9

LEMMA BeginSafe ==
  ASSUME SafeInv, TypeInv', NEW w \in Threads, Begin(w)
  PROVE  SafeInv'
<1> USE DEF SafeInv
<1>1. PICK q \in Requests :
        /\ task' = [task EXCEPT ![w] =
             [num |-> sent + 1, org |-> q.org, key |-> q.key, body |-> q.body,
              answer |-> NoAnswer, seen |-> {}, gone |-> SettledIds]]
        /\ Move(w, IF q.key = NoKey THEN FirstRead(q.body) ELSE "lookup")
  BY DEF Begin
<1>2. /\ task'[w] = [num |-> sent + 1, org |-> q.org, key |-> q.key, body |-> q.body,
                     answer |-> NoAnswer, seen |-> {}, gone |-> SettledIds]
      /\ at'[w] \in {"lookup", "check", "insert"}
      /\ at'[w] = "insert" => q.body.kind = "profile"
      /\ \A v \in Threads \ {w} : at'[v] = at[v] /\ task'[v] = task[v]
  BY <1>1 DEF Move, FirstRead, TypeInv, RegistryTypeOK, TasksInv
<1>3. /\ task'[w].num = sent + 1 /\ task'[w].gone = SettledIds /\ task'[w].body = q.body
  BY <1>2
<1>4. /\ UNCHANGED <<things, records, desk, holder, afterlife>>
      /\ sent' = sent + 1 /\ at[w] = "idle" /\ holder # w
  BY DEF Begin, TypeInv, RegistryTypeOK
<1>5. /\ sent \in Nat /\ \A t \in things : t.id \in Nat
      /\ \A t \in desk.things : t.id \in Nat
      /\ \A v \in Threads : at[v] # "idle" => task[v].num \in Nat
  BY DEF TypeInv, RegistryTypeOK, TasksInv, ThingType, TaskType
<1>6. \A t \in things : t.id <= sent' /\ t.id # sent + 1
  BY <1>4, <1>5
<1>7. holder \in Threads => \A t \in desk.things : t.id <= sent' /\ t.id # sent + 1
  BY <1>4, <1>5 DEF DeskAhead
<1>8. DeskAhead'
  BY <1>4, <1>7 DEF DeskAhead, RegStep, Register!Enters, Register!Remembers, Register!Settles,
                    Register!Backed
<1>9. ASSUME NEW v \in Threads, at'[v] # "idle" PROVE OwnNumber(v)'
  <2>1. ASSUME NEW u \in Threads, u # w, at'[u] # "idle"
        PROVE  at[u] # "idle" /\ task'[u].num = task[u].num /\ task[u].num <= sent' /\ task[u].num # sent + 1
    BY <1>2, <1>4, <1>5, <2>1 DEF OwnNumber
  <2>2. CASE v = w
    BY <1>3, <1>4, <1>5, <1>6, <1>7, <2>1, <2>2 DEF OwnNumber
  <2>3. CASE v # w
    <3>1. OwnNumber(v)
      BY <1>9, <2>1, <2>3
    <3> QED
      BY <1>3, <1>4, <1>9, <2>1, <2>3, <3>1 DEF OwnNumber
  <2> QED
    BY <2>2, <2>3
<1>10. ASSUME NEW v \in Threads, at'[v] # "idle" PROVE Waits(v)'
  <2>1. CASE v = w
    <3>1. at'[w] = "insert" => q.body.uses = {}
      BY <1>2, RegistryAssumption
    <3>2. \A n \in SettledIds : \E t \in things : t.id = n /\ t.status = "settled"
      BY DEF SettledIds
    <3> QED
      BY <1>2, <1>3, <1>4, <2>1, <3>1, <3>2 DEF Waits
  <2>2. CASE v # w
    BY <1>2, <1>4, <1>10, <2>2 DEF Waits, BackedFor
  <2> QED
    BY <2>1, <2>2
<1>11. AllBacked(records, things)' /\ Unique(things)'
  BY <1>4 DEF AllBacked, Unique, Register!Backed
<1> QED
  BY <1>4, <1>6, <1>8, <1>9, <1>10, <1>11

(* An update of a record under its own key, or an insert, is a step of the     *)
(* register if the new answer is backed.                                     *)
LEMMA MergeRemembers ==
  ASSUME NEW rs, NEW q, NEW ts, Register!Backed(q, ts)
  PROVE  Register!Remembers(rs, Merged(rs, q), ts)
<1>1. Merged(rs, q) = {r \in rs : Register!Slot(r) # Register!Slot(q)} \union {q}
  BY DEF Merged, Slot
<1>2. q \in Merged(rs, q)
  BY <1>1
<1> QED
  BY <1>1, <1>2 DEF Register!Remembers

LEMMA EnterStep ==
  ASSUME SafeInv, NEW w \in Threads, Enters(w)
  PROVE  RegStep(things, records, things \union {NewThing(w)},
                 IF task[w].key = NoKey THEN records ELSE Merged(records, RecordOf(w, Created(w))))
<1> DEFINE ts == things \union {NewThing(w)}
<1>1. \A u \in things : u.id # NewThing(w).id
  BY DEF SafeInv, OwnNumber, NewThing, Enters
<1>2. Register!Enters(things, ts)
  BY <1>1 DEF Register!Enters, Enters, NewThing
<1>3. Register!Backed(RecordOf(w, Created(w)), ts)
  <2>1. NewThing(w) \in ts /\ NewThing(w).id = task[w].num /\ NewThing(w).org = task[w].org
    BY DEF NewThing
  <2>2. /\ RecordOf(w, Created(w)).answer.thing = task[w].num
        /\ RecordOf(w, Created(w)).org = task[w].org
    BY DEF RecordOf, Created
  <2> HIDE DEF ts
  <2> QED
    BY <2>1, <2>2 DEF Register!Backed
<1>4. Register!Remembers(records, records, ts)
  BY DEF Register!Remembers
<1> HIDE DEF ts
<1>5. Register!Remembers(records, Merged(records, RecordOf(w, Created(w))), ts)
  BY <1>3, MergeRemembers
<1>6. CASE task[w].key = NoKey
  BY <1>2, <1>4, <1>6 DEF RegStep, ts
<1>7. CASE task[w].key # NoKey
  BY <1>2, <1>5, <1>7 DEF RegStep, ts
<1> QED
  BY <1>6, <1>7

LEMMA StoresNewStep ==
  ASSUME SafeInv, NEW w \in Threads, StoresNew(w)
  PROVE  RegStep(things, records, things, records \union {RecordOf(w, task[w].answer)})
<1> DEFINE q == RecordOf(w, task[w].answer)
<1>1. Register!Slot(q) = <<task[w].org, task[w].key>> /\ q.org = task[w].org /\ q.answer = task[w].answer
  BY DEF Register!Slot, RecordOf
<1>2. Merged(records, q) = records \union {q}
  BY <1>1 DEF Merged, Slot, Stored, StoresNew
<1>3. BackedFor(task[w].org, task[w].answer, things)
  BY DEF SafeInv, Waits, StoresNew
<1>4. Register!Backed(q, things)
  BY <1>1, <1>3 DEF BackedFor, Register!Backed, NoThing
<1> HIDE DEF q
<1>5. Register!Remembers(records, records \union {q}, things)
  BY <1>2, <1>4, MergeRemembers
<1> QED
  BY <1>5 DEF RegStep, q

LEMMA StoresOverStep ==
  ASSUME SafeInv, NEW w \in Threads, at[w] = "store_write",
         NEW r \in task[w].seen, NEW cur \in Stored(w)
  PROVE  RegStep(things, records, things, Merged(records, Updated(RecordOf(w, task[w].answer), r, cur)))
<1> DEFINE q == Updated(RecordOf(w, task[w].answer), r, cur)
<1>1. q.org = task[w].org /\ q.answer \in {task[w].answer, cur.answer}
  BY DEF Updated, RecordOf
<1>2. cur.org = task[w].org /\ cur \in records
  BY StoredTyped DEF SafeInv, Stored
<1>3. BackedFor(task[w].org, task[w].answer, things) /\ Register!Backed(cur, things)
  BY <1>2 DEF SafeInv, Waits, AllBacked
<1>4. Register!Backed(q, things)
  BY <1>1, <1>2, <1>3 DEF BackedFor, Register!Backed, NoThing
<1> HIDE DEF q
<1>5. Register!Remembers(records, Merged(records, q), things)
  BY <1>4, MergeRemembers
<1> QED
  BY <1>5 DEF RegStep, q

LEMMA SettlingStep ==
  ASSUME SafeInv, NEW w \in Threads, Settling(w)
  PROVE  /\ RegStep(things, records, SettledAll(w), records)
         /\ \A t \in SettledAll(w) : \E u \in things : u.id = t.id
<1>1. PICK t \in things : task[w].body.uses = {t.id}
  BY DEF SafeInv, Waits, Settling
<1>2. \A u \in things : u.id \in task[w].body.uses <=> u = t
  BY <1>1 DEF SafeInv, Unique
<1>3. SettledAll(w) = (things \ {t}) \union {Register!Settled(t)}
  BY <1>1, <1>2 DEF SettledAll
<1>4. Register!Settled(t).id = t.id
  BY <1>1, SettledTyped DEF SafeInv, TypeInv, RegistryTypeOK
<1> QED
  BY <1>3, <1>4 DEF RegStep, Register!Settles

LEMMA DeskSafe ==
  ASSUME SafeInv, TypeInv', NEW w \in Threads, WritesDesk(w)
  PROVE  SafeInv'
<1>0. at[w] # "idle" /\ task = [task EXCEPT ![w] = task[w]]
  BY SameTask DEF SafeInv, WritesDesk, Enters, StoresNew, StoresOver, Settling
<1>1. CASE Enters(w)
  <2> DEFINE j == [task[w] EXCEPT !.answer = Created(w)]
             ts == things \union {NewThing(w)}
             rs == IF task[w].key = NoKey THEN records ELSE Merged(records, RecordOf(w, Created(w)))
  <2>1. task[w] \in TaskType
    BY <1>0 DEF SafeInv, TypeInv, TasksInv
  <2>2. j.num = task[w].num /\ j.gone = task[w].gone
    BY <2>1 DEF TaskType
  <2>3. task' = [task EXCEPT ![w] = j] /\ Takes(w, ts, rs)
    BY <1>1 DEF Enters
  <2>4. afterlife' = afterlife
    BY <1>0, <1>1 DEF Enters, SafeInv, Waits
  <2>5. RegStep(things, records, ts, rs)
    BY <1>1, EnterStep
  <2>6. \A t \in ts : t.id = task[w].num \/ \E u \in things : u.id = t.id
    BY DEF NewThing
  <2> HIDE DEF j, ts, rs
  <2> QED
    BY <1>0, <2>2, <2>3, <2>4, <2>5, <2>6, TakesSafe
<1>2. CASE StoresNew(w)
  BY <1>0, <1>2, StoresNewStep, TakesSafe DEF StoresNew
<1>3. CASE StoresOver(w)
  <2>1. PICK r \in task[w].seen, cur \in Stored(w) :
          Takes(w, things, Merged(records, Updated(RecordOf(w, task[w].answer), r, cur)))
    BY <1>3 DEF StoresOver
  <2>2. RegStep(things, records, things, Merged(records, Updated(RecordOf(w, task[w].answer), r, cur)))
    BY <1>3, StoresOverStep DEF StoresOver
  <2> QED
    BY <1>0, <1>3, <2>1, <2>2, TakesSafe DEF StoresOver
<1>4. CASE Settling(w)
  BY <1>0, <1>4, SettlingStep, TakesSafe DEF Settling
<1> QED
  BY <1>1, <1>2, <1>3, <1>4 DEF WritesDesk

LEMMA HandleSafe ==
  ASSUME SafeInv, TypeInv', NEW w \in Threads, Handle(w)
  PROVE  SafeInv'
<1> USE DEF SafeInv
<1>0. at[w] # "idle" => task[w] \in TaskType /\ Waits(w)
  BY DEF TypeInv, TasksInv
<1>s. task = [task EXCEPT ![w] = task[w]]
  BY SameTask
<1>p. {"check", "insert", "commit", "store_read", "store_write", "settle"} \subseteq Stops
  BY DEF Stops
<1>q. Quiet(w) => UNCHANGED <<things, records, desk, holder, sent, afterlife>>
  BY DEF Quiet, history
<1>1. CASE Begin(w)
  BY <1>1, BeginSafe
<1>2. CASE Quits(w)
  BY <1>2, <1>q, QuietSafe DEF Quits
<1>3. CASE Misses(w)
  BY <1>3, <1>p, <1>q, <1>s, QuietSafe DEF Misses
<1>4. CASE Replays(w)
  <2>1. PICK r \in Stored(w) : task' = [task EXCEPT ![w].answer = r.answer]
    BY <1>4 DEF Replays
  <2> DEFINE j == [task[w] EXCEPT !.answer = r.answer]
  <2>2. /\ j.num = task[w].num /\ j.gone = task[w].gone
        /\ j.org = task[w].org /\ j.key = task[w].key /\ j.body = task[w].body
    BY <1>4, <1>0 DEF Replays, TaskType
  <2>3. task' = [task EXCEPT ![w] = j]
    BY <2>1
  <2> HIDE DEF j
  <2> QED
    BY <1>4, <1>p, <1>q, <2>2, <2>3, QuietSafe DEF Replays
<1>5. CASE PassesToInsert(w)
  <2>1. task[w].body.uses \intersect task[w].gone = {}
    <3>1. ASSUME NEW n \in task[w].body.uses, n \in task[w].gone PROVE FALSE
      <4>1. PICK t \in things : t.id = n /\ t.status = "settled"
        BY <1>0, <1>5, <3>1 DEF PassesToInsert, Waits
      <4>2. PICK u \in things : u.id = n /\ u.status = "active"
        BY <1>5 DEF PassesToInsert, InService
      <4> QED
        BY <4>1, <4>2 DEF Unique
    <3> QED
      BY <3>1
  <2> QED
    BY <1>5, <1>p, <1>q, <1>s, <2>1, QuietSafe DEF PassesToInsert
<1>6. CASE PassesToSettle(w)
  BY <1>6, <1>p, <1>q, <1>s, QuietSafe DEF PassesToSettle
<1>7. CASE Judges(w)
  <2>1. PICK x : Verdict(w, x) /\ task' = [task EXCEPT ![w].answer = x]
    BY <1>7 DEF Judges
  <2> DEFINE j == [task[w] EXCEPT !.answer = x]
  <2>2. /\ j.num = task[w].num /\ j.gone = task[w].gone
        /\ j.org = task[w].org /\ j.key = task[w].key /\ j.body = task[w].body /\ j.answer = x
    BY <1>7, <1>0 DEF Judges, TaskType
  <2>3. task' = [task EXCEPT ![w] = j]
    BY <2>1
  <2>4. AfterItem(w) \in {"commit", "store_read"}
    BY DEF AfterItem
  <2>5. BackedFor(task[w].org, x, things)
    <3>1. CASE x = NoAnswer
      BY <3>1 DEF NoAnswer, BackedFor, NoThing, Register!NoThing
    <3>2. CASE \E t \in Same(w) : x = [thing |-> t.id, note |-> "duplicate"]
      <4>1. PICK t \in Same(w) : x = [thing |-> t.id, note |-> "duplicate"]
        BY <3>2
      <4>2. t \in things /\ t.org = task[w].org
        BY DEF Same, Register!Identity
      <4> QED
        BY <4>1, <4>2 DEF BackedFor
    <3> QED
      BY <2>1, <3>1, <3>2 DEF Verdict
  <2> HIDE DEF j
  <2> QED
    BY <1>7, <1>p, <1>q, <2>2, <2>3, <2>4, <2>5, QuietSafe DEF Judges
<1>8. CASE ReadsRecord(w)
  <2> DEFINE j == [task[w] EXCEPT !.seen = Stored(w)]
  <2>1. /\ j.num = task[w].num /\ j.gone = task[w].gone /\ j.answer = task[w].answer
        /\ j.org = task[w].org /\ j.key = task[w].key /\ j.body = task[w].body
    BY <1>8, <1>0 DEF ReadsRecord, TaskType
  <2>2. task' = [task EXCEPT ![w] = j]
    BY <1>8 DEF ReadsRecord
  <2>3. BackedFor(task[w].org, task[w].answer, things)
    BY <1>0, <1>8 DEF ReadsRecord, Waits
  <2> HIDE DEF j
  <2> QED
    BY <1>8, <1>p, <1>q, <2>1, <2>2, <2>3, QuietSafe DEF ReadsRecord
<1>9. CASE Leaves(w)
  BY <1>9, <1>p, <1>q, <1>s, QuietSafe DEF Leaves
<1>10. CASE WritesDesk(w)
  BY <1>10, DeskSafe
<1>11. CASE Ends(w) /\ holder = w
  BY <1>11, EndsSafe
<1>12. CASE Ends(w) /\ holder # w
  BY <1>12, QuietSafe DEF Ends
<1> QED
  BY Shapes, <1>1, <1>2, <1>3, <1>4, <1>5, <1>6, <1>7, <1>8, <1>9, <1>10, <1>11, <1>12

LEMMA SafeStep ==
  ASSUME SafeInv, [RegistryNext]_registryVars
  PROVE  SafeInv'
<1>t. TypeInv'
  BY TypeStep DEF SafeInv
<1>1. CASE \E w \in Threads : Handle(w)
  BY <1>1, <1>t, HandleSafe
<1>2. CASE Die
  <2>1. /\ UNCHANGED <<things, records, sent, afterlife>>
        /\ holder' = NoThread /\ \A w \in Threads : at'[w] = "idle"
    BY <1>2 DEF Die, history
  <2>2. AllBacked(records, things)' /\ Unique(things)' /\ DeskAhead'
    BY <2>1, NoThingInside DEF SafeInv, AllBacked, Unique, DeskAhead, Register!Backed
  <2> QED
    BY <1>t, <2>1, <2>2 DEF SafeInv
<1>3. CASE UNCHANGED registryVars
  <2>1. DeskAhead' /\ AllBacked(records, things)' /\ Unique(things)'
    BY <1>3 DEF registryVars, SafeInv, DeskAhead, AllBacked, Unique, RegStep, Register!Enters,
                Register!Remembers, Register!Settles, Register!Backed
  <2>2. \A w \in Threads : at'[w] # "idle" => Waits(w)' /\ OwnNumber(w)'
    BY <1>3 DEF registryVars, SafeInv, Waits, OwnNumber, BackedFor
  <2> QED
    BY <1>3, <1>t, <2>1, <2>2 DEF registryVars, SafeInv
<1> QED
  BY <1>1, <1>2, <1>3 DEF RegistryNext

LEMMA SafeInit ==
  ASSUME RegistryInit
  PROVE  SafeInv
BY TypeInit, NoThingInside DEF RegistryInit, SafeInv, Unique, AllBacked, DeskAhead, NoDesk

(* The tables change only when the holder of the lock commits.               *)
LEMMA RegisterStep ==
  ASSUME SafeInv, [RegistryNext]_registryVars
  PROVE  [Register!Next]_<<things, records>>
<1>1. CASE \E w \in Threads : Handle(w)
  <2>1. PICK w \in Threads : Handle(w)
    BY <1>1
  <2>2. CASE Ends(w) /\ holder = w
    <3>1. RegStep(things, records, things', records')
      BY <2>2, NoThingInside DEF Ends, SafeInv, DeskAhead
    <3> QED
      BY <3>1 DEF RegStep, Register!Next
  <2>3. CASE ~ (Ends(w) /\ holder = w)
    <3>1. UNCHANGED <<things, records>>
      BY <2>1, <2>3, Shapes DEF SafeInv, Begin, Quits, Misses, Replays, PassesToInsert, PassesToSettle,
         Judges, ReadsRecord, Leaves, WritesDesk, Enters, StoresNew, StoresOver, Settling, Takes, Ends, Quiet
    <3> QED
      BY <3>1
  <2> QED
    BY <2>2, <2>3
<1>2. CASE Die
  BY <1>2 DEF Die
<1>3. CASE UNCHANGED registryVars
  BY <1>3 DEF registryVars
<1> QED
  BY <1>1, <1>2, <1>3 DEF RegistryNext

(* The concurrent requests implement the register of names: however they race, *)
(* fail and die, what is committed is one thing per name, never taken back,   *)
(* and remembered answers that name what is stored.                          *)
THEOREM Refinement == RegistrySpec => KeepsRegister
<1>1. RegistryInit => SafeInv
  BY SafeInit
<1>2. SafeInv /\ [RegistryNext]_registryVars => SafeInv'
  BY SafeStep
<1>3. RegistryInit => Register!Init
  BY DEF RegistryInit, Register!Init
<1>4. SafeInv /\ [RegistryNext]_registryVars => [Register!Next]_<<things, records>>
  BY RegisterStep
<1> QED
  BY <1>1, <1>2, <1>3, <1>4, PTL DEF RegistrySpec, KeepsRegister, Register!Spec

(* A request that comes after a device's retirement enters nothing for it.    *)
THEOREM RetiredStays == RegistrySpec => []NothingAfterRetirement
<1>1. RegistryInit => SafeInv
  BY SafeInit
<1>2. SafeInv /\ [RegistryNext]_registryVars => SafeInv'
  BY SafeStep
<1>3. SafeInv => NothingAfterRetirement
  BY DEF SafeInv, NothingAfterRetirement
<1> QED
  BY <1>1, <1>2, <1>3, PTL DEF RegistrySpec

-----------------------------------------------------------------------------
(* What idempotency keys promise. *)

MySlot(w) == <<task[w].org, task[w].key>>

Keyed(w) == at[w] # "idle" /\ task[w].key # NoKey

(* w serves the only request with its key since the key was first used. *)
Lone(w) == Keyed(w) /\ MySlot(w) \notin raced

OneEach(rs) == \A p, q \in rs : Slot(p) = Slot(q) => p = q

(* Answers under keys that were not raced name what the request asked for. *)
Honest(rs, ts) ==
  \A r \in rs : r.answer.thing # NoThing /\ Slot(r) \notin raced =>
    \E t \in ts : t.id = r.answer.thing /\ t.body = r.body

(* Two requests in progress with one key have raced. *)
RacesSeen ==
  \A v, w \in Threads :
    v # w /\ Keyed(v) /\ Keyed(w) /\ MySlot(v) = MySlot(w) => MySlot(v) \in raced

(* The draft of the holder differs from the records only under its own key. *)
OwnKey(w) ==
  /\ OneEach(desk.records) /\ Honest(desk.records, desk.things)
  /\ \A r \in records \union desk.records :
       Slot(r) # MySlot(w) => (r \in desk.records <=> r \in records)

(* What a lone request has found under its key, and what it leaves there. *)
Alone(w) ==
  /\ at[w] \in {"lookup", "check", "insert", "store_read", "store_write"} => task[w].seen = {}
  /\ at[w] \in {"check", "insert", "store_read", "store_write"} => Stored(w) = {}
  /\ at[w] \in {"store_read", "store_write"} /\ task[w].answer.thing # NoThing =>
       \E t \in things : t.id = task[w].answer.thing /\ t.body = task[w].body
  /\ at[w] = "commit" => IF holder = w
                           THEN Stored(w) = {} /\ RecordOf(w, task[w].answer) \in desk.records
                           ELSE RecordOf(w, task[w].answer) \in records

KeyInv ==
  /\ SafeInv
  /\ OneEach(records) /\ Honest(records, things)
  /\ RacesSeen
  /\ holder \in Threads => OwnKey(holder)
  /\ \A w \in Threads : Lone(w) => Alone(w)
  /\ \A p \in answered : Slot(p) \notin raced => p \in records

LEMMA SlotIs == ASSUME NEW r PROVE Slot(r) = <<r.org, r.key>>
BY DEF Slot, Register!Slot

LEMMA QuietKey ==
  ASSUME KeyInv, SafeInv', NEW w \in Threads, at[w] # "idle", NEW place, NEW j,
         UNCHANGED <<things, records, desk, holder, answered, raced>>, holder # w,
         at' = [at EXCEPT ![w] = place], task' = [task EXCEPT ![w] = j],
         place # "idle" => j.org = task[w].org /\ j.key = task[w].key /\ j.body = task[w].body,
         place # "lookup",
         Lone(w) =>
           /\ place \in {"check", "insert", "store_read", "store_write"} => j.seen = {} /\ Stored(w) = {}
           /\ place \in {"store_read", "store_write"} /\ j.answer.thing # NoThing =>
                \E t \in things : t.id = j.answer.thing /\ t.body = j.body
           /\ place = "commit" => RecordOf(w, j.answer) \in records
  PROVE  KeyInv'
<1> USE DEF KeyInv
<1>1. /\ at'[w] = place /\ task'[w] = j
      /\ \A v \in Threads \ {w} : at'[v] = at[v] /\ task'[v] = task[v]
  BY DEF SafeInv, TypeInv, RegistryTypeOK, TasksInv
<1>2. ASSUME NEW v \in Threads, Keyed(v)' PROVE Keyed(v) /\ MySlot(v)' = MySlot(v)
  BY <1>1, <1>2 DEF Keyed, MySlot
<1>3. RacesSeen'
  BY <1>2 DEF RacesSeen
<1>4. ASSUME NEW v \in Threads, Lone(v)' PROVE Alone(v)'
  <2>1. Lone(v) /\ Stored(v)' = Stored(v)
    <3>1. Keyed(v) /\ MySlot(v)' = MySlot(v)
      BY <1>2, <1>4 DEF Lone
    <3> QED
      BY <1>4, <3>1 DEF Lone, Stored, MySlot
  <2>2. CASE v = w
    <3>1. at'[w] = "commit" => RecordOf(w, task[w].answer)' \in records
      <4>1. j.org = task[w].org /\ j.key = task[w].key /\ j.body = task[w].body
        BY <1>1, <1>4, <2>2 DEF Lone, Keyed
      <4>2. RecordOf(w, task[w].answer)' = RecordOf(w, j.answer)
        BY <1>1, <4>1 DEF RecordOf
      <4> QED
        BY <1>1, <2>1, <2>2, <4>2
    <3> QED
      BY <1>1, <2>1, <2>2, <3>1 DEF Alone
  <2>3. CASE v # w
    BY <1>1, <2>1, <2>3 DEF Alone, RecordOf
  <2> QED
    BY <2>2, <2>3
<1>5. holder' \in Threads => OwnKey(holder)'
  <2>1. ASSUME holder \in Threads PROVE MySlot(holder)' = MySlot(holder)
    BY <1>1, <2>1 DEF MySlot
  <2> QED
    BY <2>1 DEF OwnKey, OneEach, Honest
<1>6. OneEach(records)' /\ Honest(records, things)'
  BY DEF OneEach, Honest
<1> QED
  BY <1>3, <1>4, <1>5, <1>6

LEMMA TakesKey ==
  ASSUME KeyInv, SafeInv', NEW w \in Threads, at[w] # "idle",
         NEW ts, NEW rs, Takes(w, ts, rs),
         NEW j, task' = [task EXCEPT ![w] = j],
         j.org = task[w].org, j.key = task[w].key, j.body = task[w].body,
         OneEach(rs), Honest(rs, ts),
         \A r \in records \union rs : Slot(r) # MySlot(w) => (r \in rs <=> r \in records),
         Lone(w) => Stored(w) = {} /\ RecordOf(w, j.answer) \in rs
  PROVE  KeyInv'
<1> USE DEF KeyInv
<1>1. /\ at'[w] = "commit" /\ task'[w] = j
      /\ \A v \in Threads \ {w} : at'[v] = at[v] /\ task'[v] = task[v]
  BY DEF Takes, SafeInv, TypeInv, RegistryTypeOK, TasksInv
<1>2. /\ UNCHANGED <<things, records, answered, raced>>
      /\ holder = NoThread /\ holder' = w /\ desk'.things = ts /\ desk'.records = rs
  BY DEF Takes
<1>3. ASSUME NEW v \in Threads
      PROVE  MySlot(v)' = MySlot(v) /\ (Keyed(v)' <=> Keyed(v)) /\ (Lone(v)' <=> Lone(v)) /\ Stored(v)' = Stored(v)
  BY <1>1, <1>2 DEF Keyed, MySlot, Lone, Stored
<1>4. RacesSeen'
  BY <1>2, <1>3 DEF RacesSeen
<1>5. ASSUME NEW v \in Threads, Lone(v)' PROVE Alone(v)'
  <2>1. CASE v = w
    <3>1. RecordOf(w, task[w].answer)' = RecordOf(w, j.answer)
      BY <1>1 DEF RecordOf
    <3> QED
      BY <1>1, <1>2, <1>3, <1>5, <2>1, <3>1 DEF Alone
  <2>2. CASE v # w
    BY <1>1, <1>2, <1>3, <1>5, <2>2, NoThingInside DEF Alone, RecordOf
  <2> QED
    BY <2>1, <2>2
<1>6. OwnKey(w)'
  BY <1>2, <1>3 DEF OwnKey, OneEach, Honest
<1>7. OneEach(records)' /\ Honest(records, things)'
  BY <1>2 DEF OneEach, Honest
<1> QED
  BY <1>2, <1>4, <1>5, <1>6, <1>7

LEMMA EndsKey ==
  ASSUME KeyInv, SafeInv', NEW w \in Threads, Ends(w), holder = w
  PROVE  KeyInv'
<1> USE DEF KeyInv
<1>1. /\ at'[w] = "idle" /\ at[w] = "commit"
      /\ \A v \in Threads \ {w} : at'[v] = at[v] /\ task'[v] = task[v]
  BY DEF Ends, SafeInv, TypeInv, RegistryTypeOK, TasksInv
<1>2. /\ things' = desk.things /\ records' = desk.records
      /\ holder' = NoThread /\ raced' = raced
  BY DEF Ends
<1>3. Persists(things, things')
  BY <1>2, StepKeeps DEF SafeInv, DeskAhead, TypeInv, RegistryTypeOK
<1>4. ASSUME NEW v \in Threads, Keyed(v)' PROVE v # w /\ Keyed(v) /\ MySlot(v)' = MySlot(v)
  BY <1>1, <1>4 DEF Keyed, MySlot
<1>5. RacesSeen'
  BY <1>2, <1>4 DEF RacesSeen
<1>6. \A r \in records \union records' : Slot(r) # MySlot(w) => (r \in records' <=> r \in records)
  BY <1>2 DEF OwnKey
<1>7. ASSUME NEW v \in Threads, Lone(v)' PROVE Alone(v)'
  <2>1. /\ v # w /\ Keyed(v) /\ MySlot(v)' = MySlot(v) /\ Lone(v)
        /\ at'[v] = at[v] /\ task'[v] = task[v]
    BY <1>1, <1>2, <1>4, <1>7 DEF Lone
  <2>2. MySlot(v) # MySlot(w)
    BY <1>1, <2>1 DEF RacesSeen, Keyed, Lone, MySlot
  <2>3. Stored(v)' = Stored(v)
    BY <1>6, <2>1, <2>2 DEF Stored, MySlot
  <2>4. Alone(v)
    BY <2>1
  <2>5. at[v] = "commit" => RecordOf(v, task[v].answer) \in records'
    <3>1. Slot(RecordOf(v, task[v].answer)) = MySlot(v)
      BY SlotIs DEF RecordOf, MySlot
    <3> QED
      BY <1>6, <2>1, <2>2, <2>4, <3>1 DEF Alone
  <2>6. RecordOf(v, task[v].answer)' = RecordOf(v, task[v].answer)
    BY <2>1 DEF RecordOf
  <2> QED
    BY <1>2, <1>3, <2>1, <2>3, <2>4, <2>5, <2>6, NoThingInside DEF Alone, Persists
<1>8. ASSUME NEW p \in answered', Slot(p) \notin raced' PROVE p \in records'
  <2>1. CASE p \in answered
    <3>1. p \in records /\ p \in RecordType
      BY <1>2, <1>8, <2>1 DEF SafeInv, TypeInv, RegistryTypeOK
    <3>2. ASSUME Slot(p) = MySlot(w) PROVE FALSE
      <4>1. Slot(p) = <<p.org, p.key>> /\ p.key # NoKey
        BY <3>1, SlotIs, NoThingInside DEF RecordType
      <4>2. Lone(w)
        BY <1>1, <1>2, <1>8, <3>2, <4>1 DEF Lone, Keyed, MySlot
      <4>3. p \in Stored(w)
        BY <3>1, <3>2 DEF Stored, MySlot
      <4> QED
        BY <1>1, <4>2, <4>3 DEF Alone
    <3> QED
      BY <1>6, <3>1, <3>2
  <2>2. CASE p \notin answered
    <3>1. task[w].key # NoKey /\ p = RecordOf(w, task[w].answer)
      BY <1>8, <2>2 DEF Ends
    <3>2. Slot(p) = MySlot(w)
      BY <3>1, SlotIs DEF RecordOf, MySlot
    <3>3. Lone(w)
      BY <1>1, <1>2, <1>8, <3>1, <3>2 DEF Lone, Keyed
    <3> QED
      BY <1>1, <1>2, <3>1, <3>3 DEF Alone
  <2> QED
    BY <2>1, <2>2
<1>9. OneEach(records)' /\ Honest(records, things)'
  BY <1>2 DEF OwnKey, OneEach, Honest
<1> QED
  BY <1>2, <1>5, <1>7, <1>8, <1>9, NoThingInside

LEMMA EndsUnwritten ==
  ASSUME KeyInv, SafeInv', NEW w \in Threads, Ends(w), holder # w
  PROVE  KeyInv'
<1> USE DEF KeyInv
<1>1. /\ at'[w] = "idle" /\ at[w] = "commit"
      /\ \A v \in Threads \ {w} : at'[v] = at[v] /\ task'[v] = task[v]
  BY DEF Ends, SafeInv, TypeInv, RegistryTypeOK, TasksInv
<1>2. UNCHANGED <<things, records, desk, holder, raced>>
  BY DEF Ends
<1>3. ASSUME NEW v \in Threads, Keyed(v)'
      PROVE  v # w /\ Keyed(v) /\ MySlot(v)' = MySlot(v) /\ at'[v] = at[v] /\ task'[v] = task[v]
  BY <1>1, <1>3 DEF Keyed, MySlot
<1>4. RacesSeen'
  BY <1>2, <1>3 DEF RacesSeen
<1>5. ASSUME NEW v \in Threads, Lone(v)' PROVE Alone(v)'
  <2>1. Lone(v) /\ Stored(v)' = Stored(v) /\ at'[v] = at[v] /\ task'[v] = task[v]
    <3>1. Keyed(v) /\ MySlot(v)' = MySlot(v) /\ at'[v] = at[v] /\ task'[v] = task[v]
      BY <1>3, <1>5 DEF Lone
    <3> QED
      BY <1>2, <1>5, <3>1 DEF Lone, Stored, MySlot
  <2> QED
    BY <1>2, <2>1 DEF Alone, RecordOf
<1>6. ASSUME NEW p \in answered', Slot(p) \notin raced' PROVE p \in records'
  <2>1. CASE p \in answered
    BY <1>2, <1>6, <2>1
  <2>2. CASE p \notin answered
    <3>1. task[w].key # NoKey /\ p = RecordOf(w, task[w].answer)
      BY <1>6, <2>2 DEF Ends
    <3>2. Slot(p) = MySlot(w)
      BY <3>1, SlotIs DEF RecordOf, MySlot
    <3>3. Lone(w)
      BY <1>1, <1>2, <1>6, <3>1, <3>2 DEF Lone, Keyed
    <3> QED
      BY <1>1, <1>2, <3>1, <3>3 DEF Alone
  <2> QED
    BY <2>1, <2>2
<1>7. holder' \in Threads => OwnKey(holder)'
  <2>1. ASSUME holder \in Threads PROVE MySlot(holder)' = MySlot(holder)
    BY <1>1, <1>2, <2>1 DEF MySlot
  <2> QED
    BY <1>2, <2>1 DEF OwnKey, OneEach, Honest
<1>8. OneEach(records)' /\ Honest(records, things)'
  BY <1>2 DEF OneEach, Honest
<1> QED
  BY <1>4, <1>5, <1>6, <1>7, <1>8

LEMMA BeginKey ==
  ASSUME KeyInv, SafeInv', NEW w \in Threads, Begin(w)
  PROVE  KeyInv'
<1> USE DEF KeyInv
<1>1. PICK q \in Requests :
        /\ task' = [task EXCEPT ![w] =
             [num |-> sent + 1, org |-> q.org, key |-> q.key, body |-> q.body,
              answer |-> NoAnswer, seen |-> {}, gone |-> SettledIds]]
        /\ Move(w, IF q.key = NoKey THEN FirstRead(q.body) ELSE "lookup")
        /\ raced' = IF q.key # NoKey /\ InFlight(q) THEN raced \union {<<q.org, q.key>>} ELSE raced
  BY DEF Begin
<1>2. /\ task'[w] = [num |-> sent + 1, org |-> q.org, key |-> q.key, body |-> q.body,
                     answer |-> NoAnswer, seen |-> {}, gone |-> SettledIds]
      /\ q.key # NoKey => at'[w] = "lookup"
      /\ \A v \in Threads \ {w} : at'[v] = at[v] /\ task'[v] = task[v]
  BY <1>1 DEF Move, SafeInv, TypeInv, RegistryTypeOK, TasksInv
<1>3. task'[w].org = q.org /\ task'[w].key = q.key /\ task'[w].seen = {}
  BY <1>2
<1>4. /\ UNCHANGED <<things, records, desk, holder, answered>>
      /\ raced \subseteq raced' /\ at[w] = "idle" /\ holder # w
  BY <1>1 DEF Begin, SafeInv, TypeInv, RegistryTypeOK
<1>5. ASSUME NEW v \in Threads, v # w
      PROVE  MySlot(v)' = MySlot(v) /\ (Keyed(v)' <=> Keyed(v)) /\ Stored(v)' = Stored(v)
  BY <1>2, <1>4, <1>5 DEF Keyed, MySlot, Stored
<1>6. MySlot(w)' = <<q.org, q.key>> /\ (Keyed(w)' => q.key # NoKey)
  BY <1>3 DEF MySlot, Keyed
<1>7. ASSUME NEW v \in Threads, v # w, Keyed(v)', Keyed(w)', MySlot(v)' = MySlot(w)'
      PROVE  MySlot(w)' \in raced'
  <2>1. Keyed(v) /\ MySlot(v) = <<q.org, q.key>> /\ q.key # NoKey
    BY <1>5, <1>6, <1>7
  <2>2. InFlight(q)
    BY <2>1 DEF InFlight, Keyed, MySlot
  <2> QED
    BY <1>1, <1>6, <2>1, <2>2
<1>8. RacesSeen'
  <2> SUFFICES ASSUME NEW u \in Threads, NEW v \in Threads, u # v, Keyed(u)', Keyed(v)',
                      MySlot(u)' = MySlot(v)'
               PROVE  MySlot(u)' \in raced'
    BY DEF RacesSeen
  <2>1. CASE u = w \/ v = w
    BY <1>7, <2>1
  <2>2. CASE u # w /\ v # w
    BY <1>4, <1>5, <2>2 DEF RacesSeen
  <2> QED
    BY <2>1, <2>2
<1>9. ASSUME NEW v \in Threads, Lone(v)' PROVE Alone(v)'
  <2>1. CASE v = w
    <3>1. at'[w] = "lookup"
      BY <1>2, <1>6, <1>9, <2>1 DEF Lone
    <3> QED
      BY <1>3, <2>1, <3>1 DEF Alone
  <2>2. CASE v # w
    <3>1. Lone(v) /\ Stored(v)' = Stored(v)
      BY <1>4, <1>5, <1>9, <2>2 DEF Lone
    <3>2. Alone(v)
      BY <3>1
    <3> QED
      BY <1>2, <1>4, <2>2, <3>1, <3>2 DEF Alone, RecordOf
  <2> QED
    BY <2>1, <2>2
<1>10. holder' \in Threads => OwnKey(holder)'
  <2>1. ASSUME holder \in Threads PROVE MySlot(holder)' = MySlot(holder)
    BY <1>4, <1>5, <2>1
  <2> QED
    BY <1>4, <2>1 DEF OwnKey, OneEach, Honest
<1>11. OneEach(records)' /\ Honest(records, things)'
  BY <1>4 DEF OneEach, Honest
<1>12. \A p \in answered' : Slot(p) \notin raced' => p \in records'
  BY <1>4
<1> QED
  BY <1>8, <1>9, <1>10, <1>11, <1>12

(* A record put under its key leaves one record per key. *)
LEMMA MergedOne ==
  ASSUME NEW rs, OneEach(rs), NEW q
  PROVE  /\ OneEach(Merged(rs, q)) /\ q \in Merged(rs, q)
         /\ \A r \in rs \union Merged(rs, q) : Slot(r) # Slot(q) => (r \in Merged(rs, q) <=> r \in rs)
         /\ \A r \in Merged(rs, q) : r = q \/ r \in rs
BY DEF Merged, OneEach

LEMMA HonestMore ==
  ASSUME NEW rs, NEW ts, Honest(rs, ts), NEW us, Persists(ts, us)
  PROVE  Honest(rs, us)
BY DEF Honest, Persists

LEMMA EntersKey ==
  ASSUME KeyInv, SafeInv', NEW w \in Threads, Enters(w)
  PROVE  KeyInv'
<1> DEFINE q == RecordOf(w, Created(w))
           ts == things \union {NewThing(w)}
           rs == IF task[w].key = NoKey THEN records ELSE Merged(records, q)
           j == [task[w] EXCEPT !.answer = Created(w)]
<1>1. at[w] = "insert" /\ at[w] # "idle" /\ task[w] \in TaskType
  BY DEF Enters, KeyInv, SafeInv, TypeInv, TasksInv
<1>2. /\ j.org = task[w].org /\ j.key = task[w].key /\ j.body = task[w].body
      /\ j.answer = Created(w)
  BY <1>1 DEF TaskType
<1>3. task' = [task EXCEPT ![w] = j] /\ Takes(w, ts, rs)
  BY DEF Enters
<1>4. Slot(q) = MySlot(w) /\ q.answer.thing = task[w].num /\ q.body = task[w].body
  BY SlotIs DEF RecordOf, MySlot, Created
<1>5. NewThing(w) \in ts /\ NewThing(w).id = task[w].num /\ NewThing(w).body = task[w].body
  BY DEF NewThing
<1>6. Honest(records, ts)
  BY DEF KeyInv, Honest
<1>7. OneEach(records)
  BY DEF KeyInv
<1> HIDE DEF q, ts, j
<1>8. OneEach(rs) /\ Honest(rs, ts)
  <2>1. Honest(Merged(records, q), ts)
    BY <1>4, <1>5, <1>6, <1>7, MergedOne DEF Honest
  <2> QED
    BY <1>6, <1>7, <2>1, MergedOne
<1>9. \A r \in records \union rs : Slot(r) # MySlot(w) => (r \in rs <=> r \in records)
  BY <1>4, <1>7, MergedOne
<1>10. Lone(w) => Stored(w) = {} /\ RecordOf(w, j.answer) \in rs
  <2>1. Lone(w) => Stored(w) = {} /\ task[w].key # NoKey
    BY <1>1 DEF KeyInv, Alone, Lone, Keyed
  <2>2. RecordOf(w, j.answer) = q
    BY <1>2 DEF q
  <2> QED
    BY <1>7, <2>1, <2>2, MergedOne
<1> HIDE DEF rs
<1> QED
  BY <1>1, <1>2, <1>3, <1>8, <1>9, <1>10, TakesKey

LEMMA DeskKey ==
  ASSUME KeyInv, SafeInv', NEW w \in Threads, WritesDesk(w)
  PROVE  KeyInv'
<1> DEFINE q == RecordOf(w, task[w].answer)
<1>0. /\ at[w] # "idle" /\ task = [task EXCEPT ![w] = task[w]]
      /\ OneEach(records) /\ Honest(records, things)
  BY SameTask DEF KeyInv, SafeInv, WritesDesk, Enters, StoresNew, StoresOver, Settling
<1>q. Slot(q) = MySlot(w) /\ q.answer = task[w].answer /\ q.body = task[w].body
  BY SlotIs DEF RecordOf, MySlot
<1>k. at[w] = "store_write" => Keyed(w)
  BY DEF KeyInv, SafeInv, TypeInv, TasksInv, Keyed
<1>l. Lone(w) => Alone(w)
  BY DEF KeyInv
<1>1. CASE Enters(w)
  BY <1>1, EntersKey
<1>2. CASE StoresNew(w)
  <2>1. Merged(records, q) = records \union {q}
    BY <1>q, <1>2 DEF Merged, Stored, MySlot, StoresNew
  <2>2. Honest(records \union {q}, things)
    <3>1. ASSUME q.answer.thing # NoThing, Slot(q) \notin raced
          PROVE  \E t \in things : t.id = q.answer.thing /\ t.body = q.body
      <4>1. Lone(w)
        BY <1>q, <1>k, <1>2, <3>1 DEF Lone, StoresNew
      <4> QED
        BY <1>q, <1>l, <1>2, <3>1, <4>1 DEF Alone, StoresNew
    <3> HIDE DEF q
    <3> QED
      BY <1>0, <3>1 DEF Honest
  <2>3. /\ OneEach(records \union {q})
        /\ \A r \in records \union (records \union {q}) :
             Slot(r) # MySlot(w) => (r \in records \union {q} <=> r \in records)
    <3> HIDE DEF q
    <3>1. OneEach(Merged(records, q))
      BY <1>0, MergedOne
    <3> QED
      BY <1>q, <2>1, <3>1
  <2>4. Lone(w) => Stored(w) = {} /\ RecordOf(w, task[w].answer) \in records \union {q}
    BY <1>2 DEF StoresNew
  <2> QED
    BY <1>0, <1>2, <2>2, <2>3, <2>4, TakesKey DEF StoresNew
<1>3. CASE StoresOver(w)
  <2>1. PICK r \in task[w].seen, cur \in Stored(w) : Takes(w, things, Merged(records, Updated(q, r, cur)))
    BY <1>3 DEF StoresOver
  <2> DEFINE u == Updated(q, r, cur)
  <2>2. Slot(u) = MySlot(w)
    BY SlotIs DEF Updated, RecordOf, MySlot
  <2>3. ~ Lone(w)
    BY <1>l, <1>3, <2>1 DEF Alone, StoresOver
  <2>4. Slot(u) \in raced
    BY <1>k, <1>3, <2>2, <2>3 DEF Lone, StoresOver
  <2> HIDE DEF u
  <2>5. Honest(Merged(records, u), things)
    BY <1>0, <2>4, MergedOne DEF Honest
  <2>6. /\ OneEach(Merged(records, u))
        /\ \A p \in records \union Merged(records, u) :
             Slot(p) # MySlot(w) => (p \in Merged(records, u) <=> p \in records)
    BY <1>0, <2>2, MergedOne
  <2>7. Takes(w, things, Merged(records, u)) /\ UNCHANGED task
    BY <1>3, <2>1 DEF u, StoresOver
  <2> QED
    BY <1>0, <2>3, <2>5, <2>6, <2>7, TakesKey
<1>4. CASE Settling(w)
  <2>1. RegStep(things, records, SettledAll(w), records)
    BY <1>4, SettlingStep DEF KeyInv
  <2>2. things \in SUBSET ThingType /\ SettledAll(w) \in SUBSET ThingType
    BY SettledTyped DEF KeyInv, SafeInv, TypeInv, RegistryTypeOK, SettledAll
  <2>3. Persists(things, SettledAll(w))
    BY <2>1, <2>2, StepKeeps DEF KeyInv, SafeInv
  <2>4. Honest(records, SettledAll(w))
    BY <1>0, <2>3, HonestMore
  <2>5. ~ Lone(w)
    BY <1>4, RegistryAssumption DEF Settling, Lone, Keyed, KeyInv, SafeInv, TypeInv, TasksInv
  <2> QED
    BY <1>0, <1>4, <2>4, <2>5, TakesKey DEF Settling
<1> QED
  BY <1>1, <1>2, <1>3, <1>4 DEF WritesDesk

LEMMA HandleKey ==
  ASSUME KeyInv, SafeInv', NEW w \in Threads, Handle(w)
  PROVE  KeyInv'
<1>0. at[w] # "idle" => task[w] \in TaskType
  BY DEF KeyInv, SafeInv, TypeInv, TasksInv
<1>l. Lone(w) => Alone(w)
  BY DEF KeyInv
<1>s. task = [task EXCEPT ![w] = task[w]]
  BY SameTask DEF KeyInv, SafeInv
<1>q. Quiet(w) => holder # w /\ UNCHANGED <<things, records, desk, holder, answered, raced>>
  BY DEF Quiet, history
<1>1. CASE Begin(w)
  BY <1>1, BeginKey
<1>2. CASE Quits(w)
  BY <1>2, <1>q, QuietKey DEF Quits
<1>3. CASE Misses(w)
  <2>1. Lone(w) => task[w].seen = {} /\ Stored(w) = {}
    BY <1>3, <1>l DEF Misses, Alone
  <2> QED
    BY <1>3, <1>q, <1>s, <2>1, QuietKey DEF Misses
<1>4. CASE Replays(w)
  <2>1. PICK r \in Stored(w) : r.body = task[w].body /\ task' = [task EXCEPT ![w].answer = r.answer]
    BY <1>4 DEF Replays
  <2> DEFINE j == [task[w] EXCEPT !.answer = r.answer]
  <2>2. /\ j.org = task[w].org /\ j.key = task[w].key /\ j.body = task[w].body
        /\ j.answer = r.answer
    BY <1>4, <1>0 DEF Replays, TaskType
  <2>3. task' = [task EXCEPT ![w] = j]
    BY <2>1
  <2>4. /\ r \in records /\ r.org = task[w].org /\ r.key = task[w].key
        /\ r = [org |-> r.org, key |-> r.key, body |-> r.body, answer |-> r.answer]
    BY StoredTyped DEF KeyInv, SafeInv, Stored, RecordType
  <2> HIDE DEF j
  <2>5. RecordOf(w, j.answer) \in records
    BY <2>1, <2>2, <2>4 DEF RecordOf
  <2> QED
    BY <1>4, <1>q, <2>2, <2>3, <2>5, QuietKey DEF Replays
<1>5. CASE PassesToInsert(w)
  <2>1. Lone(w) => task[w].seen = {} /\ Stored(w) = {}
    BY <1>5, <1>l DEF PassesToInsert, Alone
  <2> QED
    BY <1>5, <1>q, <1>s, <2>1, QuietKey DEF PassesToInsert
<1>6. CASE PassesToSettle(w)
  BY <1>6, <1>q, <1>s, QuietKey DEF PassesToSettle
<1>7. CASE Judges(w)
  <2>1. PICK x : Verdict(w, x) /\ task' = [task EXCEPT ![w].answer = x]
    BY <1>7 DEF Judges
  <2> DEFINE j == [task[w] EXCEPT !.answer = x]
  <2>2. /\ j.org = task[w].org /\ j.key = task[w].key /\ j.body = task[w].body
        /\ j.answer = x /\ j.seen = task[w].seen
    BY <1>7, <1>0 DEF Judges, TaskType
  <2>3. task' = [task EXCEPT ![w] = j]
    BY <2>1
  <2>4. Lone(w) => AfterItem(w) = "store_read"
    BY DEF AfterItem, Lone, Keyed
  <2>5. Lone(w) => task[w].seen = {} /\ Stored(w) = {}
    BY <1>7, <1>l DEF Judges, Alone
  <2>6. x.thing # NoThing => \E t \in things : t.id = x.thing /\ t.body = task[w].body
    BY <2>1 DEF Verdict, NoAnswer, NoThing, Register!NoThing, Same
  <2>7. AfterItem(w) # "idle" /\ AfterItem(w) # "lookup"
    BY DEF AfterItem
  <2>8. /\ at[w] # "idle" /\ at' = [at EXCEPT ![w] = AfterItem(w)] /\ holder # w
        /\ UNCHANGED <<things, records, desk, holder, answered, raced>>
    BY <1>7, <1>q DEF Judges
  <2> DEFINE place == AfterItem(w)
  <2> HIDE DEF j, place
  <2> QED
    BY <2>2, <2>3, <2>4, <2>5, <2>6, <2>7, <2>8, QuietKey DEF place
<1>8. CASE ReadsRecord(w)
  <2> DEFINE j == [task[w] EXCEPT !.seen = Stored(w)]
  <2>1. /\ j.org = task[w].org /\ j.key = task[w].key /\ j.body = task[w].body
        /\ j.answer = task[w].answer /\ j.seen = Stored(w)
    BY <1>8, <1>0 DEF ReadsRecord, TaskType
  <2>2. task' = [task EXCEPT ![w] = j]
    BY <1>8 DEF ReadsRecord
  <2>3. Lone(w) => /\ Stored(w) = {}
                   /\ task[w].answer.thing # NoThing =>
                        \E t \in things : t.id = task[w].answer.thing /\ t.body = task[w].body
    BY <1>8, <1>l DEF ReadsRecord, Alone
  <2>4. /\ at[w] # "idle" /\ at' = [at EXCEPT ![w] = "store_write"] /\ holder # w
        /\ UNCHANGED <<things, records, desk, holder, answered, raced>>
    BY <1>8, <1>q DEF ReadsRecord
  <2> HIDE DEF j
  <2> QED
    BY <2>1, <2>2, <2>3, <2>4, QuietKey
<1>9. CASE Leaves(w)
  <2>1. ~ Lone(w)
    BY <1>9, <1>l DEF Leaves, Alone
  <2> QED
    BY <1>9, <1>q, <1>s, <2>1, QuietKey DEF Leaves
<1>10. CASE WritesDesk(w)
  BY <1>10, DeskKey
<1>11. CASE Ends(w)
  BY <1>11, EndsKey, EndsUnwritten
<1> QED
  BY Shapes, <1>1, <1>2, <1>3, <1>4, <1>5, <1>6, <1>7, <1>8, <1>9, <1>10, <1>11 DEF KeyInv, SafeInv

LEMMA KeyStep ==
  ASSUME KeyInv, [RegistryNext]_registryVars
  PROVE  KeyInv'
<1>s. SafeInv'
  BY SafeStep DEF KeyInv
<1>1. CASE \E w \in Threads : Handle(w)
  BY <1>1, <1>s, HandleKey
<1>2. CASE Die
  <2>1. /\ UNCHANGED <<things, records, answered, raced>>
        /\ holder' = NoThread /\ \A w \in Threads : at'[w] = "idle"
    BY <1>2 DEF Die, history
  <2>2. \A w \in Threads : ~ Keyed(w)'
    BY <2>1 DEF Keyed
  <2>3. RacesSeen' /\ \A w \in Threads : ~ Lone(w)'
    BY <2>2 DEF RacesSeen, Lone
  <2>4. OneEach(records)' /\ Honest(records, things)'
    BY <2>1 DEF KeyInv, OneEach, Honest
  <2> QED
    BY <1>s, <2>1, <2>3, <2>4, NoThingInside DEF KeyInv
<1>3. CASE UNCHANGED registryVars
  <2>1. UNCHANGED <<things, records, desk, holder, at, task, answered, raced>>
    BY <1>3 DEF registryVars
  <2>2. RacesSeen' /\ OneEach(records)' /\ Honest(records, things)'
    BY <2>1 DEF KeyInv, RacesSeen, Keyed, MySlot, OneEach, Honest
  <2>3. holder' \in Threads => OwnKey(holder)'
    BY <2>1 DEF KeyInv, OwnKey, MySlot, OneEach, Honest
  <2>4. ASSUME NEW w \in Threads, Lone(w)' PROVE Alone(w)'
    <3>1. Lone(w)
      BY <2>1, <2>4 DEF Lone, Keyed, MySlot
    <3> QED
      BY <2>1, <3>1 DEF KeyInv, Alone, Stored, RecordOf
  <2> QED
    BY <1>s, <2>1, <2>2, <2>3, <2>4 DEF KeyInv
<1> QED
  BY <1>1, <1>2, <1>3 DEF RegistryNext

LEMMA KeyInit ==
  ASSUME RegistryInit
  PROVE  KeyInv
<1>1. \A w \in Threads : at[w] = "idle"
  BY DEF RegistryInit
<1>2. RacesSeen /\ \A w \in Threads : ~ Lone(w)
  BY <1>1 DEF RacesSeen, Lone, Keyed
<1>3. OneEach(records) /\ Honest(records, things)
  BY DEF RegistryInit, OneEach, Honest
<1> QED
  BY <1>2, <1>3, SafeInit, NoThingInside DEF RegistryInit, KeyInv

(* Requests with one idempotency key that do not overlap, however others race  *)
(* and fail, are one request with one answer.                                *)
THEOREM KeysHonoured == RegistrySpec => []KeyHonoured
<1>1. RegistryInit => KeyInv
  BY KeyInit
<1>2. KeyInv /\ [RegistryNext]_registryVars => KeyInv'
  BY KeyStep
<1>3. KeyInv => KeyHonoured
  BY DEF KeyInv, KeyHonoured, OneEach
<1> QED
  BY <1>1, <1>2, <1>3, PTL DEF RegistrySpec

(* What is remembered under a key is stored, and is what the request asked for.*)
THEOREM ReplaysBacked == RegistrySpec => []ReplayBacked
<1>1. RegistryInit => KeyInv
  BY KeyInit
<1>2. KeyInv /\ [RegistryNext]_registryVars => KeyInv'
  BY KeyStep
<1>3. KeyInv => ReplayBacked
  BY DEF KeyInv, SafeInv, ReplayBacked, AllBacked, Honest
<1> QED
  BY <1>1, <1>2, <1>3, PTL DEF RegistrySpec
=============================================================================
