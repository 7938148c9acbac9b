------------------------------- MODULE Registry -------------------------------
(***************************************************************************)
(* Requests that create devices, profiles, shipments and single-reading      *)
(* batches, retire devices and complete shipments, with their idempotency    *)
(* keys, running concurrently against one SQLite database.                   *)
(*                                                                         *)
(* As in Ingest, every SELECT before the first write of a session is a step  *)
(* that sees what is committed at the time; the first write takes the write  *)
(* lock, and what the session writes stays in its draft until the commit.    *)
(* The number of a request stands for the random id of what it creates.      *)
(* Only answers that report success (2xx) are kept: a request that ends with *)
(* an error rolls back and leaves nothing under its key.                     *)
(***************************************************************************)
EXTENDS Integers, FiniteSets

CONSTANTS
  Companies,           \* organizations
  Keys, NoKey,         \* idempotency keys, and a request without one
  Threads, NoThread,   \* request threads, and "no thread"
  Requests,            \* requests clients may send
  MaxRequests,         \* bound on the requests sent
  Outages              \* which of "crash" and "timeout" happen

Creations == {"device", "profile", "shipment", "reading"}

(* The body of a request: the table, the name (serial, reference, number),    *)
(* the devices and the profile it refers to (0 for none), and all the rest of *)
(* the payload.  A "settle" request retires a device or completes a shipment,  *)
(* the one in uses.                                                          *)
BodyType == [kind : Creations \union {"settle"}, name : STRING,
             uses : SUBSET Nat, profile : Nat, rest : Nat]

ASSUME RegistryAssumption ==
  /\ NoKey \notin Keys
  /\ NoThread \notin Threads
  /\ MaxRequests \in Nat
  /\ Requests \subseteq [org : Companies, key : Keys \union {NoKey}, body : BodyType]
  /\ \A q \in Requests : q.body.kind \in {"profile", "settle"} => q.key = NoKey
  /\ \A q \in Requests : q.body.kind \in {"device", "profile"} => q.body.uses = {}

VARIABLES
  things,     \* the rows of the four tables, as committed
  records,    \* table idempotency_records, as committed
  desk,       \* both, as the open write transaction sees them
  holder,     \* the thread that holds the write lock
  at,         \* where each thread is in its handler
  task,       \* the request each thread serves and its local variables
  sent,       \* number of requests so far
  answered,   \* answers of the requests that have committed
  raced,      \* keys that two requests in flight have shared
  afterlife   \* things entered for a device retired before the request came

registryVars == <<things, records, desk, holder, at, task, sent, answered, raced, afterlife>>

history == <<answered, raced, afterlife>>

Register == INSTANCE NameRegister WITH things <- things, records <- records

Slot(r) == Register!Slot(r)
NoThing == Register!NoThing

Notes == {"created", "duplicate", "refused"}
AnswerType == [thing : Nat, note : Notes]
ThingType == [id : Nat \ {0}, org : Companies, body : BodyType, status : {"active", "settled"}]
RecordType == [org : Companies, key : Keys, body : BodyType, answer : AnswerType]
TaskType == [num : Nat \ {0}, org : Companies, key : Keys \union {NoKey}, body : BodyType,
             answer : AnswerType, seen : SUBSET RecordType, gone : SUBSET Nat]

NoTask == [num |-> 0]
NoDesk == [things |-> {}, records |-> {}]
NoAnswer == [thing |-> 0, note |-> "refused"]

-----------------------------------------------------------------------------
(* Steps of a request. *)

Move(w, place) == at' = [at EXCEPT ![w] = place]

(* Variant: the session of a failed request is left open. *)
LeaveOpen(w) ==
  /\ at' = [at EXCEPT ![w] = "idle"]
  /\ task' = [task EXCEPT ![w] = NoTask]
  /\ UNCHANGED <<holder, desk>>

(* The request is over and its session closed, rolling back what is not       *)
(* committed; if no answer has been sent, it is an error.                     *)
GiveUp(w) ==
  /\ at' = [at EXCEPT ![w] = "idle"]
  /\ task' = [task EXCEPT ![w] = NoTask]
  /\ holder' = IF holder = w THEN NoThread ELSE holder
  /\ desk' = IF holder = w THEN NoDesk ELSE desk

Answer(w, a) == task' = [task EXCEPT ![w].answer = a]

(* idem_lookup finds the record by organization and key. *)
Stored(w) == {r \in records : Slot(r) = <<task[w].org, task[w].key>>}

FirstRead(body) == IF body.kind = "profile" THEN "insert" ELSE "check"

SettledIds == {t.id : t \in {u \in things : u.status = "settled"}}

InFlight(q) == \E v \in Threads : at[v] # "idle" /\ <<task[v].org, task[v].key>> = <<q.org, q.key>>

Begin(w) ==
  /\ at[w] = "idle"
  /\ sent < MaxRequests
  /\ sent' = sent + 1
  /\ \E q \in Requests :
       /\ task' = [task EXCEPT ![w] =
            [num |-> sent + 1, org |-> q.org, key |-> q.key, body |-> q.body,
             answer |-> NoAnswer, seen |-> {}, gone |-> SettledIds]]
       /\ Move(w, IF q.key = NoKey THEN FirstRead(q.body) ELSE "lookup")
       /\ raced' = IF q.key # NoKey /\ InFlight(q) THEN raced \union {<<q.org, q.key>>} ELSE raced
  /\ UNCHANGED <<things, records, desk, holder, answered, afterlife>>

(* The body is compared by its hash. Variant: it is not compared. *)
AnyRequest(r, body) == TRUE
SameRequest(r, body) == r.body = body

(* idem_lookup and idem_replay_check: the stored answer is given again, or   *)
(* the key was used for another request.                                    *)
Lookup(w) ==
  /\ at[w] = "lookup"
  /\ \/ /\ Stored(w) = {}
        /\ Move(w, "check")
        /\ UNCHANGED <<task, desk, holder>>
     \/ \E r \in Stored(w) :
          /\ SameRequest(r, task[w].body)
          /\ Answer(w, r.answer)
          /\ Move(w, "commit")
          /\ UNCHANGED <<desk, holder>>
     \/ \E r \in Stored(w) : ~ SameRequest(r, task[w].body) /\ GiveUp(w)
  /\ UNCHANGED <<things, records, sent, history>>

-----------------------------------------------------------------------------
(* What the handlers read before they write. *)

Same(w) == {t \in things : Register!Identity(t) = Register!Identity(task[w])}

(* Device n is the organization's. Variant: it may be out of service. *)
Known(n, o) == \E t \in things : t.id = n /\ t.org = o /\ t.body.kind = "device"

InService(n, o) ==
  \E t \in things : t.id = n /\ t.org = o /\ t.body.kind = "device" /\ t.status = "active"

ServesCheck(w, kind) == at[w] = "check" /\ task[w].body.kind = kind

(* A serial in use is refused. *)
CheckSerial(w) ==
  /\ ServesCheck(w, "device")
  /\ IF Same(w) # {} THEN GiveUp(w) ELSE Move(w, "insert") /\ UNCHANGED <<task, desk, holder>>
  /\ UNCHANGED <<things, records, sent, history>>

(* A shipment's profile must exist and its devices be in service.  Nothing    *)
(* else is read: a reference in use shows at the insert.                     *)
CheckParts(w) ==
  /\ ServesCheck(w, "shipment")
  /\ LET o == task[w].org
         body == task[w].body
     IN  IF /\ \E t \in things : t.id = body.profile /\ t.org = o /\ t.body.kind = "profile"
            /\ \A n \in body.uses : InService(n, o)
         THEN Move(w, "insert") /\ UNCHANGED <<task, desk, holder>>
         ELSE GiveUp(w)
  /\ UNCHANGED <<things, records, sent, history>>

AfterItem(w) == IF task[w].key = NoKey THEN "commit" ELSE "store_read"

(* The one item of a batch: refused (device unknown or retired, number used   *)
(* for another reading), a duplicate, or new.  The answer is 200 in any case, *)
(* and remembered.  (Ingest has the item's other checks.)                    *)
CheckReading(w) ==
  /\ ServesCheck(w, "reading")
  /\ LET usable == \A n \in task[w].body.uses : InService(n, task[w].org)
     IN  \/ /\ ~ usable \/ \E t \in Same(w) : t.body # task[w].body
            /\ Move(w, AfterItem(w))
            /\ Answer(w, NoAnswer)
         \/ \E t \in Same(w) :
              /\ usable /\ t.body = task[w].body
              /\ Move(w, AfterItem(w))
              /\ Answer(w, [thing |-> t.id, note |-> "duplicate"])
         \/ usable /\ Same(w) = {} /\ Move(w, "insert") /\ UNCHANGED task
  /\ UNCHANGED <<things, records, desk, holder, sent, history>>

(* Only what is in service (a shipment: in transit) can be settled. *)
CheckSettle(w) ==
  /\ ServesCheck(w, "settle")
  /\ IF \E t \in things : /\ {t.id} = task[w].body.uses /\ t.org = task[w].org
                          /\ t.status = "active" /\ t.body.kind \in {"device", "shipment"}
       THEN Move(w, "settle") /\ UNCHANGED <<task, desk, holder>>
       ELSE GiveUp(w)
  /\ UNCHANGED <<things, records, sent, history>>

-----------------------------------------------------------------------------
(* What they write. *)

(* Variant: the record is stored in a transaction of its own. *)
DraftApart(w, ts, rs) ==
  /\ holder' = w /\ desk' = [things |-> ts, records |-> rs] /\ records' = rs

Draft(w, ts, rs) ==
  /\ holder' = w /\ desk' = [things |-> ts, records |-> rs] /\ UNCHANGED records

NewThing(w) ==
  [id |-> task[w].num, org |-> task[w].org, body |-> task[w].body, status |-> "active"]

Created(w) == [thing |-> task[w].num, note |-> "created"]

RecordOf(w, a) ==
  [org |-> task[w].org, key |-> task[w].key, body |-> task[w].body, answer |-> a]

(* merge under the write lock: whatever a request has stored under the key    *)
(* since the lookup is overwritten.                                          *)
Merged(rs, q) == {r \in rs : Slot(r) # Slot(q)} \union {q}

(* Variants: tables without the constraints. *)
NoConstraints(t, ts) == TRUE

(* uq_devices_org_serial, uq_profiles_org_name, uq_shipments_org_ref and       *)
(* uq_readings_device_seq.                                                   *)
NameFree(t, ts) == ~ Register!Named(t, ts)

(* The row, and the answer under its key, go into the draft; a name taken      *)
(* since the check fails the request.                                        *)
Enter(w) ==
  /\ at[w] = "insert"
  /\ holder = NoThread
  /\ \/ /\ ~ NameFree(NewThing(w), things)
        /\ GiveUp(w)
        /\ UNCHANGED <<records, afterlife>>
     \/ /\ NameFree(NewThing(w), things)
        /\ Draft(w, things \union {NewThing(w)},
                 IF task[w].key = NoKey THEN records ELSE Merged(records, RecordOf(w, Created(w))))
        /\ Answer(w, Created(w))
        /\ Move(w, "commit")
        /\ afterlife' = IF task[w].body.uses \intersect task[w].gone = {}
                          THEN afterlife ELSE afterlife \union {task[w].num}
  /\ UNCHANGED <<things, sent, answered, raced>>

(* The UPDATE of a record that is now cur and was r when it was read: columns   *)
(* in which the new one does not differ from r are left alone.               *)
Updated(mine, r, cur) ==
  [org |-> mine.org, key |-> mine.key,
   body |-> IF r.body = mine.body THEN cur.body ELSE mine.body,
   answer |-> IF r.answer = mine.answer THEN cur.answer ELSE mine.answer]

(* A batch that stored nothing holds no lock: merge reads the record, ... *)
StoreRead(w) ==
  /\ at[w] = "store_read"
  /\ task' = [task EXCEPT ![w].seen = Stored(w)]
  /\ Move(w, "store_write")
  /\ UNCHANGED <<things, records, desk, holder, sent, history>>

(* ... and then inserts it, or updates the row as it is by then. *)
StoreWrite(w) ==
  LET mine == RecordOf(w, task[w].answer)
      seen == task[w].seen
  IN
  /\ at[w] = "store_write"
  /\ \/ /\ mine \in seen
        /\ Move(w, "commit")
        /\ UNCHANGED <<records, desk, holder, task>>
     \/ /\ seen = {} /\ Stored(w) # {} /\ holder = NoThread
        /\ GiveUp(w)
        /\ UNCHANGED records
     \/ /\ seen = {} /\ Stored(w) = {} /\ holder = NoThread
        /\ Draft(w, things, records \union {mine})
        /\ Move(w, "commit")
        /\ UNCHANGED task
     \/ \E r \in seen, cur \in Stored(w) :
          /\ r # mine /\ holder = NoThread
          /\ Draft(w, things, Merged(records, Updated(mine, r, cur)))
          /\ Move(w, "commit")
          /\ UNCHANGED task
  /\ UNCHANGED <<things, sent, history>>

(* UPDATE ... SET status, by id: whatever the status has become meanwhile. *)
Settle(w) ==
  /\ at[w] = "settle"
  /\ holder = NoThread
  /\ Draft(w, {IF t.id \in task[w].body.uses THEN Register!Settled(t) ELSE t : t \in things}, records)
  /\ Move(w, "commit")
  /\ UNCHANGED <<things, task, sent, history>>

(* The response is sent and the database dependency commits. *)
Finish(w) ==
  /\ at[w] = "commit"
  /\ IF holder = w
       THEN things' = desk.things /\ records' = desk.records
       ELSE UNCHANGED <<things, records>>
  /\ answered' = IF task[w].key = NoKey THEN answered
                   ELSE answered \union {RecordOf(w, task[w].answer)}
  /\ GiveUp(w)
  /\ UNCHANGED <<sent, raced, afterlife>>

-----------------------------------------------------------------------------
(* SQLite gives up waiting for the write lock after 30 s. *)
GiveUpWaiting(w) ==
  /\ "timeout" \in Outages
  /\ at[w] \in {"insert", "store_write", "settle"}
  /\ holder \notin {NoThread, w}
  /\ GiveUp(w)
  /\ UNCHANGED <<things, records, sent, history>>

(* The process dies and is restarted: the open transaction is gone. *)
Die ==
  /\ "crash" \in Outages
  /\ \E w \in Threads : at[w] # "idle"
  /\ at' = [w \in Threads |-> "idle"]
  /\ task' = [w \in Threads |-> NoTask]
  /\ holder' = NoThread
  /\ desk' = NoDesk
  /\ UNCHANGED <<things, records, sent, history>>

RegistryInit ==
  /\ things = {} /\ records = {} /\ desk = NoDesk /\ holder = NoThread
  /\ at = [w \in Threads |-> "idle"]
  /\ task = [w \in Threads |-> NoTask]
  /\ sent = 0
  /\ answered = {} /\ raced = {} /\ afterlife = {}

Handle(w) ==
  \/ Begin(w) \/ Lookup(w)
  \/ CheckSerial(w) \/ CheckParts(w) \/ CheckReading(w) \/ CheckSettle(w)
  \/ Enter(w) \/ StoreRead(w) \/ StoreWrite(w) \/ Settle(w)
  \/ Finish(w) \/ GiveUpWaiting(w)

RegistryNext == (\E w \in Threads : Handle(w)) \/ Die

RegistrySpec == RegistryInit /\ [][RegistryNext]_registryVars
-----------------------------------------------------------------------------
(* Properties. *)

Stops == {"lookup", "check", "insert", "store_read", "store_write", "settle", "commit"}

(* Type correctness; only a thread that is about to commit holds the lock. *)
RegistryTypeOK ==
  /\ things \subseteq ThingType
  /\ records \subseteq RecordType
  /\ desk \in [things : SUBSET ThingType, records : SUBSET RecordType]
  /\ holder \in Threads \union {NoThread}
  /\ holder \in Threads => at[holder] = "commit"
  /\ at \in [Threads -> Stops \union {"idle"}]
  /\ \A w \in Threads : IF at[w] = "idle" THEN task[w] = NoTask ELSE task[w] \in TaskType
  /\ sent \in Nat
  /\ answered \subseteq RecordType
  /\ raced \subseteq Companies \X Keys
  /\ afterlife \subseteq Nat

(* Devices, profiles, shipments, readings and remembered answers behave as    *)
(* the register of names: one thing per name, whatever races, and no answer   *)
(* outlives or precedes the thing it names.                                  *)
KeepsRegister == Register!Spec

(* An idempotency key stands for one request and one answer: unless two        *)
(* requests with the key were in flight together, all successful answers      *)
(* under it, first or replayed, are the same answer to the same request.      *)
KeyHonoured ==
  \A p, q \in answered : Slot(p) = Slot(q) /\ Slot(p) \notin raced => p = q

(* A remembered answer names a stored thing of its organization and, where no *)
(* requests raced on its key, the very thing the remembered request asked for.*)
ReplayBacked ==
  \A r \in records :
    /\ Register!Backed(r, things)
    /\ r.answer.thing # NoThing /\ Slot(r) \notin raced =>
         \E t \in things : t.id = r.answer.thing /\ t.body = r.body

(* Nothing is entered for a device whose retirement was committed before the  *)
(* request came in; what slips in was under way when the device was retired.  *)
NothingAfterRetirement == afterlife = {}
=============================================================================
