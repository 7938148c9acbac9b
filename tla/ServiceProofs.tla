----------------------------- MODULE ServiceProofs -----------------------------
(***************************************************************************)
(* Theorems about parts of the service that share no table: the audit chain,  *)
(* for any organizations, any texts and any damage; the conversions of        *)
(* temperatures and months, for any temperature, any year and any time; the   *)
(* simulator, for any devices, any lists of them and any number of steps.     *)
(***************************************************************************)
EXTENDS AuditChain, Conversions, Simulation, FiniteSums

-----------------------------------------------------------------------------
(* The audit chain: intact chains verify, and what verifies was written.      *)

EntryShape(e) == e = [seq |-> e.seq, org |-> e.org, target |-> e.target, detail |-> e.detail,
                      prev |-> e.prev, hash |-> e.hash]

(* Entries are numbered by integers, and their hashes are no genesis marker.  *)
Shaped ==
  /\ \A e \in entries \union written : EntryShape(e) /\ e.seq \in Int
  /\ \A e \in entries : e.hash # Genesis

(* audit_log.seq is the primary key. *)
OneNumber == \A e, f \in entries : e.seq = f.seq => e = f

(* Every hash in the table is that of an entry the program wrote, or none at   *)
(* all; and an entry without a predecessor was written as the first.          *)
HashesWritten ==
  /\ \A g \in written : g.hash = HashOf(g) /\ (g.prev = Genesis => g.seq = 1)
  /\ \A e \in entries : e.hash = Junk \/ \E g \in written : e.hash = HashOf(g)

IntactGood == \A e \in entries : e.org \notin damaged => Good(e)

AuditInv == Shaped /\ OneNumber /\ HashesWritten /\ IntactGood

-----------------------------------------------------------------------------
(* A hash is neither the genesis marker nor a damaged cell. *)
LEMMA HashShape == ASSUME NEW e PROVE HashOf(e) # Genesis /\ HashOf(e) # Junk
BY DEF HashOf, Genesis, Junk

LEMMA GenesisJunk == Genesis # Junk
BY DEF Genesis, Junk

(* Equal hashes: equal links, organizations, texts and numbers. *)
LEMMA HashInjective ==
  ASSUME NEW e, NEW g, HashOf(e) = HashOf(g)
  PROVE  e.prev = g.prev /\ e.org = g.org /\ e.target \o e.detail = g.target \o g.detail /\ e.seq = g.seq
BY DEF HashOf

-----------------------------------------------------------------------------
(* Whether an entry is good depends on the chain of its organization alone.   *)
LEMMA GoodLocal ==
  ASSUME NEW e, Chain(e.org)' = Chain(e.org)
  PROVE  Good(e)' <=> Good(e)
<1>1. Before(e)' = Before(e)
  BY DEF Before
<1>2. Follows(e)' <=> Follows(e)
  BY <1>1 DEF Follows
<1> QED
  BY <1>2 DEF Good

(* A replaced entry keeps its hash or loses it, and takes no number that is    *)
(* in use.                                                                   *)
LEMMA ReplaceKeeps ==
  ASSUME AuditInv, NEW e \in entries, NEW f,
         Replace(e, f), EntryShape(f), f.seq \in Int, f.hash \in {e.hash, Junk},
         \A g \in entries \ {e} : g.seq # f.seq
  PROVE  AuditInv'
<1> USE DEF AuditInv
<1>1. entries' = (entries \ {e}) \union {f} /\ damaged' = damaged \union {e.org, f.org} /\ written' = written
  BY DEF Replace
<1>2. Shaped'
  BY <1>1, GenesisJunk DEF Shaped, EntryShape
<1>3. OneNumber'
  BY <1>1 DEF OneNumber
<1>4. HashesWritten'
  <2>1. \A g \in written' : g.hash = HashOf(g) /\ (g.prev = Genesis => g.seq = 1)
    BY <1>1 DEF HashesWritten
  <2>2. \A x \in entries : x.hash = Junk \/ \E g \in written : x.hash = HashOf(g)
    BY DEF HashesWritten
  <2>3. f.hash = Junk \/ \E g \in written : f.hash = HashOf(g)
    BY <2>2
  <2>4. \A x \in entries' : x.hash = Junk \/ \E g \in written' : x.hash = HashOf(g)
    BY <1>1, <2>2, <2>3
  <2> QED
    BY <2>1, <2>4 DEF HashesWritten
<1>5. ASSUME NEW x \in entries', x.org \notin damaged' PROVE Good(x)'
  <2>1. x \in entries /\ x.org # e.org /\ x.org # f.org /\ x.org \notin damaged
    BY <1>1, <1>5
  <2>2. Chain(x.org)' = Chain(x.org)
    BY <2>1, <1>1 DEF Chain
  <2> QED
    BY <2>1, <2>2, GoodLocal DEF IntactGood
<1>6. IntactGood'
  BY <1>5 DEF IntactGood
<1> QED
  BY <1>2, <1>3, <1>4, <1>6

(* A deletion leaves a damaged organization behind. *)
LEMMA DeleteKeeps ==
  ASSUME AuditInv, NEW e \in entries, Delete(e)
  PROVE  AuditInv'
<1> USE DEF AuditInv
<1>1. entries' = entries \ {e} /\ damaged' = damaged \union {e.org} /\ written' = written
  BY DEF Delete
<1>2. Shaped' /\ OneNumber' /\ HashesWritten'
  BY <1>1 DEF Shaped, EntryShape, OneNumber, HashesWritten, HashOf
<1>3. ASSUME NEW x \in entries', x.org \notin damaged' PROVE Good(x)'
  <2>1. x \in entries /\ x.org # e.org /\ x.org \notin damaged
    BY <1>1, <1>3
  <2>2. Chain(x.org)' = Chain(x.org)
    BY <2>1, <1>1 DEF Chain
  <2> QED
    BY <2>1, <2>2, GoodLocal DEF IntactGood
<1> QED
  BY <1>2, <1>3 DEF IntactGood

(* An entry that comes back brings a hash that was written. *)
LEMMA RestoreKeeps ==
  ASSUME AuditInv, Restore
  PROVE  AuditInv'
<1> USE DEF AuditInv
<1>1. PICK e \in written :
        /\ \A f \in entries : f.seq # e.seq
        /\ entries' = entries \union {e}
        /\ damaged' = damaged \union {e.org} /\ written' = written
  BY DEF Restore
<1>2. e.hash = HashOf(e) /\ e.hash # Genesis
  BY HashShape DEF HashesWritten
<1>3. Shaped' /\ OneNumber' /\ HashesWritten'
  BY <1>1, <1>2 DEF Shaped, EntryShape, OneNumber, HashesWritten, HashOf
<1>4. ASSUME NEW x \in entries', x.org \notin damaged' PROVE Good(x)'
  <2>1. x \in entries /\ x.org # e.org /\ x.org \notin damaged
    BY <1>1, <1>4
  <2>2. Chain(x.org)' = Chain(x.org)
    BY <2>1, <1>1 DEF Chain
  <2> QED
    BY <2>1, <2>2, GoodLocal DEF IntactGood
<1> QED
  BY <1>3, <1>4 DEF IntactGood

(* Another text, the same entry otherwise. *)
LEMMA WithTextRecord ==
  ASSUME NEW e, NEW t, NEW d, EntryShape(e)
  PROVE  WithText(e, t, d) = [seq |-> e.seq, org |-> e.org, target |-> t, detail |-> d,
                              prev |-> e.prev, hash |-> e.hash]
<1> DEFINE a == [e EXCEPT !.target = t]
<1>1. a = [seq |-> e.seq, org |-> e.org, target |-> t, detail |-> e.detail,
           prev |-> e.prev, hash |-> e.hash]
  BY DEF EntryShape
<1> HIDE DEF a
<1>2. [a EXCEPT !.detail = d] = [seq |-> e.seq, org |-> e.org, target |-> t, detail |-> d,
                                 prev |-> e.prev, hash |-> e.hash]
  BY <1>1
<1> QED
  BY <1>2 DEF WithText, a

LEMMA WithTextShape ==
  ASSUME NEW e, NEW t, NEW d, EntryShape(e)
  PROVE  /\ EntryShape(WithText(e, t, d))
         /\ WithText(e, t, d).seq = e.seq /\ WithText(e, t, d).hash = e.hash
BY WithTextRecord DEF EntryShape

LEMMA EditsKeep ==
  ASSUME AuditInv, NEW e \in entries,
         EditText(e) \/ MoveBreak(e) \/ Renumber(e) \/ Relink(e) \/ Reassign(e) \/ Rehash(e)
  PROVE  AuditInv'
<1> USE DEF AuditInv
<1>1. EntryShape(e) /\ e.seq \in Int /\ \A g \in entries \ {e} : g.seq # e.seq
  BY DEF Shaped, OneNumber
<1>2. CASE EditText(e)
  <2>1. PICK c \in Notices : Replace(e, WithText(e, c.target, c.detail))
    BY <1>2 DEF EditText
  <2> DEFINE f == WithText(e, c.target, c.detail)
  <2>2. EntryShape(f) /\ f.seq = e.seq /\ f.hash = e.hash
    BY <1>1, WithTextShape
  <2> QED
    BY <1>1, <2>1, <2>2, ReplaceKeeps
<1>3. CASE MoveBreak(e)
  <2>1. PICK t, s : Replace(e, WithText(e, t, s))
    <3>1. CASE Replace(e, WithText(e, Append(e.target, Head(e.detail)), Tail(e.detail)))
      BY <3>1, Zenon
    <3>2. CASE Replace(e, WithText(e, SubSeq(e.target, 1, Len(e.target) - 1),
                                      <<e.target[Len(e.target)]>> \o e.detail))
      BY <3>2, Zenon
    <3> QED
      BY <1>3, <3>1, <3>2, Zenon DEF MoveBreak
  <2> DEFINE f == WithText(e, t, s)
  <2>2. EntryShape(f) /\ f.seq = e.seq /\ f.hash = e.hash
    BY <1>1, WithTextShape
  <2> QED
    BY <1>1, <2>1, <2>2, ReplaceKeeps
<1>4. CASE Renumber(e)
  <2>1. PICK n \in 1..MaxEntry : (\A g \in entries : g.seq # n) /\ Replace(e, [e EXCEPT !.seq = n])
    BY <1>4 DEF Renumber
  <2> DEFINE f == [e EXCEPT !.seq = n]
  <2>2. EntryShape(f) /\ f.seq = n /\ f.hash = e.hash
    BY <1>1 DEF EntryShape
  <2>3. f.seq \in Int /\ \A g \in entries \ {e} : g.seq # f.seq
    BY <2>1, <2>2, NoticesAssumption
  <2> HIDE DEF f
  <2>4. Replace(e, f)
    BY <2>1 DEF f
  <2> QED
    BY <2>2, <2>3, <2>4, ReplaceKeeps
<1>5. CASE Relink(e)
  <2>1. PICK p : Replace(e, [e EXCEPT !.prev = p])
    BY <1>5 DEF Relink
  <2> DEFINE f == [e EXCEPT !.prev = p]
  <2>2. EntryShape(f) /\ f.seq = e.seq /\ f.hash = e.hash
    BY <1>1 DEF EntryShape
  <2> QED
    BY <1>1, <2>1, <2>2, ReplaceKeeps
<1>6. CASE Reassign(e)
  <2>1. PICK o \in Tenants : Replace(e, [e EXCEPT !.org = o])
    BY <1>6 DEF Reassign
  <2> DEFINE f == [e EXCEPT !.org = o]
  <2>2. EntryShape(f) /\ f.seq = e.seq /\ f.hash = e.hash
    BY <1>1 DEF EntryShape
  <2> QED
    BY <1>1, <2>1, <2>2, ReplaceKeeps
<1>7. CASE Rehash(e)
  <2> DEFINE f == [e EXCEPT !.hash = Junk]
  <2>1. Replace(e, f)
    BY <1>7 DEF Rehash
  <2>2. EntryShape(f) /\ f.seq = e.seq /\ f.hash = Junk
    BY <1>1 DEF EntryShape
  <2> QED
    BY <1>1, <2>1, <2>2, ReplaceKeeps
<1> QED
  BY <1>2, <1>3, <1>4, <1>5, <1>6, <1>7

(* An appended entry is good if its chain was, and comes after all of it.     *)
LEMMA AppendKeeps ==
  ASSUME AuditInv, NEW o \in Tenants, AppendAudit(o)
  PROVE  AuditInv'
<1> USE DEF AuditInv
<1>1. PICK n \in Number(o), p \in Link(o), c \in Notices :
        LET e == Hashed([seq |-> n, org |-> o, target |-> c.target, detail |-> c.detail,
                         prev |-> p, hash |-> Genesis])
        IN  /\ \A f \in entries : f.seq # n
            /\ entries' = entries \union {e}
            /\ written' = written \union {e}
            /\ damaged' = damaged
  BY DEF AppendAudit
<1> DEFINE e == Hashed([seq |-> n, org |-> o, target |-> c.target, detail |-> c.detail,
                        prev |-> p, hash |-> Genesis])
<1>2. EntryShape(e) /\ e.seq = n /\ e.org = o /\ e.prev = p /\ e.hash = HashOf(e)
  <2> DEFINE b == [seq |-> n, org |-> o, target |-> c.target, detail |-> c.detail,
                   prev |-> p, hash |-> Genesis]
             h == HashOf(b)
  <2>1. h = <<p, o, c.target \o c.detail, n>>
    BY DEF HashOf
  <2> HIDE DEF h
  <2>2. e = [seq |-> n, org |-> o, target |-> c.target, detail |-> c.detail, prev |-> p, hash |-> h]
    BY DEF Hashed, h
  <2> HIDE DEF e
  <2>3. HashOf(e) = <<p, o, c.target \o c.detail, n>>
    BY <2>2 DEF HashOf
  <2> QED
    BY <2>1, <2>2, <2>3 DEF EntryShape
<1>3. e.hash # Genesis
  BY <1>2, HashShape
<1> HIDE DEF e
<1>4. n \in Int
  BY DEF Number, Newest, Chain, Shaped
<1>5. Shaped'
  BY <1>1, <1>2, <1>3, <1>4 DEF Shaped, EntryShape, e
<1>6. OneNumber'
  BY <1>1, <1>2 DEF OneNumber, e
<1>7. p = Genesis => n = 1
  <2>1. CASE Chain(o) = {}
    BY <2>1 DEF Number
  <2>2. CASE Chain(o) # {}
    BY <2>2 DEF Link, Newest, Chain, Shaped
  <2> QED
    BY <2>1, <2>2
<1>8. HashesWritten'
  BY <1>1, <1>2, <1>7 DEF HashesWritten, HashOf, e
<1>9. ASSUME NEW x \in entries', x.org \notin damaged' PROVE Good(x)'
  <2>1. CASE x.org # o
    <3>1. x \in entries /\ Chain(x.org)' = Chain(x.org)
      BY <2>1, <1>1, <1>2, <1>9 DEF Chain, e
    <3> QED
      BY <3>1, <1>1, <1>9, GoodLocal DEF IntactGood
  <2>2. Chain(o)' = Chain(o) \union {e}
    BY <1>1, <1>2 DEF Chain, e
  <2>3. \A f \in Chain(o) : f.seq < n /\ f.seq \in Int
    <3>1. SUFFICES ASSUME NEW f \in Chain(o) PROVE f.seq < n /\ f.seq \in Int
      OBVIOUS
    <3>2. PICK g \in Newest(Chain(o)) : n = g.seq + 1
      BY <3>1 DEF Number
    <3> QED
      BY <3>1, <3>2 DEF Newest, Chain, Shaped
  <2>4. CASE x.org = o /\ x \in entries
    <3>1. {f \in Chain(o)' : f.seq < x.seq} = {f \in Chain(o) : f.seq < x.seq}
      BY <2>2, <2>3, <2>4, <1>2, <1>4 DEF Chain
    <3>2. Before(x)' = Before(x)
      BY <3>1, <2>4 DEF Before
    <3>3. Good(x)
      BY <2>4, <1>1, <1>9 DEF IntactGood
    <3> QED
      BY <3>2, <3>3 DEF Good, Follows
  <2>5. CASE x = e
    <3>1. {f \in Chain(o)' : f.seq < n} = Chain(o)
      BY <2>2, <2>3, <1>2, <1>4
    <3>2. Before(e)' = Newest(Chain(o))
      BY <3>1, <1>2 DEF Before
    <3>3. \A f, g \in Newest(Chain(o)) : f = g
      <4>1. SUFFICES ASSUME NEW f \in Newest(Chain(o)), NEW g \in Newest(Chain(o)) PROVE f = g
        OBVIOUS
      <4>2. f \in entries /\ g \in entries /\ f.seq <= g.seq /\ g.seq <= f.seq
        BY <4>1 DEF Newest, Chain
      <4> QED
        BY <4>2 DEF OneNumber, Shaped
    <3>4. CASE Chain(o) = {}
      BY <3>4, <3>2, <1>2, <2>5 DEF Good, Follows, Newest, Link
    <3>5. CASE Chain(o) # {}
      <4>1. PICK g \in Newest(Chain(o)) : n = g.seq + 1
        BY <3>5 DEF Number
      <4>2. PICK h \in Newest(Chain(o)) : p = h.hash
        BY <3>5 DEF Link
      <4>3. Follows(e)'
        BY <4>1, <4>2, <3>2, <3>3, <1>2 DEF Follows
      <4> QED
        BY <4>3, <1>2, <2>5 DEF Good
    <3> QED
      BY <3>4, <3>5, <2>5
  <2> QED
    BY <2>1, <2>4, <2>5, <1>1, <1>9 DEF e
<1>10. IntactGood'
  BY <1>9 DEF IntactGood
<1> QED
  BY <1>5, <1>6, <1>8, <1>10

-----------------------------------------------------------------------------
LEMMA AuditInductive ==
  /\ AuditInit => AuditInv
  /\ AuditInv /\ [AuditNext]_auditVars => AuditInv'
<1>1. AuditInit => AuditInv
  BY DEF AuditInit, AuditInv, Shaped, OneNumber, HashesWritten, IntactGood
<1>2. ASSUME AuditInv, [AuditNext]_auditVars PROVE AuditInv'
  <2>1. CASE \E o \in Tenants : AppendAudit(o)
    BY <1>2, <2>1, AppendKeeps
  <2>2. CASE Damage
    <3>1. CASE Restore
      BY <1>2, <3>1, RestoreKeeps
    <3>2. CASE \E e \in entries : Delete(e)
      BY <1>2, <3>2, DeleteKeeps
    <3>3. CASE \E e \in entries : \/ EditText(e) \/ MoveBreak(e) \/ Renumber(e)
                                  \/ Relink(e) \/ Reassign(e) \/ Rehash(e)
      BY <1>2, <3>3, EditsKeep
    <3> QED
      BY <2>2, <3>1, <3>2, <3>3 DEF Damage
  <2>3. CASE UNCHANGED auditVars
    <3>1. entries' = entries /\ written' = written /\ damaged' = damaged
      BY <2>3 DEF auditVars
    <3>2. Shaped' /\ OneNumber' /\ HashesWritten'
      BY <1>2, <3>1 DEF AuditInv, Shaped, EntryShape, OneNumber, HashesWritten, HashOf
    <3>3. IntactGood'
      BY <1>2, <3>1, GoodLocal DEF AuditInv, IntactGood, Chain
    <3> QED
      BY <3>2, <3>3 DEF AuditInv
  <2> QED
    BY <1>2, <2>1, <2>2, <2>3 DEF AuditNext
<1> QED
  BY <1>1, <1>2

LEMMA AuditInvAlways == AuditSpec => []AuditInv
BY AuditInductive, PTL DEF AuditSpec

(* As long as nobody but the program touches an organization's entries, its    *)
(* chain verifies, whatever happens to those of others.                      *)
THEOREM IntactAlways == AuditSpec => []IntactVerifies
<1>1. AuditInv => IntactVerifies
  BY DEF AuditInv, IntactGood, IntactVerifies, VerifyOK, Checked, Chain
<1> QED
  BY <1>1, AuditInvAlways, PTL

(* Texts that join to the same lines are the same text to a hash.  *)
LEMMA SameText ==
  ASSUME AuditInv, NEW e \in entries, NEW g \in written, HashOf(e) = HashOf(g), e.hash = HashOf(e)
  PROVE  Text(g) = Text(e)
<1>1. EntryShape(e) /\ EntryShape(g) /\ g.hash = e.hash
  BY DEF AuditInv, Shaped, HashesWritten
<1>2. /\ e.prev = g.prev /\ e.org = g.org /\ e.seq = g.seq
      /\ e.target \o e.detail = g.target \o g.detail
  BY HashInjective
<1>3. ASSUME NEW a, EntryShape(a)
      PROVE Text(a) = [seq |-> a.seq, org |-> a.org, target |-> a.target \o a.detail,
                       detail |-> <<>>, prev |-> a.prev, hash |-> a.hash]
  BY <1>3, WithTextRecord DEF Text
<1> QED
  BY <1>1, <1>2, <1>3

(* Whatever was done to the table, an entry that verification counts as        *)
(* checked is one the program wrote, the first of its chain or linked to the  *)
(* checked entry with the number before.                                     *)
THEOREM GenuineAlways == AuditSpec => []CheckedGenuine
<1>1. ASSUME AuditInv PROVE CheckedGenuine
  <2>1. SUFFICES ASSUME NEW o \in Tenants, NEW e \in Checked(o)
                 PROVE  /\ \E g \in written : Text(g) = Text(e)
                        /\ e.seq = 1 \/ \E f \in Checked(o) : f.seq = e.seq - 1 /\ e.prev = f.hash
    BY DEF CheckedGenuine
  <2>2. e \in entries /\ e.org = o /\ e.seq \in Int /\ Good(e)
    BY <1>1 DEF Checked, Chain, AuditInv, Shaped
  <2>3. PICK g \in written : e.hash = HashOf(g) /\ HashOf(e) = HashOf(g)
    BY <1>1, <2>2, HashShape DEF AuditInv, HashesWritten, Good
  <2>4. Text(g) = Text(e)
    BY <1>1, <2>2, <2>3, SameText DEF Good
  <2>5. CASE Before(e) = {}
    <3>1. g.prev = Genesis /\ g.seq = e.seq
      BY <2>2, <2>3, <2>5, HashInjective DEF Good, Follows
    <3> QED
      BY <1>1, <2>4, <3>1 DEF AuditInv, HashesWritten
  <2>6. ASSUME NEW f \in Before(e) PROVE f \in Checked(o) /\ f.seq = e.seq - 1 /\ e.prev = f.hash
    <3>1. f \in Chain(o) /\ f.seq < e.seq /\ f.seq \in Int
      BY <1>1, <2>2, <2>6 DEF Before, Newest, Chain, AuditInv, Shaped
    <3>2. f \in Checked(o)
      BY <1>1, <2>2, <3>1 DEF Checked, Chain, AuditInv, Shaped
    <3> QED
      BY <2>2, <2>6, <3>1, <3>2 DEF Good, Follows
  <2> QED
    BY <2>4, <2>5, <2>6
<1> QED
  BY <1>1, AuditInvAlways, PTL

-----------------------------------------------------------------------------
(* Temperatures and months.  The days of months and years are those of the    *)
(* Gregorian calendar, so a month found by its bounds is a month found by its *)
(* days.                                                                     *)

(* Leap days of the years up to z, by the rule of the Gregorian calendar. *)
LeapDays(z) == z \div 4 - z \div 100 + z \div 400

(* A quotient grows by one at the multiples of the divisor. *)
LEMMA Quotient ==
  ASSUME NEW z \in Int, NEW d \in {4, 100, 400}
  PROVE  z \div d = (z - 1) \div d + IF z % d = 0 THEN 1 ELSE 0
<1>1. CASE d = 4
  BY <1>1
<1>2. CASE d = 100
  BY <1>2
<1>3. CASE d = 400
  BY <1>3
<1> QED
  BY <1>1, <1>2, <1>3

(* The leap years are those at which the number of leap days grows. *)
LEMMA LeapStep ==
  ASSUME NEW z \in Int
  PROVE  /\ LeapDays(z) \in Int /\ LeapDays(z - 1) \in Int
         /\ LeapDays(z) = LeapDays(z - 1) + IF Leap(z) THEN 1 ELSE 0
<1>1. z \div 4 \in Int /\ z \div 100 \in Int /\ z \div 400 \in Int
      /\ (z - 1) \div 4 \in Int /\ (z - 1) \div 100 \in Int /\ (z - 1) \div 400 \in Int
  OBVIOUS
<1>2. z % 400 = 0 => z % 100 = 0
  OBVIOUS
<1>3. z % 100 = 0 => z % 4 = 0
  OBVIOUS
<1>4. z \div 4 = (z - 1) \div 4 + IF z % 4 = 0 THEN 1 ELSE 0
  BY Quotient
<1>5. z \div 100 = (z - 1) \div 100 + IF z % 100 = 0 THEN 1 ELSE 0
  BY Quotient
<1>6. z \div 400 = (z - 1) \div 400 + IF z % 400 = 0 THEN 1 ELSE 0
  BY Quotient
<1> QED
  BY <1>1, <1>2, <1>3, <1>4, <1>5, <1>6 DEF LeapDays, Leap

(* The days before a month in a year counted from March. *)
LEMMA FirstDays ==
  ASSUME NEW y \in Int
  PROVE  LET a == 365 * (y - 1) + LeapDays(y - 1) - 719468
             b == 365 * y + LeapDays(y) - 719468
         IN  /\ FirstDay(y, 1) = a + 306 /\ FirstDay(y, 2) = a + 337 /\ FirstDay(y, 3) = b
             /\ FirstDay(y, 4) = b + 31 /\ FirstDay(y, 5) = b + 61 /\ FirstDay(y, 6) = b + 92
             /\ FirstDay(y, 7) = b + 122 /\ FirstDay(y, 8) = b + 153 /\ FirstDay(y, 9) = b + 184
             /\ FirstDay(y, 10) = b + 214 /\ FirstDay(y, 11) = b + 245 /\ FirstDay(y, 12) = b + 275
BY DEF FirstDay, LeapDays

(* The table of MonthDays is the calendar of FirstDay. *)
LEMMA MonthStep ==
  ASSUME NEW y \in Int, NEW m \in 1..12
  PROVE  /\ FirstDay(y, m) \in Int /\ MonthDays(y, m) \in 28..31
         /\ FirstDay(NextMonth(y, m)[1], NextMonth(y, m)[2]) = FirstDay(y, m) + MonthDays(y, m)
<1>1. LeapDays(y) \in Int /\ LeapDays(y - 1) \in Int
      /\ LeapDays(y) = LeapDays(y - 1) + IF Leap(y) THEN 1 ELSE 0
  BY LeapStep
<1>2. CASE m = 12
  <2>1. FirstDay(y + 1, 1) = 365 * y + LeapDays(y) - 719468 + 306
    <3>1. (y + 1) - 1 = y /\ y + 1 \in Int
      OBVIOUS
    <3> QED
      BY <3>1, FirstDays
  <2> QED
    BY <1>1, <1>2, <2>1, FirstDays DEF NextMonth, MonthDays
<1>3. CASE m # 12
  <2>1. NextMonth(y, m)[1] = y /\ NextMonth(y, m)[2] = m + 1
    BY <1>3 DEF NextMonth
  <2>2. m \in {1, 2, 3, 4, 5, 6, 7, 8, 9, 10, 11}
    BY <1>3
  <2> QED
    BY <1>1, <2>1, <2>2, FirstDays DEF MonthDays
<1> QED
  BY <1>2, <1>3

(* Rounding moves by half a unit at most. *)
LEMMA RoundedNear ==
  ASSUME NEW n \in Int, NEW d \in {10, 90}
  PROVE  LET k == Rounded(n, d) IN
         /\ k \in Int
         /\ 2 * Dist(k * d, n) <= d
         /\ 2 * Dist(k * d, n) = d => Dist(k, 0) * d > Dist(n, 0)
<1>1. CASE d = 10
  BY <1>1 DEF Rounded, Dist
<1>2. CASE d = 90
  BY <1>2 DEF Rounded, Dist
<1> QED
  BY <1>1, <1>2
-----------------------------------------------------------------------------
(* The days before a year are 365.2425 for each, give or take two. *)
LEMMA YearBounds ==
  ASSUME NEW y \in Int
  PROVE  /\ FirstDay(y, 1) \in Int
         /\ 146097 * (y - 1970) - 506 <= 400 * FirstDay(y, 1)
         /\ 400 * FirstDay(y, 1) <= 146097 * (y - 1970) + 589
<1> DEFINE z == y - 1
<1>1. FirstDay(y, 1) = 365 * z + LeapDays(z) - 719162
  BY FirstDays, LeapStep
<1>2. z \in Int
  OBVIOUS
<1> HIDE DEF z
<1>3. LeapDays(z) \in Int
  BY <1>2, LeapStep
<1>4. 97 * z - 699 <= 400 * LeapDays(z) /\ 400 * LeapDays(z) <= 97 * z + 396
  BY <1>2 DEF LeapDays
<1>5. FirstDay(y, 1) \in Int
  BY <1>1, <1>2, <1>3
<1>6. 400 * FirstDay(y, 1) = 146000 * z + 400 * LeapDays(z) - 287664800
  BY <1>1, <1>2, <1>3, SMT
<1>7. 146097 * (y - 1970) = 146097 * z - 287664993
  BY SMT DEF z
<1> QED
  BY <1>2, <1>3, <1>4, <1>5, <1>6, <1>7, SMT

(* The first day of the next year. *)
LEMMA YearStep ==
  ASSUME NEW y \in Int
  PROVE  FirstDay(y + 1, 1) = FirstDay(y, 1) + IF Leap(y) THEN 366 ELSE 365
<1>1. (y + 1) - 1 = y /\ y + 1 \in Int
  OBVIOUS
<1>2. FirstDay(y + 1, 1) = 365 * y + LeapDays(y) - 719468 + 306
  BY <1>1, FirstDays
<1>3. FirstDay(y, 1) = 365 * (y - 1) + LeapDays(y - 1) - 719468 + 306
  BY FirstDays
<1> QED
  BY <1>2, <1>3, LeapStep

(* Years start in their order. *)
LEMMA YearsAscend ==
  ASSUME NEW x \in Int, NEW y \in Int, x <= y
  PROVE  FirstDay(x, 1) <= FirstDay(y, 1)
<1>1. FirstDay(x, 1) \in Int /\ 400 * FirstDay(x, 1) <= 146097 * (x - 1970) + 589
  BY YearBounds
<1>2. FirstDay(y, 1) \in Int /\ 146097 * (y - 1970) - 506 <= 400 * FirstDay(y, 1)
  BY YearBounds
<1>3. x = y \/ 146097 * (x - 1970) <= 146097 * (y - 1970) - 146097
  BY SMT
<1> QED
  BY <1>1, <1>2, <1>3, SMT

(* Every day since 1970 is in a year. *)
LEMMA YearExists ==
  ASSUME NEW day \in Nat
  PROVE  \E y \in Nat : FirstDay(y, 1) <= day /\ day < FirstDay(y + 1, 1)
<1> DEFINE T == {k \in Nat : day < FirstDay(k + 1, 1)}
<1>1. 1970 + day \in T
  <2>1. 1970 + day \in Nat /\ (1970 + day) + 1 \in Int
    OBVIOUS
  <2>2. ASSUME NEW y \in Int, y = 1970 + day + 1 PROVE day < FirstDay(y, 1)
    <3>1. FirstDay(y, 1) \in Int /\ 146097 * (y - 1970) - 506 <= 400 * FirstDay(y, 1)
      BY YearBounds
    <3>2. 146097 * (y - 1970) = 146097 * day + 146097
      BY <2>2, SMT
    <3> QED
      BY <3>1, <3>2, SMT
  <2>3. day < FirstDay((1970 + day) + 1, 1)
    BY <2>1, <2>2
  <2> QED
    BY <2>1, <2>3
<1>2. PICK y \in T : \A k \in T : y <= k
  <2>1. T \in SUBSET Nat
    OBVIOUS
  <2> HIDE DEF T
  <2> QED
    BY <1>1, <2>1, LeastNumber
<1>3. FirstDay(y, 1) <= day
  <2>1. CASE y = 0
    <3>1. FirstDay(1970, 1) = 0
      BY DEF FirstDay
    <3>2. 0 \in Int /\ 1970 \in Int /\ 0 <= 1970
      OBVIOUS
    <3>3. FirstDay(0, 1) <= FirstDay(1970, 1)
      BY <3>2, YearsAscend
    <3>4. FirstDay(0, 1) \in Int
      BY <3>2, YearBounds
    <3> QED
      BY <2>1, <3>1, <3>3, <3>4
  <2>2. CASE y # 0
    <3>1. y - 1 \in Nat /\ (y - 1) + 1 = y /\ y - 1 \notin T
      BY <1>2, <2>2
    <3>2. ~ (day < FirstDay(y, 1)) /\ FirstDay(y, 1) \in Int
      BY <3>1, YearBounds
    <3> QED
      BY <3>2
  <2> QED
    BY <2>1, <2>2
<1> QED
  BY <1>2, <1>3

(* YearOf finds that year: it looks far enough, and there is only one. *)
LEMMA YearFound ==
  ASSUME NEW day \in Nat, NEW y \in Int, FirstDay(y, 1) <= day, day < FirstDay(y + 1, 1)
  PROVE  YearOf(day) = y
<1> DEFINE guess == 1970 + day \div 366
           last == guess + day \div 130000 + 1
           In(x) == FirstDay(x, 1) <= day /\ day < FirstDay(x, 1) + IF Leap(x) THEN 366 ELSE 365
<1>0. guess \in Int /\ last \in Int /\ FirstDay(y, 1) \in Int
  BY YearBounds
<1>1. guess <= y
  <2>1. 366 * (guess - 1970) <= day
    OBVIOUS
  <2>2. 1970 <= y
    <3>1. FirstDay(1970, 1) = 0
      BY DEF FirstDay
    <3>2. y + 1 \in Int /\ (y + 1 <= 1970 => FirstDay(y + 1, 1) <= FirstDay(1970, 1))
      BY YearsAscend
    <3>3. FirstDay(y + 1, 1) \in Int
      BY <3>2, YearBounds
    <3> QED
      BY <3>1, <3>2, <3>3
  <2>3. FirstDay(y + 1, 1) <= 366 * (y - 1969)
    <3>1. FirstDay(y + 1, 1) = 365 * y + LeapDays(y) - 719162
      <4>1. (y + 1) - 1 = y /\ y + 1 \in Int
        OBVIOUS
      <4> QED
        BY <4>1, FirstDays, LeapStep
    <3>2. LeapDays(y) \in Int /\ LeapDays(y) <= y - 1492
      BY <2>2 DEF LeapDays
    <3> QED
      BY <3>1, <3>2
  <2>4. FirstDay(y + 1, 1) \in Int
    <3>1. y + 1 \in Int
      OBVIOUS
    <3> QED
      BY <3>1, YearBounds
  <2> HIDE DEF guess
  <2> QED
    BY <1>0, <2>1, <2>3, <2>4
<1>2. y <= last
  <2>1. 146097 * (y - 1970) - 506 <= 400 * FirstDay(y, 1)
    BY YearBounds
  <2>2. day <= 366 * (guess - 1970) + 365 /\ day <= 130000 * (last - guess - 1) + 129999
    BY SMT
  <2> HIDE DEF guess, last
  <2> QED
    BY <1>0, <2>1, <2>2, SMT
<1>3. In(y)
  <2>1. FirstDay(y + 1, 1) = FirstDay(y, 1) + IF Leap(y) THEN 366 ELSE 365
    BY YearStep
  <2> QED
    BY <2>1
<1>4. ASSUME NEW x \in guess..last, In(x) PROVE x = y
  <2>1. x \in Int /\ FirstDay(x, 1) \in Int /\ FirstDay(y + 1, 1) \in Int /\ FirstDay(x + 1, 1) \in Int
    <3>1. x \in Int /\ x + 1 \in Int /\ y + 1 \in Int
      BY <1>0
    <3>2. \A z \in Int : FirstDay(z, 1) \in Int
      BY YearBounds
    <3> HIDE DEF guess, last, In
    <3> QED
      BY <3>1, <3>2
  <2>2. day < FirstDay(x + 1, 1) /\ FirstDay(x, 1) <= day
    BY <1>4, <2>1, YearStep
  <2>3. ~ (x + 1 <= y)
    <3>1. x + 1 \in Int
      BY <2>1
    <3> QED
      BY <1>0, <2>1, <2>2, <3>1, YearsAscend
  <2>4. ~ (y + 1 <= x)
    <3>1. y + 1 \in Int
      OBVIOUS
    <3> QED
      BY <1>0, <2>1, <2>2, <3>1, YearsAscend
  <2> QED
    BY <2>1, <2>3, <2>4
<1> HIDE DEF In
<1>5. YearOf(day) = CHOOSE x \in guess..last : In(x)
  BY DEF YearOf, In
<1>6. y \in guess..last
  BY <1>0, <1>1, <1>2
<1> HIDE DEF guess, last
<1> QED
  BY <1>3, <1>4, <1>5, <1>6

-----------------------------------------------------------------------------
(* The days of a year before month m, and before the next year. *)
DaysBefore(y, m) == (IF m = 13 THEN FirstDay(y + 1, 1) ELSE FirstDay(y, m)) - FirstDay(y, 1)

(* The calendar as a table. *)
LEMMA BeforeMonths ==
  ASSUME NEW y \in Int
  PROVE  LET leap == IF Leap(y) THEN 1 ELSE 0
         IN  /\ DaysBefore(y, 1) = 0 /\ DaysBefore(y, 2) = 31 /\ DaysBefore(y, 3) = 59 + leap
             /\ DaysBefore(y, 4) = 90 + leap /\ DaysBefore(y, 5) = 120 + leap /\ DaysBefore(y, 6) = 151 + leap
             /\ DaysBefore(y, 7) = 181 + leap /\ DaysBefore(y, 8) = 212 + leap /\ DaysBefore(y, 9) = 243 + leap
             /\ DaysBefore(y, 10) = 273 + leap /\ DaysBefore(y, 11) = 304 + leap /\ DaysBefore(y, 12) = 334 + leap
             /\ DaysBefore(y, 13) = 365 + leap
<1>1. LeapDays(y) \in Int /\ LeapDays(y - 1) \in Int
      /\ LeapDays(y) = LeapDays(y - 1) + IF Leap(y) THEN 1 ELSE 0
  BY LeapStep
<1>2. FirstDay(y + 1, 1) = FirstDay(y, 1) + IF Leap(y) THEN 366 ELSE 365
  BY YearStep
<1> DEFINE a == 365 * (y - 1) + LeapDays(y - 1) - 719468
           b == 365 * y + LeapDays(y) - 719468
<1>3. a \in Int /\ b = a + IF Leap(y) THEN 366 ELSE 365
  BY <1>1, SMT
<1>4. /\ FirstDay(y, 1) = a + 306 /\ FirstDay(y, 2) = a + 337 /\ FirstDay(y, 3) = b
      /\ FirstDay(y, 4) = b + 31 /\ FirstDay(y, 5) = b + 61 /\ FirstDay(y, 6) = b + 92
      /\ FirstDay(y, 7) = b + 122 /\ FirstDay(y, 8) = b + 153 /\ FirstDay(y, 9) = b + 184
      /\ FirstDay(y, 10) = b + 214 /\ FirstDay(y, 11) = b + 245 /\ FirstDay(y, 12) = b + 275
  BY FirstDays, SMT
<1> HIDE DEF a, b
<1>5. CASE Leap(y)
  BY <1>2, <1>3, <1>4, <1>5 DEF DaysBefore
<1>6. CASE ~ Leap(y)
  BY <1>2, <1>3, <1>4, <1>6 DEF DaysBefore
<1> QED
  BY <1>5, <1>6

(* What the recursion of Elapsed computes. *)
LEMMA ElapsedIs ==
  ASSUME NEW y \in Int, NEW m \in 1..13
  PROVE  Elapsed(y, m) = DaysBefore(y, m)
<1> DEFINE Rec(f) == f = [k \in 1..13 |-> IF k = 1 THEN 0 ELSE f[k - 1] + MonthDays(y, k - 1)]
           g == [k \in 1..13 |-> DaysBefore(y, k)]
           h == CHOOSE f : Rec(f)
<1>1. Elapsed(y, m) = h[m]
  BY DEF Elapsed
<1>2. ASSUME NEW k \in 1..13, k # 1 PROVE DaysBefore(y, k) = DaysBefore(y, k - 1) + MonthDays(y, k - 1)
  <2>1. k \in {2, 3, 4, 5, 6, 7, 8, 9, 10, 11, 12, 13}
    BY <1>2
  <2> QED
    BY <2>1, BeforeMonths DEF MonthDays
<1>3. Rec(g)
  <2>1. DaysBefore(y, 1) = 0
    BY BeforeMonths
  <2>2. \A k \in 1..13 : k # 1 => k - 1 \in 1..13
    OBVIOUS
  <2>3. \A k \in 1..13 : g[k] = IF k = 1 THEN 0 ELSE g[k - 1] + MonthDays(y, k - 1)
    BY <1>2, <2>1, <2>2
  <2> QED
    BY <2>3
<1>4. Rec(h)
  BY <1>3
<1> HIDE DEF h
<1>5. h[1] = 0 /\ \A k \in 1..13 : k # 1 => h[k] = h[k - 1] + MonthDays(y, k - 1)
  BY <1>4
<1>6. DaysBefore(y, 1) = 0
  BY BeforeMonths
<1>7. /\ h[1] = DaysBefore(y, 1) /\ h[2] = DaysBefore(y, 2) /\ h[3] = DaysBefore(y, 3) /\ h[4] = DaysBefore(y, 4)
      /\ h[5] = DaysBefore(y, 5) /\ h[6] = DaysBefore(y, 6) /\ h[7] = DaysBefore(y, 7)
  BY <1>2, <1>5, <1>6
<1>8. /\ h[8] = DaysBefore(y, 8) /\ h[9] = DaysBefore(y, 9) /\ h[10] = DaysBefore(y, 10)
      /\ h[11] = DaysBefore(y, 11) /\ h[12] = DaysBefore(y, 12) /\ h[13] = DaysBefore(y, 13)
  BY <1>2, <1>5, <1>7
<1> QED
  BY <1>1, <1>7, <1>8

(* A day is in one month of its year only. *)
LEMMA MonthFound ==
  ASSUME NEW y \in Int, NEW m \in 1..12, NEW d \in Int, DaysBefore(y, m) <= d, d < DaysBefore(y, m + 1)
  PROVE  MonthIn(y, d) = m
<1> DEFINE In(k) == Elapsed(y, k) <= d /\ d < Elapsed(y, k + 1)
<1>1. In(m)
  BY ElapsedIs
<1>2. ASSUME NEW k \in 1..12, In(k) PROVE k = m
  <2>1. DaysBefore(y, k) <= d /\ d < DaysBefore(y, k + 1)
    BY <1>2, ElapsedIs
  <2>2. \A i \in 1..12, j \in 1..12 : i < j => DaysBefore(y, i + 1) <= DaysBefore(y, j)
    BY BeforeMonths
  <2>3. DaysBefore(y, k) \in Int /\ DaysBefore(y, k + 1) \in Int /\ DaysBefore(y, m) \in Int /\ DaysBefore(y, m + 1) \in Int
    BY BeforeMonths
  <2> QED
    BY <2>1, <2>2, <2>3
<1>3. MonthIn(y, d) = CHOOSE k \in 1..12 : In(k)
  BY DEF MonthIn
<1> HIDE DEF In
<1> QED
  BY <1>1, <1>2, <1>3

(* A day of a year is in one of its months. *)
LEMMA MonthExists ==
  ASSUME NEW y \in Int, NEW d \in Nat, d < DaysBefore(y, 13)
  PROVE  \E m \in 1..12 : DaysBefore(y, m) <= d /\ d < DaysBefore(y, m + 1)
<1>1. SUFFICES \E m \in {1, 2, 3, 4, 5, 6, 7, 8, 9, 10, 11, 12} :
                 DaysBefore(y, m) <= d /\ d < DaysBefore(y, m + 1)
  OBVIOUS
<1> QED
  BY BeforeMonths

-----------------------------------------------------------------------------
(* Months do not reach beyond their year. *)
LEMMA MonthInYear ==
  ASSUME NEW y \in Int, NEW m \in 1..12
  PROVE  LET n == NextMonth(y, m) IN
         /\ FirstDay(y, m) \in Int /\ FirstDay(n[1], n[2]) \in Int
         /\ FirstDay(y, m) = FirstDay(y, 1) + DaysBefore(y, m)
         /\ FirstDay(n[1], n[2]) = FirstDay(y, 1) + DaysBefore(y, m + 1)
         /\ DaysBefore(y, m) \in Int /\ DaysBefore(y, m + 1) \in Int
         /\ 0 <= DaysBefore(y, m) /\ DaysBefore(y, m + 1) <= DaysBefore(y, 13)
         /\ DaysBefore(y, 13) \in Int /\ FirstDay(y, 1) \in Int
         /\ FirstDay(y + 1, 1) = FirstDay(y, 1) + DaysBefore(y, 13)
<1>1. FirstDay(y, 1) \in Int /\ FirstDay(y, m) \in Int /\ MonthDays(y, m) \in Int
      /\ FirstDay(NextMonth(y, m)[1], NextMonth(y, m)[2]) = FirstDay(y, m) + MonthDays(y, m)
  <2>1. /\ FirstDay(y, m) \in Int /\ MonthDays(y, m) \in 28..31
        /\ FirstDay(NextMonth(y, m)[1], NextMonth(y, m)[2]) = FirstDay(y, m) + MonthDays(y, m)
    BY MonthStep
  <2>2. FirstDay(y, 1) \in Int
    BY YearBounds
  <2> QED
    BY <2>1, <2>2
<1>2. FirstDay(y + 1, 1) \in Int
  <2>1. y + 1 \in Int
    OBVIOUS
  <2> QED
    BY <2>1, YearBounds
<1>3. DaysBefore(y, m) = FirstDay(y, m) - FirstDay(y, 1)
  <2>1. m # 13
    OBVIOUS
  <2> QED
    BY <2>1 DEF DaysBefore
<1>4. DaysBefore(y, m + 1) = FirstDay(NextMonth(y, m)[1], NextMonth(y, m)[2]) - FirstDay(y, 1)
  <2>1. CASE m = 12
    BY <2>1 DEF DaysBefore, NextMonth
  <2>2. CASE m # 12
    BY <2>2 DEF DaysBefore, NextMonth
  <2> QED
    BY <2>1, <2>2
<1>5. DaysBefore(y, 13) = FirstDay(y + 1, 1) - FirstDay(y, 1)
  BY DEF DaysBefore
<1>6. 0 <= DaysBefore(y, m) /\ DaysBefore(y, m + 1) <= DaysBefore(y, 13)
  <2>1. m \in {1, 2, 3, 4, 5, 6, 7, 8, 9, 10, 11, 12}
    OBVIOUS
  <2>2. CASE Leap(y)
    BY <2>1, <2>2, BeforeMonths
  <2>3. CASE ~ Leap(y)
    BY <2>1, <2>3, BeforeMonths
  <2> QED
    BY <2>2, <2>3
<1> QED
  BY <1>1, <1>2, <1>3, <1>4, <1>5, <1>6

(* A time is in the snapshot of a month exactly if its day is in the month. *)
LEMMA SnapshotDays ==
  ASSUME NEW ts \in Nat, NEW y \in Int, NEW m \in 1..12
  PROVE  /\ ts \div 2 \in Nat
         /\ InSnapshot(ts, y, m) <=>
              LET n == NextMonth(y, m)
              IN  FirstDay(y, m) <= ts \div 2 /\ ts \div 2 < FirstDay(n[1], n[2])
<1> DEFINE p == FirstDay(y, m)
           q == FirstDay(NextMonth(y, m)[1], NextMonth(y, m)[2])
<1>1. p \in Int /\ q \in Int
  BY MonthInYear
<1>2. InSnapshot(ts, y, m) <=> 2 * p <= ts /\ ts < 2 * q
  BY DEF InSnapshot, Start, End
<1> HIDE DEF p, q
<1>3. ts \div 2 \in Nat /\ 2 * (ts \div 2) <= ts /\ ts <= 2 * (ts \div 2) + 1
  OBVIOUS
<1>4. (2 * p <= ts /\ ts < 2 * q) <=> (p <= ts \div 2 /\ ts \div 2 < q)
  BY <1>1, <1>3
<1> QED
  BY <1>2, <1>3, <1>4 DEF p, q

(* For every month that can be locked and every time since 1970. *)
LEMMA LockIsSnapshot ==
  ASSUME NEW ts \in Nat, NEW y \in Int, NEW m \in 1..12, Lockable(y, m)
  PROVE  InSnapshot(ts, y, m) <=> MonthOf(ts) = <<y, m>>
<1> DEFINE day == ts \div 2
           n == NextMonth(y, m)
<1>1. day \in Nat /\ (InSnapshot(ts, y, m) <=> FirstDay(y, m) <= day /\ day < FirstDay(n[1], n[2]))
  BY SnapshotDays
<1>2. LastYear \in Int /\ LastYear + 1 \in Int /\ y + 1 <= LastYear + 1 /\ y + 1 \in Int
  <2>1. LastYear \in Int
    BY SMT DEF LastYear
  <2>2. y \in 1..LastYear
    BY DEF Lockable
  <2> QED
    BY <2>1, <2>2
<1>3. MonthOf(ts) = IF day >= FirstDay(LastYear + 1, 1) THEN NoMonth
                      ELSE <<YearOf(day), MonthIn(YearOf(day), day - FirstDay(YearOf(day), 1))>>
  BY DEF MonthOf
<1>4. FirstDay(LastYear + 1, 1) \in Int
  BY <1>2, YearBounds
<1>7. /\ FirstDay(y, m) = FirstDay(y, 1) + DaysBefore(y, m)
      /\ FirstDay(n[1], n[2]) = FirstDay(y, 1) + DaysBefore(y, m + 1)
      /\ DaysBefore(y, m) \in Int /\ DaysBefore(y, m + 1) \in Int
      /\ 0 <= DaysBefore(y, m) /\ DaysBefore(y, m + 1) <= DaysBefore(y, 13)
      /\ DaysBefore(y, 13) \in Int /\ FirstDay(y, 1) \in Int
      /\ FirstDay(y + 1, 1) = FirstDay(y, 1) + DaysBefore(y, 13)
  BY MonthInYear
<1> HIDE DEF day, n
<1>5. ASSUME InSnapshot(ts, y, m) PROVE MonthOf(ts) = <<y, m>>
  <2>1. FirstDay(y, 1) <= day /\ day < FirstDay(y + 1, 1)
        /\ DaysBefore(y, m) <= day - FirstDay(y, 1) /\ day - FirstDay(y, 1) < DaysBefore(y, m + 1)
        /\ FirstDay(y, 1) \in Int /\ FirstDay(y + 1, 1) \in Int
    BY <1>1, <1>5, <1>7
  <2>2. YearOf(day) = y
    BY <1>1, <2>1, YearFound
  <2>3. day - FirstDay(y, 1) \in Int
    BY <1>1, <2>1
  <2>4. MonthIn(y, day - FirstDay(y, 1)) = m
    BY <2>1, <2>3, MonthFound
  <2>5. FirstDay(y + 1, 1) <= FirstDay(LastYear + 1, 1)
    BY <1>2, YearsAscend
  <2>6. ~ (day >= FirstDay(LastYear + 1, 1))
    BY <1>1, <1>4, <2>1, <2>5
  <2> QED
    BY <1>3, <2>2, <2>4, <2>6
<1>6. ASSUME MonthOf(ts) = <<y, m>> PROVE InSnapshot(ts, y, m)
  <2>1. YearOf(day) = y /\ MonthIn(y, day - FirstDay(y, 1)) = m
    <3>1. MonthOf(ts) # NoMonth
      BY <1>6 DEF NoMonth
    <3> QED
      BY <1>3, <1>6, <3>1
  <2>2. PICK z \in Nat : FirstDay(z, 1) <= day /\ day < FirstDay(z + 1, 1)
    BY <1>1, YearExists
  <2>3. z = y
    BY <1>1, <2>1, <2>2, YearFound
  <2>4. FirstDay(y, 1) \in Int /\ FirstDay(y + 1, 1) = FirstDay(y, 1) + DaysBefore(y, 13) /\ DaysBefore(y, 13) \in Int
    BY MonthInYear
  <2>5. day - FirstDay(y, 1) \in Nat /\ day - FirstDay(y, 1) < DaysBefore(y, 13)
    BY <1>1, <2>2, <2>3, <2>4
  <2>6. PICK k \in 1..12 : DaysBefore(y, k) <= day - FirstDay(y, 1) /\ day - FirstDay(y, 1) < DaysBefore(y, k + 1)
    BY <2>5, MonthExists
  <2>7. k = m
    <3>1. day - FirstDay(y, 1) \in Int
      BY <2>5
    <3> QED
      BY <2>1, <2>6, <3>1, MonthFound
  <2>8. FirstDay(y, m) <= day /\ day < FirstDay(n[1], n[2])
    BY <1>1, <1>7, <2>6, <2>7
  <2> QED
    BY <1>1, <2>8
<1> QED
  BY <1>5, <1>6

(* A temperature is accepted if its exact value rounds into the range. *)
LEMMA RangeExact ==
  ASSUME NEW n \in Int, NEW d \in {10, 90}
  PROVE  (MinMc <= Rounded(n, d) /\ Rounded(n, d) <= MaxMc) <=>
           ((2 * MinMc - 1) * d < 2 * n /\ 2 * n < (2 * MaxMc + 1) * d)
<1>1. MinMc \in Int /\ MaxMc \in Int /\ MinMc <= 0 /\ 0 <= MaxMc
  BY DigitsAssumption
<1>2. CASE d = 10
  BY <1>1, <1>2 DEF Rounded
<1>3. CASE d = 90
  BY <1>1, <1>3 DEF Rounded
<1> QED
  BY <1>2, <1>3

-----------------------------------------------------------------------------
(* What was asked and what was answered. *)
Units == {"C", "F", "K"}
AllYears == 0..LastYear
Months == 1..12

Temperature(q, a, u, v) == q = [op |-> "temp", unit |-> u, value |-> v] /\ a = Parse(u, v)

Month(q, a, y, m, ts) ==
  /\ q = [op |-> "month", year |-> y, month |-> m, ts |-> ts]
  /\ a = [ok |-> Lockable(y, m), frozen |-> InSnapshot(ts, y, m), refused |-> MonthOf(ts)]

Answers(q, a) ==
  \/ q.op = "none"
  \/ \E u \in Units, v \in Int : Temperature(q, a, u, v)
  \/ \E y \in AllYears, m \in Months, ts \in Nat : Month(q, a, y, m, ts)

AnswerInv == Answers(query, answer)

(* An answer tells which kind of question it belongs to. *)
LEMMA Question ==
  /\ \A q, a, u, v : Temperature(q, a, u, v) => q.op = "temp" /\ q.unit = u /\ q.value = v
  /\ \A q, a, y, m, ts : Month(q, a, y, m, ts) => q.op = "month" /\ q.year = y /\ q.month = m
BY DEF Temperature, Month

LEMMA LastYearInt == LastYear \in Int
BY SMT DEF LastYear

LEMMA CalendarConstants ==
  Years \subseteq AllYears /\ Offsets \subseteq Int
BY DigitsAssumption, Zenon DEF AllYears

(* Every step answers the question it asks. *)
LEMMA AnswerStep ==
  AnswerInv /\ [ConversionNext]_conversionVars => AnswerInv'
<1> SUFFICES ASSUME AnswerInv, [ConversionNext]_conversionVars PROVE AnswerInv'
  OBVIOUS
<1>1. CASE ParseTemp
  <2>1. PICK u \in DOMAIN Digits : \E v \in Digits[u] :
               query' = [op |-> "temp", unit |-> u, value |-> v] /\ answer' = Parse(u, v)
    BY <1>1 DEF ParseTemp
  <2>2. PICK v \in Digits[u] :
               query' = [op |-> "temp", unit |-> u, value |-> v] /\ answer' = Parse(u, v)
    BY <2>1
  <2>3. u \in Units /\ v \in Int
    BY DigitsAssumption DEF Units
  <2>4. Temperature(query', answer', u, v)
    BY <2>2, Zenon DEF Temperature
  <2> QED
    BY <2>3, <2>4, Zenon DEF AnswerInv, Answers
<1>2. CASE LockMonth
  <2>1. PICK y \in Years, m \in 1..12, off \in Offsets :
          \E bound \in {FirstDay(y, m), FirstDay(y, m) + MonthDays(y, m)} :
            /\ 2 * bound + off > 0
            /\ query' = [op |-> "month", year |-> y, month |-> m, ts |-> 2 * bound + off]
            /\ answer' = [ok |-> Lockable(y, m), frozen |-> InSnapshot(2 * bound + off, y, m),
                          refused |-> MonthOf(2 * bound + off)]
    BY <1>2 DEF LockMonth
  <2>2. PICK bound \in {FirstDay(y, m), FirstDay(y, m) + MonthDays(y, m)} :
            /\ 2 * bound + off > 0
            /\ query' = [op |-> "month", year |-> y, month |-> m, ts |-> 2 * bound + off]
            /\ answer' = [ok |-> Lockable(y, m), frozen |-> InSnapshot(2 * bound + off, y, m),
                          refused |-> MonthOf(2 * bound + off)]
    BY <2>1
  <2>3. y \in AllYears /\ off \in Int
    BY CalendarConstants
  <2>4. y \in Int
    BY <2>3, LastYearInt DEF AllYears
  <2>5. FirstDay(y, m) \in Int /\ MonthDays(y, m) \in 28..31
    BY <2>4, MonthStep
  <2>6. bound \in Int
    BY <2>5
  <2> DEFINE ts == 2 * bound + off
  <2>7. ts \in Nat
    BY <2>2, <2>3, <2>6
  <2> HIDE DEF ts
  <2>8. Month(query', answer', y, m, ts)
    BY <2>2, Zenon DEF ts, Month
  <2>9. y \in AllYears /\ m \in Months
    BY <2>3 DEF Months
  <2> QED
    BY <2>7, <2>8, <2>9, Zenon DEF AnswerInv, Answers
<1>3. CASE UNCHANGED conversionVars
  <2>1. query' = query /\ answer' = answer
    BY <1>3 DEF conversionVars
  <2> QED
    BY <2>1 DEF AnswerInv
<1> QED
  BY <1>1, <1>2, <1>3 DEF ConversionNext

LEMMA AnswerAlways == ConversionSpec => []AnswerInv
<1>1. ConversionInit => AnswerInv
  BY DEF ConversionInit, AnswerInv, Answers
<1> QED
  BY <1>1, AnswerStep, PTL DEF ConversionSpec

(* Every temperature in every unit is stored as the nearest millidegree, and *)
(* accepted exactly if it lies in the physical range (parse_temp_to_mc).      *)
THEOREM TemperaturesExact == ConversionSpec => []ParseExact
<1>1. AnswerInv => ParseExact
  <2> SUFFICES ASSUME AnswerInv, query.op = "temp" PROVE ParseExact
    BY DEF ParseExact
  <2>1. PICK u \in Units, v \in Int : Temperature(query, answer, u, v)
    <3>1. \A y, m, ts : ~ Month(query, answer, y, m, ts)
      BY Question
    <3>2. query.op # "none"
      OBVIOUS
    <3> QED
      BY <3>1, <3>2, Zenon DEF AnswerInv, Answers
  <2> DEFINE n == Above(u, v)
             d == Below(u)
             k == Rounded(n, d)
  <2>2. n \in Int /\ d \in {10, 90}
    <3>1. CASE u = "C"
      BY <3>1, SMT DEF Above, Below
    <3>2. CASE u = "F"
      BY <3>2, SMT DEF Above, Below
    <3>3. CASE u = "K"
      BY <3>3, SMT DEF Above, Below
    <3> QED
      BY <3>1, <3>2, <3>3 DEF Units
  <2>3. query.unit = u /\ query.value = v
    BY <2>1, Question
  <2>4. answer.mc = k /\ (answer.ok <=> MinMc <= k /\ k <= MaxMc)
    BY <2>1, Zenon DEF Parse, Temperature
  <2> HIDE DEF n, d
  <2>5. k \in Int /\ 2 * Dist(k * d, n) <= d
        /\ (2 * Dist(k * d, n) = d => Dist(k, 0) * d > Dist(n, 0))
    BY <2>2, RoundedNear
  <2>6. (MinMc <= k /\ k <= MaxMc) <=> ((2 * MinMc - 1) * d < 2 * n /\ 2 * n < (2 * MaxMc + 1) * d)
    BY <2>2, RangeExact
  <2> HIDE DEF k
  <2>7. answer.ok <=> (2 * MinMc - 1) * d < 2 * n /\ 2 * n < (2 * MaxMc + 1) * d
    BY <2>4, <2>6, Zenon
  <2> QED
    BY <2>3, <2>4, <2>5, <2>7, Zenon DEF ParseExact, n, d
<1> QED
  BY <1>1, AnswerAlways, PTL

(* The lock of any month refuses exactly the readings it has hashed, at any    *)
(* time since 1970 (lock_period and period_locked).                          *)
THEOREM LocksAreSnapshots == ConversionSpec => []LockCoversSnapshot
<1>1. AnswerInv => LockCoversSnapshot
  <2> SUFFICES ASSUME AnswerInv, query.op = "month" PROVE LockCoversSnapshot
    BY DEF LockCoversSnapshot
  <2>1. PICK y \in AllYears, m \in Months, ts \in Nat : Month(query, answer, y, m, ts)
    <3>1. \A u, v : ~ Temperature(query, answer, u, v)
      BY Question
    <3>2. query.op # "none"
      OBVIOUS
    <3> QED
      BY <3>1, <3>2, Zenon DEF AnswerInv, Answers
  <2>2. query.year = y /\ query.month = m
    BY <2>1, Question
  <2>3. /\ answer.ok = Lockable(y, m)
        /\ answer.frozen = InSnapshot(ts, y, m)
        /\ answer.refused = MonthOf(ts)
    BY <2>1 DEF Month
  <2>4. LastYear \in Int /\ y \in 0..LastYear /\ y \in Int /\ m \in 1..12
    <3>1. LastYear \in Int
      BY LastYearInt
    <3> QED
      BY <3>1 DEF AllYears, Months
  <2>5. Lockable(y, m) => (InSnapshot(ts, y, m) <=> MonthOf(ts) = <<y, m>>)
    BY <2>4, LockIsSnapshot
  <2>6. Lockable(y, m) \/ y = 0 \/ <<y, m>> = <<LastYear, 12>>
    <3>1. CASE m = 12
      <4>1. NextMonth(y, m)[1] = y + 1
        BY <3>1 DEF NextMonth
      <4> QED
        BY <2>4, <3>1, <4>1, SMT DEF Lockable
    <3>2. CASE m # 12
      <4>1. NextMonth(y, m)[1] = y
        BY <3>2 DEF NextMonth
      <4> QED
        BY <2>4, <4>1, SMT DEF Lockable
    <3> QED
      BY <3>1, <3>2
  <2> QED
    BY <2>2, <2>3, <2>5, <2>6, Zenon DEF LockCoversSnapshot
<1> QED
  BY <1>1, AnswerAlways, PTL

-----------------------------------------------------------------------------
(* The simulator.  A run's numbers are above all that are stored when they    *)
(* are read, and what devices store later has other times than the run's     *)
(* readings: it ends the run and is never taken for one of its readings.     *)

(* What the run has added to the tables it sees, the numbers of a device among
   some readings, and the devices that a list has once. *)
Added == Seen.readings \ readings
Numbers(rs, x) == {r.seq : r \in {q \in rs : q.dev = x}}
OnceIn(list, i) == \A j \in DOMAIN list : list[i] = list[j] => i = j
(* Readings sent so far for the place j of the list. *)
Sent(j) == IF j < sim.i THEN sim.t + 1 ELSE sim.t

(* Runs and the numbers of readings are integers, and of the past. *)
Stored ==
  /\ runs \in Nat
  /\ \A r \in readings : r.by \in 0..runs /\ r.seq \in Int
  /\ \A s \in summaries : s.run \in 1..runs

CountType == [sent : Int, accepted : Int, duplicates : Int, quarantined : Int]

(* The local variables of a run. *)
RunShape ==
  /\ sim = [pc |-> sim.pc, list |-> sim.list, starts |-> sim.starts, t |-> sim.t, i |-> sim.i,
            draft |-> sim.draft, count |-> sim.count]
  /\ sim.pc \in {"number", "send"}
  /\ sim.list \in Targets
  /\ sim.starts \in Seq(Int)
  /\ sim.t \in 0..Steps /\ sim.i \in 1..Len(sim.list)
  /\ sim.draft = [readings |-> sim.draft.readings, evaluated |-> sim.draft.evaluated]
  /\ sim.count \in CountType
  /\ sim.pc = "number" =>
       Len(sim.starts) < Len(sim.list) /\ sim.t = 0 /\ sim.i = 1 /\ sim.draft = Draft0
  /\ sim.pc = "send" => Len(sim.starts) = Len(sim.list)

(* A run in progress has neither stored nor returned anything.*)
Unsettled == \A s \in readings : s.by # runs
NotReturned == \A s \in summaries : s.run # runs

(* A device whose number was read has stored nothing from there on, or later, at
   a time of its own. *)
NumbersTaken == \A j \in DOMAIN sim.starts : \A r \in readings :
  r.dev = sim.list[j] /\ r.seq >= sim.starts[j] => r.ts = 1

(* The draft is the tables and what the run has added. *)
DraftExtends ==
  /\ readings \subseteq Seen.readings
  /\ Seen.evaluated = Having(Seen.readings, "accepted")
  /\ IsFiniteSet(Added)
  /\ \A r \in Added : r.by = runs /\ r.seq \in Int

(* The summary counts what was added. *)
CountsAgree ==
  /\ sim.count.accepted = Cardinality(Having(Added, "accepted"))
  /\ sim.count.quarantined = Cardinality(Having(Added, "quarantined"))
  /\ sim.count.sent = sim.count.duplicates + Cardinality(Added)

(* A device that is listed once has got consecutive numbers, one a step. *)
OneByOne ==
  /\ sim.t = Steps => sim.i = 1
  /\ sim.pc = "send" => \A j \in DOMAIN sim.list : OnceIn(sim.list, j) =>
       Numbers(Added, sim.list[j]) = sim.starts[j]..(sim.starts[j] + Sent(j) - 1)

RunStarted == runs >= 1

InProgress ==
  RunStarted /\ RunShape /\ Unsettled /\ NotReturned /\ NumbersTaken /\ DraftExtends /\ CountsAgree /\ OneByOne

SimulationInv == Stored /\ SimulationWhole /\ (sim = NoRun \/ InProgress)

-----------------------------------------------------------------------------
(* SimulationWhole, run by run. *)
Returned(k) == \E s \in summaries : s.run = k

Tallied(s, rs) ==
  /\ s.count.accepted = Cardinality(Having(rs, "accepted"))
  /\ s.count.quarantined = Cardinality(Having(rs, "quarantined"))
  /\ s.count.sent = s.count.duplicates + Cardinality(rs)
  /\ \A i \in DOMAIN s.list : OnceIn(s.list, i) =>
       /\ Cardinality(Numbers(rs, s.list[i])) = Steps
       /\ \A m, n \in Numbers(rs, s.list[i]) : m < n + Steps

WholeRun(k) ==
  /\ \A s \in summaries : s.run = k => Tallied(s, Of(k))
  /\ ~ Returned(k) => Of(k) = {}

LEMMA WholeRuns ==
  SimulationWhole <=> /\ evaluated = Having(readings, "accepted")
                      /\ \A k \in 1..runs : WholeRun(k)
BY DEF SimulationWhole, WholeRun, Returned, Tallied, OnceIn, Numbers

LEMMA WholeNext ==
  ASSUME evaluated' = Having(readings', "accepted"), \A k \in 1..runs' : WholeRun(k)'
  PROVE  SimulationWhole'
BY DEF SimulationWhole, WholeRun, Returned, Tallied, OnceIn, Numbers, Having

(* A run depends on its own readings and its own summary alone. *)
LEMMA RunLocal ==
  ASSUME NEW k, WholeRun(k), Of(k)' = Of(k),
         \A s : s.run = k => (s \in summaries' <=> s \in summaries)
  PROVE  WholeRun(k)'
<1>1. Returned(k)' <=> Returned(k)
  BY DEF Returned
<1>2. ASSUME NEW s \in summaries', s.run = k
      PROVE  Tallied(s, Of(k))'
  <2>1. Tallied(s, Of(k))
    BY <1>2 DEF WholeRun
  <2> QED
    BY <2>1 DEF Tallied, Numbers, OnceIn, Having
<1>3. ~ Returned(k)' => Of(k)' = {}
  BY <1>1 DEF WholeRun
<1> QED
  BY <1>2, <1>3 DEF WholeRun

(* Nothing that is stored changes. *)
LEMMA StoredFrame ==
  ASSUME SimulationInv, UNCHANGED <<readings, evaluated, runs, summaries>>
  PROVE  Stored' /\ SimulationWhole'
<1>1. Stored'
  BY DEF SimulationInv, Stored
<1>2. ASSUME NEW k \in 1..runs
      PROVE  WholeRun(k)'
  <2>1. WholeRun(k) /\ Of(k)' = Of(k)
    BY WholeRuns DEF SimulationInv, Of
  <2> QED
    BY <2>1, RunLocal
<1>3. evaluated' = Having(readings', "accepted")
  BY DEF SimulationInv, SimulationWhole, Having
<1> QED
  BY <1>1, <1>2, <1>3, WholeNext

LEMMA NoRunIdle == NoRun.pc = "idle" /\ NoRun.draft = Draft0
BY DEF NoRun

(* A new run has a new number: nothing is stored under it. *)
LEMMA StartKeeps ==
  ASSUME SimulationInv, SimStart
  PROVE  SimulationInv'
<1> USE SimulationAssumption
<1>1. PICK list \in Targets : sim' = [pc |-> "number", list |-> list, starts |-> <<>>, t |-> 0, i |-> 1,
                                      draft |-> Draft0, count |-> Zero]
  BY DEF SimStart
<1>2. /\ UNCHANGED <<readings, evaluated, barred, summaries>>
      /\ runs' = runs + 1 /\ runs \in Nat
  BY DEF SimStart, SimulationInv, Stored
<1>3. Stored'
  BY <1>2 DEF SimulationInv, Stored
<1>4. Unsettled' /\ NotReturned'
  BY <1>2 DEF SimulationInv, Stored, Unsettled, NotReturned
<1>5. SimulationWhole'
  <2>1. evaluated' = Having(readings', "accepted")
    BY <1>2 DEF SimulationInv, SimulationWhole, Having
  <2>2. ASSUME NEW k \in 1..runs'
        PROVE  WholeRun(k)'
    <3>1. CASE k = runs'
      BY <1>4, <3>1 DEF WholeRun, Returned, Of, Unsettled, NotReturned
    <3>2. CASE k # runs'
      <4>1. k \in 1..runs
        BY <1>2, <3>2
      <4>2. WholeRun(k)
        BY <4>1, WholeRuns DEF SimulationInv
      <4> QED
        BY <4>2, <1>2, RunLocal DEF Of
    <3> QED
      BY <3>1, <3>2
  <2> QED
    BY <2>1, <2>2, WholeNext
<1>6. InProgress'
  <2>1. list \in Seq(Fleet) /\ list # <<>> /\ Len(list) \in Nat \ {0}
    BY <1>1
  <2>2. RunShape'
    BY <1>1, <2>1 DEF RunShape, Zero, Draft0, CountType
  <2>3. Seen' = [readings |-> readings, evaluated |-> evaluated] /\ Added' = {}
    BY <1>1, <1>2 DEF Seen, Added
  <2>4. DraftExtends'
    BY <1>2, <2>3, FS_EmptySet DEF DraftExtends, SimulationInv, SimulationWhole, Having
  <2>5. CountsAgree'
    <3>1. Having({}, "accepted") = {} /\ Having({}, "quarantined") = {}
      BY DEF Having
    <3>2. Cardinality({}) = 0
      BY FS_EmptySet
    <3>3. sim'.count = Zero
      BY <1>1
    <3> QED
      BY <2>3, <3>1, <3>2, <3>3 DEF CountsAgree, Zero, Having
  <2>6. NumbersTaken' /\ OneByOne'
    BY <1>1, <1>2 DEF NumbersTaken, OneByOne
  <2> QED
    BY <1>2, <1>4, <2>2, <2>4, <2>5, <2>6 DEF InProgress, RunStarted
<1> QED
  BY <1>3, <1>5, <1>6 DEF SimulationInv

(* Each device's readings of the run get numbers above all that are stored.  *)
LEMMA NumberAbove ==
  ASSUME Stored, NEW x, NEW n \in NextNumber(x)
  PROVE  n \in Int /\ \A r \in readings : r.dev = x => r.seq < n
<1> DEFINE own == {r.seq : r \in {s \in readings : s.dev = x}}
<1>1. \A k \in own : k \in Int
  BY DEF Stored
<1>2. n \in IF own = {} THEN {0} ELSE {m + 1 : m \in {m \in own : \A k \in own : k <= m}}
  BY DEF NextNumber
<1>3. \A r \in readings : r.dev = x => r.seq \in own
  OBVIOUS
<1> HIDE DEF own
<1>4. CASE own = {}
  BY <1>2, <1>3, <1>4
<1>5. CASE own # {}
  <2>1. PICK m \in own : n = m + 1 /\ \A k \in own : k <= m
    BY <1>2, <1>5
  <2> QED
    BY <1>1, <1>3, <2>1
<1> QED
  BY <1>4, <1>5

(* Reading the numbers adds nothing. *)
LEMMA NumberKeeps ==
  ASSUME SimulationInv, SimNumber
  PROVE  SimulationInv'
<1> USE SimulationAssumption
<1>0. InProgress /\ sim.pc = "number"
  BY NoRunIdle DEF SimulationInv, SimNumber
<1> DEFINE here == Len(sim.starts) + 1
<1>1. PICK n \in NextNumber(sim.list[here]) :
        sim' = [sim EXCEPT !.starts = Append(@, n),
                           !.pc = IF here = Len(sim.list) THEN "send" ELSE "number"]
  BY DEF SimNumber
<1>2. UNCHANGED <<readings, evaluated, runs, summaries>>
  BY DEF SimNumber
<1>3. n \in Int /\ \A r \in readings : r.dev = sim.list[here] => r.seq < n
  BY NumberAbove DEF SimulationInv
<1>4. /\ sim.list \in Seq(Fleet) /\ Len(sim.list) \in Nat
      /\ sim.starts \in Seq(Int) /\ Len(sim.starts) \in Nat /\ here <= Len(sim.list)
      /\ sim.t = 0 /\ sim.i = 1 /\ sim.draft = Draft0
  BY <1>0 DEF InProgress, RunShape
<1>5. sim' = [pc |-> IF here = Len(sim.list) THEN "send" ELSE "number", list |-> sim.list,
              starts |-> Append(sim.starts, n), t |-> sim.t, i |-> sim.i, draft |-> sim.draft, count |-> sim.count]
  BY <1>0, <1>1 DEF InProgress, RunShape
<1>6. /\ Append(sim.starts, n) \in Seq(Int) /\ Len(Append(sim.starts, n)) = here
      /\ \A j \in 1..here : Append(sim.starts, n)[j] = IF j = here THEN n ELSE sim.starts[j]
      /\ DOMAIN Append(sim.starts, n) = 1..here /\ DOMAIN sim.starts = 1..Len(sim.starts)
  BY <1>3, <1>4
<1>7. Seen' = [readings |-> readings, evaluated |-> evaluated] /\ Seen' = Seen /\ Added' = {} /\ Added = {}
  BY <1>2, <1>4, <1>5 DEF Seen, Added
<1>8. RunShape'
  BY <1>0, <1>4, <1>5, <1>6 DEF InProgress, RunShape
<1>9. Unsettled' /\ NotReturned'
  BY <1>0, <1>2 DEF InProgress, Unsettled, NotReturned
<1>10. NumbersTaken'
  <2> SUFFICES ASSUME NEW j \in 1..here, NEW r \in readings, r.dev = sim.list[j],
                      r.seq >= Append(sim.starts, n)[j]
               PROVE  r.ts = 1
    BY <1>2, <1>5, <1>6 DEF NumbersTaken
  <2>0. r.seq \in Int
    BY DEF SimulationInv, Stored
  <2>1. CASE j = here
    BY <1>3, <1>6, <2>0, <2>1
  <2>2. CASE j # here
    <3>1. j \in 1..Len(sim.starts) /\ Append(sim.starts, n)[j] = sim.starts[j]
      BY <1>4, <1>6, <2>2
    <3>2. j \in DOMAIN sim.starts /\ r.seq >= sim.starts[j]
      BY <1>6, <3>1
    <3> QED
      BY <1>0, <3>2 DEF InProgress, NumbersTaken
  <2> QED
    BY <2>1, <2>2
<1>11. DraftExtends'
  BY <1>0, <1>2, <1>7 DEF InProgress, DraftExtends, Having
<1>12. CountsAgree'
  BY <1>0, <1>5, <1>7 DEF InProgress, CountsAgree, Having
<1>13. OneByOne'
  <2>1. ASSUME here = Len(sim.list), NEW j \in 1..here
        PROVE  Numbers({}, sim.list[j]) = Append(sim.starts, n)[j]..(Append(sim.starts, n)[j] - 1)
    <3>1. Append(sim.starts, n)[j] \in Int
      BY <1>6
    <3> QED
      BY <3>1 DEF Numbers
  <2>2. \A j \in 1..here : Sent(j)' = 0
    BY <1>4, <1>5 DEF Sent
  <2>3. sim'.pc = "send" => here = Len(sim.list)
    BY <1>5
  <2>4. ASSUME sim'.pc = "send", NEW j \in DOMAIN sim'.list
        PROVE  Numbers(Added, sim.list[j])' = sim'.starts[j]..(sim'.starts[j] + Sent(j)' - 1)
    <3>1. j \in 1..here /\ here = Len(sim.list)
      BY <1>4, <1>5, <2>3, <2>4
    <3>2. sim'.starts[j] \in Int /\ sim'.starts[j] + 0 = sim'.starts[j]
      BY <1>5, <1>6, <3>1
    <3>3. sim'.starts[j] + Sent(j)' - 1 = sim'.starts[j] - 1
      BY <2>2, <3>1, <3>2
    <3>4. Numbers(Added, sim.list[j])' = {}
      BY <1>7 DEF Numbers
    <3> QED
      BY <3>2, <3>3, <3>4
  <2>5. sim'.t = Steps => sim'.i = 1
    BY <1>4, <1>5
  <2> QED
    BY <1>5, <2>4, <2>5 DEF OneByOne
<1> QED
  BY <1>0, <1>2, <1>8, <1>9, <1>10, <1>11, <1>12, <1>13, StoredFrame DEF SimulationInv, InProgress, RunStarted

(* A run that ends without its commit leaves nothing. *)
LEMMA GiveUpKeeps ==
  ASSUME SimulationInv, SimGiveUp, UNCHANGED runs
  PROVE  SimulationInv'
<1>1. UNCHANGED <<readings, evaluated, runs, summaries>> /\ sim' = NoRun
  BY DEF SimGiveUp
<1> QED
  BY <1>1, StoredFrame DEF SimulationInv, NoRun, Draft0

-----------------------------------------------------------------------------
(* A pass of the loop at most takes the next reading of the list into account:*)
(* what it adds to the tables and to the counts, if anything, is this one.   *)
Message(temp) ==
  [dev |-> sim.list[sim.i], seq |-> sim.starts[sim.i] + sim.t, ts |-> 2 + sim.t, temp |-> temp]

(* The tables, the counts and the loop counters after a pass. *)
Passed(img, c) ==
  /\ UNCHANGED <<readings, evaluated, runs, summaries>>
  /\ Seen' = img
  /\ sim' = [pc |-> sim.pc, list |-> sim.list, starts |-> sim.starts,
             t |-> IF sim.i = Len(sim.list) THEN sim.t + 1 ELSE sim.t,
             i |-> IF sim.i = Len(sim.list) THEN 1 ELSE sim.i + 1,
             draft |-> sim'.draft, count |-> c]
  /\ sim'.draft = [readings |-> sim'.draft.readings, evaluated |-> sim'.draft.evaluated]

Sending == SimulationInv /\ InProgress /\ sim.pc = "send" /\ sim.t < Steps

LEMMA SendingNumbers ==
  ASSUME Sending
  PROVE  /\ sim.t \in Nat /\ sim.t + 1 \in 0..Steps
         /\ Len(sim.list) \in Nat /\ sim.i \in 1..Len(sim.list)
         /\ DOMAIN sim.list = 1..Len(sim.list) /\ DOMAIN sim.starts = 1..Len(sim.list)
         /\ \A j \in 1..Len(sim.list) : sim.starts[j] \in Int
<1> USE SimulationAssumption
<1>1. sim.list \in Seq(Fleet) /\ sim.starts \in Seq(Int) /\ Len(sim.starts) = Len(sim.list)
  BY DEF Sending, InProgress, RunShape
<1>2. sim.t \in 0..Steps /\ sim.t < Steps /\ sim.i \in 1..Len(sim.list)
  BY DEF Sending, InProgress, RunShape
<1>3. Steps \in Nat /\ Len(sim.list) \in Nat
  BY <1>1
<1>4. sim.t \in Nat /\ sim.t + 1 \in 0..Steps
  BY <1>2, <1>3
<1>5. DOMAIN sim.list = 1..Len(sim.list) /\ DOMAIN sim.starts = 1..Len(sim.list)
  BY <1>1
<1>6. \A j \in 1..Len(sim.list) : sim.starts[j] \in Int
  BY <1>1
<1> QED
  BY <1>2, <1>3, <1>4, <1>5, <1>6

(* The turn is the next device's, or the first one's of the next step. *)
LEMMA TurnPasses ==
  ASSUME Sending, NEW img, NEW c, Passed(img, c)
  PROVE  /\ sim'.t \in 0..Steps /\ sim'.i \in 1..Len(sim.list) /\ (sim'.t = Steps => sim'.i = 1)
         /\ Sent(sim.i) = sim.t
         /\ \A j \in 1..Len(sim.list) : Sent(j)' = IF j = sim.i THEN sim.t + 1 ELSE Sent(j)
<1> USE SimulationAssumption
<1>1. /\ sim'.t = IF sim.i = Len(sim.list) THEN sim.t + 1 ELSE sim.t
      /\ sim'.i = IF sim.i = Len(sim.list) THEN 1 ELSE sim.i + 1
  BY DEF Passed
<1>2. sim.t \in 0..Steps /\ sim.t < Steps
  BY DEF Sending, InProgress, RunShape
<1>3. sim'.t \in 0..Steps /\ sim'.i \in 1..Len(sim.list) /\ (sim'.t = Steps => sim'.i = 1)
  BY <1>1, <1>2, SendingNumbers
<1>4. Sent(sim.i) = sim.t
  BY SendingNumbers DEF Sent
<1>5. ASSUME NEW j \in 1..Len(sim.list)
      PROVE  Sent(j)' = IF j = sim.i THEN sim.t + 1 ELSE Sent(j)
  BY <1>1, SendingNumbers DEF Sent
<1> QED
  BY <1>3, <1>4, <1>5

(* A pass that keeps to the run's own numbers and counts preserves everything.*)
LEMMA PassKeeps ==
  ASSUME Sending, NEW img, NEW c, Passed(img, c),
         c \in CountType,
         DraftExtends', CountsAgree', OneByOne'
  PROVE  SimulationInv'
<1> USE SimulationAssumption
<1>1. UNCHANGED <<readings, evaluated, runs, summaries>>
  BY DEF Passed
<1>2. RunShape'
  <2>1. sim'.t \in 0..Steps /\ sim'.i \in 1..Len(sim.list)
    BY TurnPasses
  <2>2. sim'.pc = "send" /\ sim'.list = sim.list /\ sim'.starts = sim.starts /\ sim'.count = c
    BY DEF Passed, Sending
  <2>3. sim' = [pc |-> sim'.pc, list |-> sim'.list, starts |-> sim'.starts, t |-> sim'.t, i |-> sim'.i,
                draft |-> sim'.draft, count |-> sim'.count]
    BY DEF Passed
  <2>4. sim'.draft = [readings |-> sim'.draft.readings, evaluated |-> sim'.draft.evaluated]
    BY DEF Passed
  <2>5. sim.list \in Targets /\ sim.starts \in Seq(Int) /\ Len(sim.starts) = Len(sim.list)
    BY DEF Sending, InProgress, RunShape
  <2> QED
    BY <2>1, <2>2, <2>3, <2>4, <2>5 DEF RunShape
<1>3. Unsettled' /\ NotReturned'
  BY <1>1 DEF Sending, InProgress, Unsettled, NotReturned
<1>4. NumbersTaken'
  <2>1. sim'.list = sim.list /\ sim'.starts = sim.starts
    BY DEF Passed
  <2> QED
    BY <1>1, <2>1 DEF Sending, InProgress, NumbersTaken
<1> QED
  BY <1>1, <1>2, <1>3, <1>4, StoredFrame DEF Sending, SimulationInv, InProgress, RunStarted

(* A device that is listed once is not sent a second time in a step: nothing   *)
(* in the tables has the number of its next reading and would be repeated.   *)
LEMMA NextIsNew ==
  ASSUME Sending, NEW temp, ~ Refuses(Seen, Message(temp)), OnceIn(sim.list, sim.i)
  PROVE  Matches(Seen, Message(temp)) = {}
<1> SUFFICES ASSUME NEW r \in Matches(Seen, Message(temp)) PROVE FALSE
  OBVIOUS
<1>1. /\ r \in Seen.readings /\ r.dev = sim.list[sim.i] /\ r.seq = sim.starts[sim.i] + sim.t
      /\ r.ts = 2 + sim.t
  BY DEF Matches, Message, Refuses, SameReading
<1>2. sim.i \in 1..Len(sim.list) /\ sim.t \in Nat /\ sim.starts[sim.i] \in Int
  BY SendingNumbers
<1>3. CASE r \in readings
  <2>1. sim.i \in DOMAIN sim.starts /\ r.seq >= sim.starts[sim.i]
    BY <1>1, <1>2, SendingNumbers
  <2>2. r.ts = 1
    BY <1>1, <1>3, <2>1 DEF Sending, InProgress, NumbersTaken
  <2> QED
    BY <1>1, <1>2, <2>2
<1>4. CASE r \notin readings
  <2>1. r.seq \in Numbers(Added, sim.list[sim.i])
    BY <1>1, <1>4 DEF Numbers, Added
  <2>2. Numbers(Added, sim.list[sim.i]) = sim.starts[sim.i]..(sim.starts[sim.i] + Sent(sim.i) - 1)
    BY SendingNumbers DEF Sending, InProgress, OneByOne
  <2>3. Sent(sim.i) = sim.t
    BY SendingNumbers DEF Sent
  <2> QED
    BY <1>1, <1>2, <2>1, <2>2, <2>3
<1> QED
  BY <1>3, <1>4

(* How an outcome is counted. *)
LEMMA CountedOnce ==
  ASSUME NEW c \in CountType, NEW o \in {"accepted", "duplicate", "quarantined"}
  PROVE  /\ Counted(c, o) \in CountType
         /\ Counted(c, o).accepted = IF o = "accepted" THEN c.accepted + 1 ELSE c.accepted
         /\ Counted(c, o).quarantined = IF o = "quarantined" THEN c.quarantined + 1 ELSE c.quarantined
         /\ Counted(c, o).sent - Counted(c, o).duplicates =
              IF o = "duplicate" THEN c.sent - c.duplicates ELSE c.sent - c.duplicates + 1
<1> DEFINE d == [sent |-> c.sent + 1,
                 accepted |-> IF o = "accepted" THEN c.accepted + 1 ELSE c.accepted,
                 duplicates |-> IF o = "duplicate" THEN c.duplicates + 1 ELSE c.duplicates,
                 quarantined |-> IF o = "quarantined" THEN c.quarantined + 1 ELSE c.quarantined]
<1>1. Counted(c, o) = d
  <2>1. PICK a, b, e, q \in Int : c = [sent |-> a, accepted |-> b, duplicates |-> e, quarantined |-> q]
    <3>1. c = [sent |-> c.sent, accepted |-> c.accepted, duplicates |-> c.duplicates, quarantined |-> c.quarantined]
      BY DEF CountType
    <3> QED
      BY <3>1 DEF CountType
  <2>2. c.sent = a /\ c.accepted = b /\ c.duplicates = e /\ c.quarantined = q
    BY <2>1
  <2>3. ASSUME NEW v1, NEW v2, NEW v3, NEW v4
        PROVE  [c EXCEPT !.sent = v1, !.accepted = v2, !.duplicates = v3, !.quarantined = v4]
               = [sent |-> v1, accepted |-> v2, duplicates |-> v3, quarantined |-> v4]
    <3> DEFINE r(x, y, z, w) == [sent |-> x, accepted |-> y, duplicates |-> z, quarantined |-> w]
    <3>1. [c EXCEPT !.sent = v1] = r(v1, b, e, q)
      BY <2>1
    <3>2. [r(v1, b, e, q) EXCEPT !.accepted = v2] = r(v1, v2, e, q)
      OBVIOUS
    <3>3. [r(v1, v2, e, q) EXCEPT !.duplicates = v3] = r(v1, v2, v3, q)
      OBVIOUS
    <3>4. [r(v1, v2, v3, q) EXCEPT !.quarantined = v4] = r(v1, v2, v3, v4)
      OBVIOUS
    <3>5. [c EXCEPT !.sent = v1, !.accepted = v2, !.duplicates = v3, !.quarantined = v4]
          = [[[[c EXCEPT !.sent = v1] EXCEPT !.accepted = v2] EXCEPT !.duplicates = v3] EXCEPT !.quarantined = v4]
      OBVIOUS
    <3> HIDE DEF r
    <3>6. [c EXCEPT !.sent = v1, !.accepted = v2, !.duplicates = v3, !.quarantined = v4] = r(v1, v2, v3, v4)
      BY <3>1, <3>2, <3>3, <3>4, <3>5
    <3> QED
      BY <3>6 DEF r
  <2>4. Counted(c, o) = [c EXCEPT !.sent = d.sent, !.accepted = d.accepted, !.duplicates = d.duplicates,
                                  !.quarantined = d.quarantined]
    BY DEF Counted
  <2> QED
    BY <2>3, <2>4
<1>2. /\ d.sent = c.sent + 1
      /\ d.accepted = IF o = "accepted" THEN c.accepted + 1 ELSE c.accepted
      /\ d.duplicates = IF o = "duplicate" THEN c.duplicates + 1 ELSE c.duplicates
      /\ d.quarantined = IF o = "quarantined" THEN c.quarantined + 1 ELSE c.quarantined
  OBVIOUS
<1>3. c.sent \in Int /\ c.accepted \in Int /\ c.duplicates \in Int /\ c.quarantined \in Int
  BY DEF CountType
<1>4. d \in CountType
  BY <1>3 DEF CountType
<1> HIDE DEF d
<1>5. d.sent - d.duplicates = IF o = "duplicate" THEN c.sent - c.duplicates ELSE c.sent - c.duplicates + 1
  BY <1>2, <1>3
<1> QED
  BY <1>1, <1>2, <1>4, <1>5

(* A reading that is stored already is counted as a duplicate. *)
LEMMA RepeatKeeps ==
  ASSUME Sending, NEW temp, ~ Refuses(Seen, Message(temp)), Matches(Seen, Message(temp)) # {},
         NEW c, c = Counted(sim.count, "duplicate") \/ c = Counted(Counted(sim.count, "duplicate"), "duplicate"),
         Passed(Seen, c)
  PROVE  SimulationInv'
<1>0. sim.count \in CountType
  BY DEF Sending, InProgress, RunShape
<1>1. /\ c \in CountType
      /\ c.accepted = sim.count.accepted /\ c.quarantined = sim.count.quarantined
      /\ c.sent - c.duplicates = sim.count.sent - sim.count.duplicates
  <2>1. CASE c = Counted(sim.count, "duplicate")
    BY <1>0, <2>1, CountedOnce
  <2>2. CASE c = Counted(Counted(sim.count, "duplicate"), "duplicate")
    BY <1>0, <2>2, CountedOnce
  <2> QED
    BY <2>1, <2>2
<1>2. Seen' = Seen /\ Added' = Added /\ readings' = readings /\ runs' = runs
  BY DEF Passed, Added
<1>3. sim'.count = c /\ sim'.list = sim.list /\ sim'.starts = sim.starts /\ sim'.pc = sim.pc
  BY DEF Passed
<1>4. DraftExtends'
  BY <1>2 DEF Sending, InProgress, DraftExtends, Having
<1>5. CountsAgree'
  <2>1. Having(Added, "accepted")' = Having(Added, "accepted") /\ Having(Added, "quarantined")' = Having(Added, "quarantined")
    BY <1>2 DEF Having
  <2>2. CountsAgree
    BY DEF Sending, InProgress
  <2>3. c.sent = c.duplicates + Cardinality(Added)
    <3>1. sim.count.sent = sim.count.duplicates + Cardinality(Added)
      BY <2>2 DEF CountsAgree
    <3>2. Cardinality(Added) = sim.count.sent - sim.count.duplicates
      <4>1. Cardinality(Added) \in Nat
        BY FS_CardinalityType DEF Sending, InProgress, DraftExtends
      <4> QED
        BY <1>0, <3>1, <4>1 DEF CountType
    <3>3. c.sent \in Int /\ c.duplicates \in Int
      BY <1>1 DEF CountType
    <3> QED
      BY <1>1, <3>2, <3>3
  <2> QED
    BY <1>1, <1>2, <1>3, <2>1, <2>2, <2>3 DEF CountsAgree
<1>6. OneByOne'
  <2>1. ~ OnceIn(sim.list, sim.i)
    BY NextIsNew
  <2>2. ASSUME NEW j \in 1..Len(sim.list), OnceIn(sim.list, j)
        PROVE  Numbers(Added, sim.list[j])' = sim.starts[j]..(sim.starts[j] + Sent(j)' - 1)
    <3>1. Sent(j)' = Sent(j)
      BY <2>1, <2>2, TurnPasses
    <3>2. Numbers(Added, sim.list[j])' = Numbers(Added, sim.list[j])
      BY <1>2, <1>3 DEF Numbers
    <3>3. Numbers(Added, sim.list[j]) = sim.starts[j]..(sim.starts[j] + Sent(j) - 1)
      BY <2>2, SendingNumbers DEF Sending, InProgress, OneByOne
    <3> QED
      BY <3>1, <3>2, <3>3
  <2>3. sim'.t = Steps => sim'.i = 1
    BY TurnPasses
  <2> QED
    BY <1>3, <2>2, <2>3, SendingNumbers DEF OneByOne, OnceIn
<1> QED
  BY <1>1, <1>4, <1>5, <1>6, PassKeeps

(* A new reading is stored under the next number of its device, evaluated if  *)
(* it is accepted, and counted once; its repetition is a duplicate.          *)
LEMMA InsertKeeps ==
  ASSUME Sending, NEW temp, Matches(Seen, Message(temp)) = {},
         NEW o \in {"accepted", "quarantined"},
         NEW c, c = Counted(sim.count, o) \/ c = Counted(Counted(sim.count, o), "duplicate"),
         Passed(After(Seen, Message(temp), o), c)
  PROVE  SimulationInv'
<1> DEFINE m == Message(temp)
           row == Row(m, o)
           i == sim.i
<1>0. sim.count \in CountType
  BY DEF Sending, InProgress, RunShape
<1>1. /\ c \in CountType
      /\ c.accepted = IF o = "accepted" THEN sim.count.accepted + 1 ELSE sim.count.accepted
      /\ c.quarantined = IF o = "quarantined" THEN sim.count.quarantined + 1 ELSE sim.count.quarantined
      /\ c.sent - c.duplicates = sim.count.sent - sim.count.duplicates + 1
  <2>1. CASE c = Counted(sim.count, o)
    BY <1>0, <2>1, CountedOnce
  <2>2. CASE c = Counted(Counted(sim.count, o), "duplicate")
    BY <1>0, <2>2, CountedOnce
  <2> QED
    BY <2>1, <2>2
<1>2. /\ row.dev = sim.list[i] /\ row.seq = sim.starts[i] + sim.t /\ row.status = o /\ row.by = runs
  BY DEF Row, Message
<1>3. /\ m.dev = sim.list[i] /\ m.seq = sim.starts[i] + sim.t
  BY DEF Message
<1>4. row \notin Seen.readings
  BY <1>2, <1>3 DEF Matches
<1>5. UNCHANGED <<readings, runs>> /\ sim'.count = c /\ sim'.list = sim.list /\ sim'.starts = sim.starts
      /\ sim'.pc = sim.pc
  BY DEF Passed
<1>6. /\ Seen'.readings = Seen.readings \union {row}
      /\ Seen'.evaluated = IF o = "accepted" THEN Seen.evaluated \union {row} ELSE Seen.evaluated
  BY DEF Passed, After
<1>7. row \notin readings /\ row \notin Added /\ Added' = Added \union {row}
  BY <1>4, <1>5, <1>6 DEF Added, Sending, InProgress, DraftExtends
<1>8. IsFiniteSet(Added) /\ (\A r \in Added : r.by = runs /\ r.seq \in Int) /\ readings \subseteq Seen.readings
      /\ Seen.evaluated = Having(Seen.readings, "accepted")
  BY DEF Sending, InProgress, DraftExtends
<1>9. i \in 1..Len(sim.list) /\ sim.t \in Nat /\ sim.starts[i] \in Int
  BY SendingNumbers
<1> HIDE DEF m, row, i
<1>10. DraftExtends'
  <2>1. Seen'.evaluated = Having(Seen'.readings, "accepted")
    BY <1>2, <1>6, <1>8 DEF Having
  <2>2. IsFiniteSet(Added')
    BY <1>7, <1>8, FS_AddElement
  <2>3. \A r \in Added' : r.by = runs /\ r.seq \in Int
    BY <1>2, <1>7, <1>8, <1>9
  <2>4. readings' \subseteq Seen'.readings
    BY <1>5, <1>6, <1>8
  <2> QED
    BY <1>5, <2>1, <2>2, <2>3, <2>4 DEF DraftExtends, Having
<1>11. CountsAgree'
  <2>1. ASSUME NEW status \in {"accepted", "quarantined"}
        PROVE  Cardinality(Having(Added', status)) =
                 IF o = status THEN Cardinality(Having(Added, status)) + 1 ELSE Cardinality(Having(Added, status))
    <3>1. IsFiniteSet(Having(Added, status)) /\ row \notin Having(Added, status)
      BY <1>7, <1>8, FS_Subset DEF Having
    <3>2. Having(Added', status) = IF o = status THEN Having(Added, status) \union {row} ELSE Having(Added, status)
      BY <1>2, <1>7 DEF Having
    <3> QED
      BY <3>1, <3>2, FS_AddElement
  <2>2. Cardinality(Added') = Cardinality(Added) + 1
    BY <1>7, <1>8, FS_AddElement
  <2>3. /\ sim.count.accepted = Cardinality(Having(Added, "accepted"))
        /\ sim.count.quarantined = Cardinality(Having(Added, "quarantined"))
        /\ sim.count.sent = sim.count.duplicates + Cardinality(Added)
    BY DEF Sending, InProgress, CountsAgree
  <2>4. c.accepted = Cardinality(Having(Added', "accepted")) /\ c.quarantined = Cardinality(Having(Added', "quarantined"))
    BY <1>1, <2>1, <2>3
  <2>5. c.sent = c.duplicates + Cardinality(Added')
    <3>1. Cardinality(Added) \in Nat
      BY <1>8, FS_CardinalityType
    <3>2. c.sent \in Int /\ c.duplicates \in Int /\ sim.count.sent \in Int /\ sim.count.duplicates \in Int
      BY <1>0, <1>1 DEF CountType
    <3>3. c.sent - c.duplicates = sim.count.sent - sim.count.duplicates + 1
      BY <1>1
    <3> QED
      BY <2>2, <2>3, <3>1, <3>2, <3>3
  <2> QED
    BY <1>5, <2>4, <2>5 DEF CountsAgree, Having
<1>12. OneByOne'
  <2>1. ASSUME NEW j \in 1..Len(sim.list), OnceIn(sim.list, j)
        PROVE  Numbers(Added', sim.list[j]) = sim.starts[j]..(sim.starts[j] + Sent(j)' - 1)
    <3>1. Numbers(Added, sim.list[j]) = sim.starts[j]..(sim.starts[j] + Sent(j) - 1)
      BY <2>1, SendingNumbers DEF Sending, InProgress, OneByOne
    <3>2. CASE j = i
      <4>1. Numbers(Added', sim.list[j]) = Numbers(Added, sim.list[j]) \union {sim.starts[i] + sim.t}
        BY <1>2, <1>7, <3>2 DEF Numbers
      <4>2. Sent(j) = sim.t /\ Sent(j)' = sim.t + 1
        BY <3>2, TurnPasses DEF i
      <4>3. ASSUME NEW a \in Int, NEW n \in Nat
            PROVE  (a..(a + n - 1)) \union {a + n} = a..(a + (n + 1) - 1)
        OBVIOUS
      <4>4. (sim.starts[i]..(sim.starts[i] + sim.t - 1)) \union {sim.starts[i] + sim.t}
            = sim.starts[i]..(sim.starts[i] + (sim.t + 1) - 1)
        BY <1>9, <4>3
      <4> QED
        BY <3>1, <3>2, <4>1, <4>2, <4>4, Zenon
    <3>3. CASE j # i
      <4>1. sim.list[j] # sim.list[i]
        BY <1>9, <2>1, <3>3, SendingNumbers DEF OnceIn
      <4>2. Numbers(Added', sim.list[j]) = Numbers(Added, sim.list[j])
        BY <1>2, <1>7, <4>1 DEF Numbers
      <4>3. Sent(j)' = Sent(j)
        BY <3>3, TurnPasses DEF i
      <4> QED
        BY <3>1, <4>2, <4>3
    <3> QED
      BY <3>2, <3>3
  <2>2. sim'.t = Steps => sim'.i = 1
    BY TurnPasses
  <2> QED
    BY <1>5, <2>1, <2>2, SendingNumbers DEF OneByOne, OnceIn, Numbers
<1> QED
  BY <1>1, <1>10, <1>11, <1>12, PassKeeps

(* A pass ends the run, repeats a stored reading, or adds a new one. *)
Repeats == \E temp, c :
  /\ ~ Refuses(Seen, Message(temp)) /\ Matches(Seen, Message(temp)) # {}
  /\ c = Counted(sim.count, "duplicate") \/ c = Counted(Counted(sim.count, "duplicate"), "duplicate")
  /\ Passed(Seen, c)

Inserts == \E temp, c : \E o \in {"accepted", "quarantined"} :
  /\ Matches(Seen, Message(temp)) = {}
  /\ c = Counted(sim.count, o) \/ c = Counted(Counted(sim.count, o), "duplicate")
  /\ Passed(After(Seen, Message(temp), o), c)

LEMMA SendShapes ==
  ASSUME SimulationInv, SimSend
  PROVE  Sending /\ (SimGiveUp \/ Repeats \/ Inserts)
<1>0. Sending
  BY NoRunIdle DEF SimulationInv, SimSend, Sending
<1>1. PICK temp \in Drawn, again \in BOOLEAN :
        \/ SimGiveUp
        \/ /\ ~ Refuses(Seen, Message(temp))
           /\ \E o \in Outcomes(Seen, Message(temp)) :
                \E o2 \in Outcomes(After(Seen, Message(temp), o), Message(temp)) :
                  Keep(Seen, After(Seen, Message(temp), o),
                       IF again THEN Counted(Counted(sim.count, o), o2) ELSE Counted(sim.count, o),
                       sim.i = Len(sim.list))
           /\ UNCHANGED summaries
  BY DEF SimSend, Message
<1>2. UNCHANGED runs
  BY DEF SimSend
<1> DEFINE m == Message(temp)
<1>3. ASSUME ~ Refuses(Seen, m), UNCHANGED summaries,
             NEW o \in Outcomes(Seen, m), NEW o2 \in Outcomes(After(Seen, m, o), m),
             Keep(Seen, After(Seen, m, o),
                  IF again THEN Counted(Counted(sim.count, o), o2) ELSE Counted(sim.count, o),
                  sim.i = Len(sim.list))
      PROVE  Repeats \/ Inserts
  <2> DEFINE img2 == After(Seen, m, o)
             c == IF again THEN Counted(Counted(sim.count, o), o2) ELSE Counted(sim.count, o)
  <2>1. Seen = [readings |-> Seen.readings, evaluated |-> Seen.evaluated]
    BY <1>0 DEF Seen, Sending, InProgress, RunShape
  <2>2. Matches(img2, m) # {}
    <3>1. CASE o = "duplicate"
      BY <1>3, <3>1 DEF Outcomes, After, Matches
    <3>2. CASE o # "duplicate"
      <4>1. img2.readings = Seen.readings \union {Row(m, o)}
        BY <3>2 DEF After
      <4>2. Row(m, o).dev = m.dev /\ Row(m, o).seq = m.seq
        BY DEF Row
      <4> QED
        BY <4>1, <4>2 DEF Matches
    <3> QED
      BY <3>1, <3>2
  <2>3. o2 = "duplicate"
    BY <1>3, <2>2 DEF Outcomes
  <2>4. sim' = [pc |-> sim.pc, list |-> sim.list, starts |-> sim.starts,
                t |-> IF sim.i = Len(sim.list) THEN sim.t + 1 ELSE sim.t,
                i |-> IF sim.i = Len(sim.list) THEN 1 ELSE sim.i + 1,
                draft |-> IF img2 = Seen THEN sim.draft ELSE img2, count |-> c]
    <3> HIDE DEF img2, c
    <3>1. sim' = [sim EXCEPT !.draft = IF img2 = Seen THEN @ ELSE img2,
                             !.count = c, !.t = IF sim.i = Len(sim.list) THEN @ + 1 ELSE @,
                             !.i = IF sim.i = Len(sim.list) THEN 1 ELSE @ + 1]
      BY <1>3 DEF Keep, img2, c
    <3>2. sim = [pc |-> sim.pc, list |-> sim.list, starts |-> sim.starts, t |-> sim.t, i |-> sim.i,
                 draft |-> sim.draft, count |-> sim.count]
      BY <1>0 DEF Sending, InProgress, RunShape
    <3> QED
      BY <3>1, <3>2
  <2>5. UNCHANGED <<readings, evaluated, runs, summaries>>
    BY <1>2, <1>3 DEF Keep
  <2>6. CASE Matches(Seen, m) # {}
    <3>1. o = "duplicate" /\ img2 = Seen
      BY <1>3, <2>1, <2>6 DEF Outcomes, After
    <3>2. sim'.draft = sim.draft /\ Seen' = Seen
      BY <2>4, <2>5, <3>1 DEF Seen
    <3>3. sim.draft = [readings |-> sim.draft.readings, evaluated |-> sim.draft.evaluated]
      BY <1>0 DEF Sending, InProgress, RunShape
    <3>4. Passed(Seen, c)
      <4> HIDE DEF c
      <4> QED
        BY <2>4, <2>5, <3>2, <3>3 DEF Passed
    <3>5. c = Counted(sim.count, "duplicate") \/ c = Counted(Counted(sim.count, "duplicate"), "duplicate")
      BY <2>3, <3>1
    <3> QED
      BY <1>3, <2>6, <3>4, <3>5 DEF Repeats
  <2>7. CASE Matches(Seen, m) = {}
    <3>1. o \in {"accepted", "quarantined"}
      BY <1>3, <2>7 DEF Outcomes
    <3>2. img2.readings = Seen.readings \union {Row(m, o)} /\ Row(m, o) \notin Seen.readings
      BY <2>7, <3>1 DEF After, Matches, Row
    <3>3. img2 # Seen /\ img2 # Draft0
      <4> HIDE DEF img2
      <4> QED
        BY <3>2 DEF Draft0
    <3>4. sim'.draft = img2 /\ Seen' = img2
      <4> HIDE DEF img2, c
      <4> QED
        BY <2>4, <3>3 DEF Seen
    <3>5. img2 = [readings |-> img2.readings, evaluated |-> img2.evaluated]
      BY DEF After
    <3>6. Passed(img2, c)
      <4> HIDE DEF img2, c
      <4> QED
        BY <2>4, <2>5, <3>4, <3>5 DEF Passed
    <3>7. c = Counted(sim.count, o) \/ c = Counted(Counted(sim.count, o), "duplicate")
      BY <2>3
    <3> QED
      BY <2>7, <3>1, <3>6, <3>7 DEF Inserts
  <2> QED
    BY <2>6, <2>7
<1> QED
  BY <1>0, <1>1, <1>3

LEMMA SendKeeps ==
  ASSUME SimulationInv, SimSend
  PROVE  SimulationInv'
<1>1. UNCHANGED runs
  BY DEF SimSend
<1>2. CASE SimGiveUp
  BY <1>1, <1>2, GiveUpKeeps
<1>3. CASE Repeats
  BY <1>3, SendShapes, RepeatKeeps DEF Repeats
<1>4. CASE Inserts
  BY <1>4, SendShapes, InsertKeeps DEF Inserts
<1> QED
  BY <1>2, <1>3, <1>4, SendShapes

-----------------------------------------------------------------------------
(* The commit stores all of the run's readings, and returns their counts. *)
LEMMA CommitKeeps ==
  ASSUME SimulationInv, SimCommit
  PROVE  SimulationInv'
<1> USE SimulationAssumption
<1>0. InProgress /\ sim.pc = "send" /\ sim.t = Steps /\ sim.i = 1
  BY NoRunIdle DEF SimulationInv, SimCommit, InProgress, OneByOne
<1> DEFINE mine == [run |-> runs, list |-> sim.list, count |-> sim.count]
<1>1. /\ readings' = Seen.readings /\ evaluated' = Seen.evaluated
      /\ summaries' = summaries \union {mine}
      /\ sim' = NoRun /\ runs' = runs /\ runs \in Nat
  BY DEF SimCommit, SimulationInv, Stored
<1>2. /\ readings \subseteq Seen.readings
      /\ Seen.evaluated = Having(Seen.readings, "accepted")
      /\ IsFiniteSet(Added)
      /\ \A r \in Added : r.by = runs /\ r.seq \in Int
  BY <1>0 DEF InProgress, DraftExtends
<1>3. readings' = readings \union Added
  BY <1>1, <1>2 DEF Added
<1>4. mine.run = runs /\ mine.list = sim.list /\ mine.count = sim.count
  OBVIOUS
<1>5. (\A s \in summaries : s.run # runs) /\ (\A r \in readings : r.by # runs)
  BY <1>0 DEF InProgress, NotReturned, Unsettled
<1> HIDE DEF mine
<1>6. Stored'
  <2>1. \A r \in readings : r.by \in 0..runs /\ r.seq \in Int
    BY DEF SimulationInv, Stored
  <2>2. \A r \in Added : r.by \in 0..runs /\ r.seq \in Int
    BY <1>1, <1>2
  <2>3. \A s \in summaries : s.run \in 1..runs
    BY DEF SimulationInv, Stored
  <2>4. runs \in 1..runs
    BY <1>0, <1>1 DEF InProgress, RunStarted
  <2> QED
    BY <1>1, <1>3, <1>4, <2>1, <2>2, <2>3, <2>4 DEF Stored
<1>7. Tallied(mine, Added)
  <2>1. ASSUME NEW j \in DOMAIN sim.list, OnceIn(sim.list, j)
        PROVE  /\ Cardinality(Numbers(Added, sim.list[j])) = Steps
               /\ \A m, n \in Numbers(Added, sim.list[j]) : m < n + Steps
    <3>1. sim.list \in Seq(Fleet) /\ sim.starts \in Seq(Int) /\ Len(sim.starts) = Len(sim.list)
      BY <1>0 DEF InProgress, RunShape
    <3>2. j \in 1..Len(sim.list) /\ sim.starts[j] \in Int
      BY <2>1, <3>1
    <3>3. Sent(j) = Steps
      BY <1>0, <3>1, <3>2 DEF Sent
    <3>4. Numbers(Added, sim.list[j]) = sim.starts[j]..(sim.starts[j] + Steps - 1)
      BY <1>0, <2>1, <3>3 DEF InProgress, OneByOne
    <3>5. sim.starts[j] + Steps - 1 \in Int /\ sim.starts[j] <= sim.starts[j] + Steps - 1
      BY <3>2
    <3>6. Cardinality(sim.starts[j]..(sim.starts[j] + Steps - 1)) = (sim.starts[j] + Steps - 1) - sim.starts[j] + 1
      <4> DEFINE last == sim.starts[j] + Steps - 1
      <4>1. last \in Int /\ sim.starts[j] \in Int /\ sim.starts[j] <= last
        BY <3>2, <3>5
      <4> HIDE DEF last
      <4>2. Cardinality(sim.starts[j]..last) = IF sim.starts[j] > last THEN 0 ELSE last - sim.starts[j] + 1
        BY <4>1, FS_Interval
      <4> QED
        BY <4>1, <4>2 DEF last
    <3>7. (sim.starts[j] + Steps - 1) - sim.starts[j] + 1 = Steps
      BY <3>2
    <3>8. \A m, n \in sim.starts[j]..(sim.starts[j] + Steps - 1) : m < n + Steps
      BY <3>2
    <3> QED
      BY <3>4, <3>6, <3>7, <3>8
  <2> QED
    BY <1>0, <1>4, <2>1 DEF InProgress, CountsAgree, Tallied
<1>8. SimulationWhole'
  <2>1. evaluated' = Having(readings', "accepted")
    BY <1>1, <1>2
  <2>2. ASSUME NEW k \in 1..runs'
        PROVE  WholeRun(k)'
    <3>1. CASE k = runs
      <4>1. \A s \in summaries' : s.run = k => s = mine
        BY <1>1, <1>4, <1>5, <3>1
      <4>2. Of(k)' = Added
        BY <1>1, <1>2, <1>3, <1>5, <3>1 DEF Of
      <4>3. Returned(k)'
        BY <1>1, <1>4, <3>1 DEF Returned
      <4>4. ASSUME NEW s \in summaries', s.run = k
            PROVE  Tallied(s, Of(k))'
        <5>1. s = mine
          BY <4>1, <4>4
        <5> QED
          BY <1>7, <4>2, <5>1 DEF Tallied, Numbers, Having, OnceIn
      <4> QED
        BY <4>3, <4>4 DEF WholeRun
    <3>2. CASE k # runs
      <4>1. WholeRun(k)
        BY <1>1, WholeRuns DEF SimulationInv
      <4>2. Of(k)' = Of(k)
        BY <1>2, <1>3, <3>2 DEF Of
      <4>3. \A s : s.run = k => (s \in summaries' <=> s \in summaries)
        BY <1>1, <1>4, <3>2
      <4> QED
        BY <4>1, <4>2, <4>3, RunLocal
    <3> QED
      BY <3>1, <3>2
  <2> QED
    BY <2>1, <2>2, WholeNext
<1> QED
  BY <1>1, <1>6, <1>8 DEF SimulationInv

(* A device stores a reading of its own; a run that has its numbers, and not   *)
(* yet the write lock, will meet it at its time, which is none of the run's. *)
LEMMA DeviceKeeps ==
  ASSUME SimulationInv, DeviceSends
  PROVE  SimulationInv'
<1> USE SimulationAssumption
<1>1. PICK x \in Fleet \ barred, n \in 0..MaxNumber, temp \in Measured :
        LET r == [dev |-> x, seq |-> n, ts |-> 1, temp |-> temp, status |-> "accepted", by |-> 0]
        IN  readings' = readings \union {r} /\ evaluated' = evaluated \union {r}
  BY DEF DeviceSends
<1> DEFINE r == [dev |-> x, seq |-> n, ts |-> 1, temp |-> temp, status |-> "accepted", by |-> 0]
<1>2. readings' = readings \union {r} /\ evaluated' = evaluated \union {r}
  BY <1>1
<1>3. UNCHANGED <<sim, runs, summaries>> /\ sim.draft = Draft0 /\ runs \in Nat
  BY DEF DeviceSends, LockFree, SimulationInv, Stored
<1>4. r.by = 0 /\ r.status = "accepted" /\ r.ts = 1 /\ r.seq \in Int
  OBVIOUS
<1> HIDE DEF r
<1>5. Stored'
  BY <1>2, <1>3, <1>4 DEF SimulationInv, Stored
<1>6. evaluated' = Having(readings', "accepted")
  BY <1>2, <1>4 DEF SimulationInv, SimulationWhole, Having
<1>7. ASSUME NEW k \in 1..runs'
      PROVE  WholeRun(k)'
  <2>1. WholeRun(k)
    BY <1>3, WholeRuns DEF SimulationInv
  <2>2. Of(k)' = Of(k)
    BY <1>2, <1>3, <1>4 DEF Of
  <2> QED
    BY <1>3, <2>1, <2>2, RunLocal
<1>8. ASSUME InProgress
      PROVE  InProgress'
  <2>1. RunShape'
    BY <1>3, <1>8 DEF InProgress, RunShape
  <2>2. NotReturned'
    BY <1>3, <1>8 DEF InProgress, NotReturned
  <2>3. Unsettled'
    <3>1. runs # 0
      BY <1>8 DEF InProgress, RunStarted
    <3> QED
      BY <1>2, <1>3, <1>4, <1>8, <3>1 DEF InProgress, Unsettled
  <2>4. NumbersTaken'
    BY <1>2, <1>3, <1>4, <1>8 DEF InProgress, NumbersTaken
  <2>5. Seen' = [readings |-> readings', evaluated |-> evaluated'] /\ Added' = {} /\ Added = {}
    BY <1>3 DEF Seen, Added
  <2>6. DraftExtends'
    BY <1>6, <2>5, FS_EmptySet DEF DraftExtends, Having
  <2>7. CountsAgree'
    BY <1>3, <1>8, <2>5 DEF InProgress, CountsAgree, Having
  <2>8. OneByOne'
    BY <1>3, <1>8, <2>5 DEF InProgress, OneByOne, Numbers, Sent, OnceIn
  <2> QED
    BY <2>1, <2>2, <2>3, <2>4, <2>6, <2>7, <2>8, <1>3, <1>8 DEF InProgress, RunStarted
<1>9. SimulationWhole'
  BY <1>6, <1>7, WholeNext
<1> QED
  BY <1>3, <1>5, <1>8, <1>9 DEF SimulationInv

(* The invariant holds at first and is preserved by every step. *)
LEMMA SimulationInductive ==
  /\ SimulationInit => SimulationInv
  /\ SimulationInv /\ [SimulationNext]_simVars => SimulationInv'
<1>1. ASSUME SimulationInit PROVE SimulationInv
  BY <1>1 DEF SimulationInit, SimulationInv, Stored, SimulationWhole, Having
<1>2. ASSUME SimulationInv, [SimulationNext]_simVars PROVE SimulationInv'
  <2>1. CASE SimStart
    BY <1>2, <2>1, StartKeeps
  <2>2. CASE SimNumber
    BY <1>2, <2>2, NumberKeeps
  <2>3. CASE SimSend
    BY <1>2, <2>3, SendKeeps
  <2>4. CASE SimCommit
    BY <1>2, <2>4, CommitKeeps
  <2>5. CASE DeviceSends
    BY <1>2, <2>5, DeviceKeeps
  <2>6. CASE UNCHANGED <<readings, evaluated, sim, runs, summaries>>
    <3>1. Stored' /\ SimulationWhole'
      BY <1>2, <2>6, StoredFrame
    <3>2. ASSUME InProgress
          PROVE  InProgress'
      <4>1. Seen' = Seen /\ Added' = Added
        BY <2>6 DEF Seen, Added
      <4>2. (RunStarted /\ RunShape /\ Unsettled /\ NotReturned /\ NumbersTaken)'
        BY <2>6, <3>2 DEF InProgress, RunStarted, RunShape, Unsettled, NotReturned, NumbersTaken
      <4>3. (DraftExtends /\ CountsAgree)'
        BY <2>6, <3>2, <4>1 DEF InProgress, DraftExtends, CountsAgree, Having
      <4>4. OneByOne'
        BY <2>6, <3>2, <4>1 DEF InProgress, OneByOne, Numbers, Sent, OnceIn
      <4> QED
        BY <4>2, <4>3, <4>4 DEF InProgress
    <3> QED
      BY <1>2, <2>6, <3>1, <3>2 DEF SimulationInv
  <2>7. CASE SimDies
    BY <1>2, <2>7, GiveUpKeeps DEF SimDies
  <2> QED
    BY <1>2, <2>1, <2>2, <2>3, <2>4, <2>5, <2>6, <2>7 DEF SimulationNext, Bar, simVars
<1> QED
  BY <1>1, <1>2

(* A simulator run stores all of its readings or none: a run that returns has  *)
(* stored exactly what its summary counts, under consecutive numbers for each *)
(* device it was given once, and evaluated what it accepted.                 *)
THEOREM RunsWhole == SimulationSpec => []SimulationWhole
<1>1. SimulationInv => SimulationWhole
  BY DEF SimulationInv
<1> QED
  BY <1>1, SimulationInductive, PTL DEF SimulationSpec

-----------------------------------------------------------------------------
(* The readings table as the session of a run sees it uses each number of a   *)
(* device once, and the commit makes it the table.                          *)
KeysOnce(rs) ==
  /\ \A r, s \in rs : r.dev = s.dev /\ r.seq = s.seq => r = s
  /\ \A r \in rs : r.status \in {"accepted", "quarantined"}

LEMMA SeenExtends ==
  ASSUME SimulationInv PROVE readings \subseteq Seen.readings
BY DEF SimulationInv, InProgress, DraftExtends, Seen, NoRun

LEMMA KeysStep ==
  ASSUME SimulationInv, KeysOnce(Seen.readings), [SimulationNext]_simVars
  PROVE  KeysOnce(Seen'.readings) /\ readings \subseteq readings' /\ readings' \subseteq Seen'.readings
<1>1. readings \subseteq Seen.readings
  BY SeenExtends
<1>2. KeysOnce(readings)
  BY <1>1 DEF KeysOnce
<1>3. CASE UNCHANGED readings /\ sim'.draft = Draft0
  BY <1>2, <1>3 DEF Seen
<1>4. CASE UNCHANGED <<readings, evaluated>> /\ sim'.draft = sim.draft
  <2>1. Seen' = Seen
    BY <1>4 DEF Seen
  <2> QED
    BY <1>1, <1>4, <2>1
<1>5. ASSUME SimSend
      PROVE  UNCHANGED readings
  BY <1>5, SendShapes DEF Repeats, Inserts, Passed, SimGiveUp
<1>6. CASE SimSend
  <2>1. CASE SimGiveUp
    BY <1>3, <2>1 DEF SimGiveUp, NoRun
  <2>2. CASE Repeats
    BY <1>1, <1>5, <1>6, <2>2 DEF Repeats, Passed
  <2>3. CASE Inserts
    <3>0. PICK temp : \E o \in {"accepted", "quarantined"} :
             Matches(Seen, Message(temp)) = {} /\ Seen' = After(Seen, Message(temp), o)
      BY <2>3 DEF Inserts, Passed
    <3>1. PICK o \in {"accepted", "quarantined"} :
             Matches(Seen, Message(temp)) = {} /\ Seen' = After(Seen, Message(temp), o)
      BY <3>0
    <3> DEFINE m == Message(temp)
               row == Row(m, o)
    <3>2. Seen'.readings = Seen.readings \union {row}
      BY <3>1 DEF After
    <3>3. row.dev = m.dev /\ row.seq = m.seq /\ row.status = o
      BY DEF Row
    <3>4. \A r \in Seen.readings : ~ (r.dev = m.dev /\ r.seq = m.seq)
      BY <3>1 DEF Matches
    <3> HIDE DEF m, row
    <3> QED
      BY <1>1, <1>5, <1>6, <3>2, <3>3, <3>4 DEF KeysOnce
  <2> QED
    BY <1>6, <2>1, <2>2, <2>3, SendShapes
<1>7. CASE SimCommit
  BY <1>1, <1>7 DEF SimCommit, NoRun, Seen
<1>8. CASE DeviceSends
  <2>1. PICK x \in Fleet \ barred, n \in 0..MaxNumber, temp \in Measured :
          LET r == [dev |-> x, seq |-> n, ts |-> 1, temp |-> temp, status |-> "accepted", by |-> 0]
          IN  /\ \A q \in readings : q.dev = x => q.seq # n
              /\ readings' = readings \union {r}
    BY <1>8 DEF DeviceSends
  <2> DEFINE r == [dev |-> x, seq |-> n, ts |-> 1, temp |-> temp, status |-> "accepted", by |-> 0]
  <2>2. r.dev = x /\ r.seq = n /\ r.status = "accepted"
    OBVIOUS
  <2>3. readings' = readings \union {r} /\ \A q \in readings : q.dev = x => q.seq # n
    BY <2>1
  <2>4. Seen'.readings = readings'
    BY <1>8 DEF DeviceSends, LockFree, Seen
  <2> HIDE DEF r
  <2> QED
    BY <1>2, <2>2, <2>3, <2>4 DEF KeysOnce
<1>9. CASE SimStart
  BY <1>3, <1>9 DEF SimStart
<1>10. CASE SimNumber
  <2>1. InProgress
    BY <1>10, NoRunIdle DEF SimulationInv, SimNumber
  <2>2. sim'.draft = sim.draft
    BY <1>10, <2>1 DEF SimNumber, InProgress, RunShape
  <2> QED
    BY <1>4, <1>10, <2>2 DEF SimNumber
<1>11. CASE SimDies
  BY <1>3, <1>11 DEF SimDies, SimGiveUp, NoRun
<1>12. CASE UNCHANGED <<readings, evaluated, sim>>
  BY <1>4, <1>12
<1> QED
  BY <1>6, <1>7, <1>8, <1>9, <1>10, <1>11, <1>12 DEF SimulationNext, Bar, simVars

(* Tables that grow by fresh keys are a step of the log. *)
LEMMA LogGrows ==
  ASSUME readings \subseteq readings', KeysOnce(readings')
  PROVE  Log!Next
<1> DEFINE Logged(r) == [dev |-> r.dev, seq |-> r.seq, ts |-> r.ts, temp |-> r.temp, status |-> r.status, sup |-> -1]
           t == {Logged(r) : r \in readings}
           u == {Logged(r) : r \in readings'}
<1>1. t \subseteq u
  OBVIOUS
<1>2. \A r : /\ Logged(r).dev = r.dev /\ Logged(r).seq = r.seq
             /\ Logged(r).status = r.status /\ Logged(r).sup = -1
  OBVIOUS
<1>3. \A x \in u : \E r \in readings' : x = Logged(r)
  OBVIOUS
<1> HIDE DEF Logged
<1>4. Log!DistinctKeys(u)
  <2> SUFFICES ASSUME NEW x \in u, NEW y \in u, Log!Key(x) = Log!Key(y) PROVE x = y
    BY DEF Log!DistinctKeys
  <2>1. PICK r \in readings', s \in readings' : x = Logged(r) /\ y = Logged(s)
    BY <1>3
  <2>2. r.dev = s.dev /\ r.seq = s.seq
    BY <1>2, <2>1 DEF Log!Key
  <2> QED
    BY <2>1, <2>2 DEF KeysOnce
<1>5. \A x \in u : x.sup = Log!NoSup /\ x.status \in {"accepted", "quarantined"}
  BY <1>2, <1>3 DEF KeysOnce, Log!NoSup
<1>6. Log!Appends(t, u)
  BY <1>1, <1>4, <1>5 DEF Log!Appends
<1> QED
  BY <1>6 DEF Log!Next, Logged

(* The simulator and the devices implement the write-once log: amid numbers   *)
(* read too early, repetitions, runs given up and a commit of many readings,  *)
(* no stored reading changes and no number of a device is used twice.        *)
THEOREM SimulationLogs == SimulationSpec => SimulationKeepsLog
<1>1. SimulationInit => Log!Init
  BY DEF SimulationInit, Log!Init
<1>2. SimulationInit => KeysOnce(Seen.readings)
  BY DEF SimulationInit, Seen, NoRun, KeysOnce
<1>3. SimulationInv /\ KeysOnce(Seen.readings) /\ [SimulationNext]_simVars => KeysOnce(Seen.readings)' /\ Log!Next
  <2> SUFFICES ASSUME SimulationInv, KeysOnce(Seen.readings), [SimulationNext]_simVars
               PROVE  KeysOnce(Seen'.readings) /\ Log!Next
    BY DEF KeysOnce
  <2>1. KeysOnce(Seen'.readings) /\ readings \subseteq readings' /\ readings' \subseteq Seen'.readings
    BY KeysStep
  <2>2. KeysOnce(readings')
    BY <2>1 DEF KeysOnce
  <2> QED
    BY <2>1, <2>2, LogGrows
<1> QED
  BY <1>1, <1>2, <1>3, SimulationInductive, PTL DEF SimulationSpec, SimulationKeepsLog, Log!Spec
==============================================================================
