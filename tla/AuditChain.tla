------------------------------ MODULE AuditChain ------------------------------
(***************************************************************************)
(* The hash-chained audit log and its verification, over a table that may    *)
(* be damaged: a cell altered, an entry deleted, an entry of an old copy put  *)
(* back.  Verification must accept every chain the program wrote, and nothing *)
(* it did not write.                                                         *)
(*                                                                         *)
(* A hash is the value it was computed from, so different values have        *)
(* different hashes; whoever damages an entry cannot compute one.  The text   *)
(* of an entry is joined with line breaks before it is hashed, so the hash    *)
(* covers the sequence of lines and not where one field ends.  The actor and  *)
(* the action of an entry are constants of the program and left out.         *)
(***************************************************************************)
EXTENDS Integers, Sequences, FiniteSets

CONSTANTS
  Tenants,      \* organizations
  Notices,      \* what entries say: target and detail, each a sequence of lines
  MaxEntry,     \* bound on the numbers of entries
  MaxDamages    \* bound on the changes made behind the program's back

ASSUME NoticesAssumption ==
  /\ Notices \subseteq [target : Seq(STRING), detail : Seq(STRING)]
  /\ MaxEntry \in Nat /\ MaxDamages \in Nat

VARIABLES
  entries,     \* table audit_log
  written,     \* every entry the program has ever written
  damaged,     \* organizations whose entries have been tampered with
  damages      \* how often that has happened

auditVars == <<entries, written, damaged, damages>>

Genesis == <<>>
Junk == <<"junk">>

(* _audit_hash *)
HashOf(e) == <<e.prev, e.org, e.target \o e.detail, e.seq>>

Chain(o) == {e \in entries : e.org = o}

Newest(es) == {e \in es : \A f \in es : f.seq <= e.seq}

(* Variant: the number continues the whole table's. *)
NumberOfTable(o) == IF entries = {} THEN {1} ELSE {e.seq + 1 : e \in Newest(entries)}

(* max(seq) + 1 and the hash of the newest entry; 1 and "genesis" without one. *)
Number(o) == IF Chain(o) = {} THEN {1} ELSE {e.seq + 1 : e \in Newest(Chain(o))}
Link(o) == IF Chain(o) = {} THEN {Genesis} ELSE {e.hash : e \in Newest(Chain(o))}

Hashed(e) == [e EXCEPT !.hash = HashOf(e)]

(* append_audit, in a transaction of its own; a number another organization   *)
(* uses fails it (audit_log.seq is the key of the table).                    *)
AppendAudit(o) ==
  \E n \in Number(o), p \in Link(o), c \in Notices :
    LET e == Hashed([seq |-> n, org |-> o, target |-> c.target, detail |-> c.detail,
                     prev |-> p, hash |-> Genesis])
    IN  /\ n <= MaxEntry
        /\ \A f \in entries : f.seq # n
        /\ entries' = entries \union {e}
        /\ written' = written \union {e}
        /\ UNCHANGED <<damaged, damages>>

-----------------------------------------------------------------------------
(* Damage: changes of the table by other means than append_audit. *)

Replace(e, f) ==
  /\ entries' = (entries \ {e}) \union {f}
  /\ damaged' = damaged \union {e.org, f.org}
  /\ UNCHANGED written

WithText(e, t, d) == [[e EXCEPT !.target = t] EXCEPT !.detail = d]

EditText(e) == \E c \in Notices : Replace(e, WithText(e, c.target, c.detail))

(* A line of the detail becomes part of the target, or the other way round. *)
MoveBreak(e) ==
  \/ /\ Len(e.detail) > 1
     /\ Replace(e, WithText(e, Append(e.target, Head(e.detail)), Tail(e.detail)))
  \/ /\ Len(e.target) > 1
     /\ Replace(e, WithText(e, SubSeq(e.target, 1, Len(e.target) - 1),
                               <<e.target[Len(e.target)]>> \o e.detail))

Renumber(e) == \E n \in 1..MaxEntry :
  (\A f \in entries : f.seq # n) /\ Replace(e, [e EXCEPT !.seq = n])

Relink(e) == \E p \in {Genesis, Junk} \union {f.hash : f \in entries} : Replace(e, [e EXCEPT !.prev = p])

Reassign(e) == \E o \in Tenants : Replace(e, [e EXCEPT !.org = o])

Rehash(e) == Replace(e, [e EXCEPT !.hash = Junk])

Delete(e) ==
  /\ entries' = entries \ {e}
  /\ damaged' = damaged \union {e.org}
  /\ UNCHANGED written

(* An entry the program wrote once comes back from an old copy. *)
Restore == \E e \in written :
  /\ \A f \in entries : f.seq # e.seq
  /\ entries' = entries \union {e}
  /\ damaged' = damaged \union {e.org}
  /\ UNCHANGED written

Damage ==
  /\ damages < MaxDamages
  /\ damages' = damages + 1
  /\ \/ \E e \in entries : \/ EditText(e) \/ MoveBreak(e) \/ Renumber(e) \/ Relink(e)
                           \/ Reassign(e) \/ Rehash(e) \/ Delete(e)
     \/ Restore

-----------------------------------------------------------------------------
(* verify_audit *)

Before(e) == Newest({f \in Chain(e.org) : f.seq < e.seq})

(* Variant: the links are not compared. *)
NumbersFollow(e) ==
  /\ Before(e) = {} => e.prev = Genesis
  /\ \A f \in Before(e) : e.seq = f.seq + 1

(* The first entry starts the chain; every other one has the next number and  *)
(* the hash of the one before it.                                            *)
Follows(e) ==
  /\ Before(e) = {} => e.prev = Genesis
  /\ \A f \in Before(e) : e.seq = f.seq + 1 /\ e.prev = f.hash

Good(e) == Follows(e) /\ e.hash = HashOf(e)

(* The entries that verify before the first that does not. *)
Checked(o) == {e \in Chain(o) : \A f \in Chain(o) : f.seq <= e.seq => Good(f)}

VerifyOK(o) == Checked(o) = Chain(o)

-----------------------------------------------------------------------------
AuditInit == entries = {} /\ written = {} /\ damaged = {} /\ damages = 0

AuditNext == (\E o \in Tenants : AppendAudit(o)) \/ Damage

AuditSpec == AuditInit /\ [][AuditNext]_auditVars

(* Entries the program writes, whatever it finds, verify as long as nobody    *)
(* else touches the table: numbers and links continue without a gap.         *)
IntactVerifies == \A o \in Tenants \ damaged : VerifyOK(o)

Text(e) == WithText(e, e.target \o e.detail, <<>>)

(* Whatever happened to the table, the entries verification counts as checked *)
(* are entries the program wrote (up to where their fields end), numbered     *)
(* from 1, each written when the entry before it was the newest one.  So a    *)
(* chain that verifies is a chain the program wrote, though maybe an old one. *)
CheckedGenuine ==
  \A o \in Tenants : \A e \in Checked(o) :
    /\ \E g \in written : Text(g) = Text(e)
    /\ e.seq = 1 \/ \E f \in Checked(o) : f.seq = e.seq - 1 /\ e.prev = f.hash
=============================================================================
