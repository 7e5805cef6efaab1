------------------------ MODULE ContactRecordsProofs ------------------------
(***************************************************************************)
(* What the tables of ContactSessions say of the past, on top of the       *)
(* inductive invariant of ContactSessionsProofs: which imports created the *)
(* contacts, what a report has counted of them, which text a contact's     *)
(* fingerprint was made of, and that the numbers of a sheet are there.     *)
(***************************************************************************)
EXTENDS ContactSessionsProofs, ContactImports, PhoneFacts

(* The contacts that the batches do not account for yet *)
Pending(s) == IF Importing(s) THEN s.tally.created ELSE 0

Balanced(t, n) == Len(t.contacts) = Created(t.batches, Len(t.batches)) + n

(* What a report knows is not more than what it will count.                *)
ReportFits(s, t) ==
    /\ s.at \in {"total", "valid", "invalid", "printed"} => s.after \in 0..Len(t.batches)
    /\ s.at \in {"valid", "invalid", "printed"} => s.tally.total >= Created(t.batches, s.after)
    /\ s.at = "valid" => s.tally.total <= Len(t.contacts)
    /\ s.at = "invalid" => s.tally.total <= s.tally.valid + count_invalid(t.contacts)
    /\ s.at = "printed" => s.tally.total <= s.tally.valid + s.tally.invalid

(* An import creates nothing before it has the lock. *)
CountInv ==
    /\ Balanced(db, 0)
    /\ \A p \in Procs : lock = p => Balanced(txn, Pending(session[p]))
    /\ \A p \in Procs : lock # p => Pending(session[p]) = 0
    /\ \A p \in Procs : ReportFits(session[p], db)

-----------------------------------------------------------------------------
(* How many contacts the batches created *)

CreatedBy(batches) == [b \in DOMAIN batches |-> batches[b].tally.created]

LEMMA CreatedNumbers ==
    ASSUME NEW batches \in Seq(Batches), NEW n \in 0..Len(batches)
    PROVE  /\ Created(batches, n) = SumFunctionOnSet(CreatedBy(batches), 1..n)
           /\ \A b \in 1..n : /\ CreatedBy(batches)[b] = batches[b].tally.created
                              /\ CreatedBy(batches)[b] \in Nat /\ CreatedBy(batches)[b] \in Int
           /\ IsFiniteSet(1..n) /\ Created(batches, n) \in Int
<1>1. Created(batches, n) = SumFunctionOnSet(CreatedBy(batches), 1..n)
    BY DEF Created, CreatedBy
<1>2. \A b \in 1..n : b \in DOMAIN batches /\ batches[b] \in Batches
    OBVIOUS
<1>3. \A b \in 1..n : /\ CreatedBy(batches)[b] = batches[b].tally.created
                      /\ batches[b].tally.created \in Nat
    BY <1>2 DEF CreatedBy, Batches, Tally
<1>4. \A b \in 1..n : CreatedBy(batches)[b] \in Nat /\ CreatedBy(batches)[b] \in Int
    BY <1>3
<1>5. IsFiniteSet(1..n)
    BY FS_Interval
<1>6. Created(batches, n) \in Int
    BY <1>1, <1>4, <1>5, SumInt
<1> QED BY <1>1, <1>3, <1>4, <1>5, <1>6

LEMMA CreatedSame ==
    ASSUME NEW b \in Seq(Batches), NEW c \in Seq(Batches), NEW n \in 0..Len(b), n <= Len(c),
           \A i \in 1..n : c[i] = b[i]
    PROVE  Created(c, n) = Created(b, n)
<1> DEFINE f == CreatedBy(b)
           e == CreatedBy(c)
<1>0. n \in 0..Len(c)
    OBVIOUS
<1>1. /\ Created(b, n) = SumFunctionOnSet(f, 1..n) /\ Created(c, n) = SumFunctionOnSet(e, 1..n)
      /\ IsFiniteSet(1..n)
    BY <1>0, CreatedNumbers
<1>2. \A i \in 1..n : f[i] \in Int /\ f[i] = e[i]
    BY <1>0, CreatedNumbers
<1> HIDE DEF f, e
<1> QED BY <1>1, <1>2, SumSame

LEMMA CreatedPrefix ==
    ASSUME NEW b \in Seq(Batches), NEW n \in 0..Len(b)
    PROVE  Created(b, n) <= Created(b, Len(b))
<1> DEFINE f == CreatedBy(b)
           m == Len(b)
<1>1. m \in Nat /\ m \in 0..m
    OBVIOUS
<1>2. /\ Created(b, n) = SumFunctionOnSet(f, 1..n) /\ Created(b, m) = SumFunctionOnSet(f, 1..m)
      /\ \A i \in 1..m : f[i] \in Nat
    BY <1>1, CreatedNumbers
<1> HIDE DEF f
<1> QED BY <1>1, <1>2, SumPrefix

LEMMA CreatedAppend ==
    ASSUME NEW b \in Seq(Batches), NEW batch \in Batches
    PROVE  Created(Append(b, batch), Len(b) + 1) = Created(b, Len(b)) + batch.tally.created
<1> DEFINE c == Append(b, batch)
           n == Len(b)
           e == CreatedBy(c)
<1>1. /\ c \in Seq(Batches) /\ Len(c) = n + 1 /\ c[n + 1] = batch /\ \A i \in 1..n : c[i] = b[i]
      /\ n \in Nat /\ n \in 0..n /\ n \in 0..(n + 1) /\ n + 1 \in 0..(n + 1)
    OBVIOUS
<1>2. Created(c, n) = Created(b, n)
    <2> HIDE DEF c
    <2> QED BY <1>1, CreatedSame
<1>3. Created(c, n) = SumFunctionOnSet(e, 1..n) /\ IsFiniteSet(1..n) /\ \A i \in 1..n : e[i] \in Int
    <2> HIDE DEF c
    <2> QED BY <1>1, CreatedNumbers
<1>4. /\ Created(c, n + 1) = SumFunctionOnSet(e, 1..(n + 1))
      /\ e[n + 1] \in Int /\ e[n + 1] = batch.tally.created
    <2> HIDE DEF c
    <2>1. n + 1 \in 1..(n + 1)
        BY <1>1
    <2> QED BY <1>1, <2>1, CreatedNumbers
<1>5. 1..(n + 1) = (1..n) \cup {n + 1} /\ n + 1 \notin 1..n
    BY <1>1
<1> HIDE DEF e, c
<1>6. SumFunctionOnSet(e, (1..n) \cup {n + 1}) = SumFunctionOnSet(e, 1..n) + e[n + 1]
    <2>1. PICK S, x : S = 1..n /\ x = n + 1
        OBVIOUS
    <2>2. IsFiniteSet(S) /\ x \notin S /\ e[x] \in Int /\ \A y \in S : e[y] \in Int
        BY <1>3, <1>4, <1>5, <2>1
    <2>3. SumFunctionOnSet(e, S \cup {x}) = SumFunctionOnSet(e, S) + e[x]
        BY <2>2, SumAdd
    <2> QED BY <2>1, <2>3
<1>7. Created(c, n + 1) = Created(b, n) + batch.tally.created
    BY <1>2, <1>3, <1>4, <1>5, <1>6
<1> QED BY <1>7 DEF c

-----------------------------------------------------------------------------
(* Counts of contacts *)

LEMMA CountsOfContacts ==
    ASSUME NEW contacts \in Seq(ContactRow)
    PROVE  Len(contacts) = count_valid(contacts) + count_invalid(contacts)
<1> DEFINE D == DOMAIN contacts
           V == {i \in D : IsValid(contacts[i])}
           W == {i \in D : ~IsValid(contacts[i])}
<1>1. D = 1..Len(contacts) /\ Len(contacts) \in Nat
    OBVIOUS
<1>2. IsFiniteSet(D) /\ Cardinality(D) = Len(contacts)
    BY <1>1, FS_Interval
<1>3. V \cup W = D /\ V \cap W = {} /\ V \subseteq D /\ W \subseteq D
    OBVIOUS
<1>4. count_valid(contacts) = Cardinality(V) /\ count_invalid(contacts) = Cardinality(W)
    BY DEF count_valid, count_invalid
<1> HIDE DEF V, W, D
<1>5. IsFiniteSet(V) /\ IsFiniteSet(W)
    BY <1>2, <1>3, FS_Subset
<1>6. Cardinality(D) = Cardinality(V) + Cardinality(W) - Cardinality(V \cap W)
    BY <1>3, <1>5, FS_Union
<1>7. Cardinality(V \cap W) = 0
    BY <1>3, FS_EmptySet
<1>8. Cardinality(V) \in Nat /\ Cardinality(W) \in Nat
    BY <1>5, FS_CardinalityType
<1>9. Cardinality(D) = Cardinality(V) + Cardinality(W)
    BY <1>6, <1>7, <1>8
<1> QED BY <1>2, <1>4, <1>9

(* Contacts are neither deleted nor made valid or invalid later. *)
LEMMA CountsGoOn ==
    ASSUME NEW t, NEW u, TablesFit(t), TablesFit(u), GoesOn(t, u)
    PROVE  /\ Len(t.contacts) <= Len(u.contacts)
           /\ count_invalid(t.contacts) <= count_invalid(u.contacts)
           /\ Len(t.batches) <= Len(u.batches)
           /\ \A n \in 0..Len(t.batches) : Created(u.batches, n) = Created(t.batches, n)
<1> DEFINE D(v) == DOMAIN v.contacts
           W(v) == {i \in DOMAIN v.contacts : ~IsValid(v.contacts[i])}
<1>1. ASSUME NEW v, TablesFit(v)
      PROVE  /\ v.contacts \in Seq(ContactRow) /\ v.batches \in Seq(Batches)
             /\ IsFiniteSet(D(v)) /\ Cardinality(D(v)) = Len(v.contacts)
    <2>1. v.contacts \in Seq(ContactRow) /\ v.batches \in Seq(Batches)
        BY <1>1 DEF TablesFit, Tables, Batches
    <2>2. D(v) = 1..Len(v.contacts) /\ Len(v.contacts) \in Nat
        BY <2>1
    <2> QED BY <2>1, <2>2, FS_Interval
<1>2. D(t) \subseteq D(u)
    BY DEF GoesOn
<1>3. W(t) \subseteq W(u) /\ W(u) \subseteq D(u)
    BY DEF GoesOn, IsValid
<1>4. count_invalid(t.contacts) = Cardinality(W(t)) /\ count_invalid(u.contacts) = Cardinality(W(u))
    BY DEF count_invalid
<1>5. Cardinality(D(t)) <= Cardinality(D(u))
    <2> HIDE DEF D
    <2> QED BY <1>1, <1>2, FS_Subset
<1>6. Cardinality(W(t)) <= Cardinality(W(u))
    <2> HIDE DEF D, W
    <2>1. IsFiniteSet(W(u))
        BY <1>1, <1>3, FS_Subset
    <2> QED BY <1>3, <2>1, FS_Subset
<1>7. Len(t.batches) <= Len(u.batches)
    <2>1. DOMAIN t.batches \subseteq DOMAIN u.batches
        BY DEF GoesOn
    <2> QED BY <1>1, <2>1
<1>8. ASSUME NEW n \in 0..Len(t.batches)
      PROVE  Created(u.batches, n) = Created(t.batches, n)
    <2>1. PICK b \in Seq(Batches), c \in Seq(Batches) : b = t.batches /\ c = u.batches
        BY <1>1
    <2>2. n \in 0..Len(b) /\ n <= Len(c)
        BY <1>7, <2>1
    <2>3. \A i \in 1..n : c[i] = b[i]
        <3>1. \A i \in 1..n : i \in DOMAIN b
            BY <2>2
        <3> QED BY <2>1, <3>1 DEF GoesOn
    <2> QED BY <2>1, <2>2, <2>3, CreatedSame
<1> QED BY <1>1, <1>4, <1>5, <1>6, <1>7, <1>8

-----------------------------------------------------------------------------
(* What a step does to the balance *)

LEMMA ReportGoesOn ==
    ASSUME NEW s \in Sessions, NEW t, NEW u, TablesFit(t), TablesFit(u), GoesOn(t, u),
           ReportFits(s, t)
    PROVE  ReportFits(s, u)
<1>1. /\ s.tally.total \in Nat /\ s.tally.valid \in Nat /\ s.tally.invalid \in Nat
      /\ s.after \in Nat
    BY DEF Sessions, Tally
<1>2. ASSUME NEW v, TablesFit(v)
      PROVE  /\ Len(v.contacts) \in Nat /\ Len(v.batches) \in Nat
             /\ count_invalid(v.contacts) \in Nat
    BY <1>2, CountsFit DEF TablesFit, Tables
<1>3. /\ Len(t.contacts) <= Len(u.contacts)
      /\ count_invalid(t.contacts) <= count_invalid(u.contacts)
      /\ Len(t.batches) <= Len(u.batches)
      /\ \A n \in 0..Len(t.batches) : Created(u.batches, n) = Created(t.batches, n)
    BY CountsGoOn
<1>4. s.at \in {"total", "valid", "invalid", "printed"} =>
        /\ s.after \in 0..Len(u.batches)
        /\ Created(u.batches, s.after) = Created(t.batches, s.after)
    BY <1>1, <1>2, <1>3 DEF ReportFits
<1>5. s.at = "valid" => s.tally.total <= Len(u.contacts)
    BY <1>1, <1>2, <1>3 DEF ReportFits
<1>6. s.at = "invalid" => s.tally.total <= s.tally.valid + count_invalid(u.contacts)
    BY <1>1, <1>2, <1>3 DEF ReportFits
<1> QED BY <1>4, <1>5, <1>6 DEF ReportFits

LEMMA ViewBalanced ==
    ASSUME IInv, CountInv, NEW p \in Procs
    PROVE  Balanced(View(p), Pending(session[p]))
BY DEF CountInv, View

(* A session writes nothing, and goes on to count. *)
LEMMA CountReadStep ==
    ASSUME IInv, CountInv, NEW p \in Procs, db' = db, txn' = txn, lock' = lock,
           session' = [session EXCEPT ![p] = session'[p]],
           Pending(session'[p]) = Pending(session[p]), ReportFits(session'[p], db)
    PROVE  CountInv'
<1>1. \A q \in Procs : q # p => session'[q] = session[q]
    BY DEF IInv
<1>2. Balanced(db, 0)'
    BY DEF CountInv
<1>3. ASSUME NEW q \in Procs
      PROVE  /\ lock' = q => Balanced(txn', Pending(session'[q]))
             /\ lock' # q => Pending(session'[q]) = 0
             /\ ReportFits(session'[q], db')
    BY <1>1 DEF CountInv
<1> QED BY <1>2, <1>3 DEF CountInv

(* A session flushes, and has the lock from then on. *)
LEMMA CountWriteStep ==
    ASSUME IInv, CountInv, NEW p \in Procs, CanWrite(p), db' = db, lock' = p,
           session' = [session EXCEPT ![p] = session'[p]],
           Balanced(txn', Pending(session'[p])), ReportFits(session'[p], db)
    PROVE  CountInv'
<1>1. \A q \in Procs : q # p => session'[q] = session[q] /\ lock # q
    BY ContactSessionsAssumption DEF IInv, CanWrite
<1>2. Balanced(db, 0)'
    BY DEF CountInv
<1>3. ASSUME NEW q \in Procs
      PROVE  /\ lock' = q => Balanced(txn', Pending(session'[q]))
             /\ lock' # q => Pending(session'[q]) = 0
             /\ ReportFits(session'[q], db')
    BY <1>1 DEF CountInv
<1> QED BY <1>2, <1>3 DEF CountInv

(* A session ends that had the lock. *)
LEMMA CountEndStep ==
    ASSUME IInv, CountInv, NEW p \in Procs, lock = p, lock' = NoProc,
           session' = [session EXCEPT ![p] = NoSession],
           db' = db \/ (db' = txn /\ Pending(session[p]) = 0)
    PROVE  CountInv'
<1>1. /\ \A q \in Procs : q # p => session'[q] = session[q] /\ lock # q
      /\ session'[p] = NoSession /\ \A q \in Procs : q # NoProc
    BY ContactSessionsAssumption DEF IInv
<1>2. Balanced(db, 0)'
    BY DEF CountInv
<1>3. Pending(NoSession) = 0 /\ \A t : ReportFits(NoSession, t)
    BY DEF Pending, Importing, NoSession, ReportFits
<1>4. ASSUME NEW q \in Procs
      PROVE  ReportFits(session'[q], db')
    <2>1. CASE q = p
        BY <1>1, <1>3, <2>1
    <2>2. CASE q # p /\ db' = db
        BY <1>1, <2>2 DEF CountInv
    <2>3. CASE q # p /\ db' = txn
        <3>1. /\ session[q] \in Sessions /\ TablesFit(db) /\ TablesFit(txn) /\ GoesOn(db, txn)
              /\ ReportFits(session[q], db)
            BY DEF IInv, CountInv
        <3>2. ReportFits(session[q], txn)
            BY <3>1, ReportGoesOn
        <3> QED BY <1>1, <2>3, <3>2
    <2> QED BY <2>1, <2>2, <2>3
<1>5. ASSUME NEW q \in Procs
      PROVE  lock' # q /\ Pending(session'[q]) = 0
    BY <1>1, <1>3 DEF CountInv
<1> QED BY <1>2, <1>4, <1>5 DEF CountInv

-----------------------------------------------------------------------------
(* A flush of what a session has changed adds nothing. *)
LEMMA SavedSame ==
    ASSUME IInv, NEW p \in Procs, TablesFit(Saved(p))
    PROVE  /\ Len(Saved(p).contacts) = Len(View(p).contacts)
           /\ Saved(p).batches = View(p).batches
           /\ \A n : Balanced(View(p), n) => Balanced(Saved(p), n)
<1>1. View(p) \in Tables /\ View(p).contacts \in Seq(ContactRow)
    BY ViewFits DEF TablesFit, Tables
<1>2. Saved(p).contacts \in Seq(ContactRow)
    BY DEF TablesFit, Tables
<1>3. DOMAIN Saved(p).contacts = DOMAIN View(p).contacts /\ Saved(p).batches = View(p).batches
    BY <1>1 DEF Saved, Flushed, Tables
<1>4. Len(Saved(p).contacts) = Len(View(p).contacts)
    BY <1>1, <1>2, <1>3
<1> QED BY <1>3, <1>4 DEF Balanced

LEMMA ImportSaves ==
    ASSUME IInv, NEW p \in Procs, Importing(session[p])
    PROVE  TablesFit(Saved(p))
<1>1. ImportFits(session[p], View(p))
    BY ViewFits DEF SessionFits
<1> QED BY <1>1, SavedFits DEF ImportFits

-----------------------------------------------------------------------------
(* The steps of an import *)

LEMMA StartImportCounts ==
    ASSUME IInv, CountInv, NEW p \in Procs, StartImport(p)
    PROVE  CountInv'
<1> DEFINE s == session'[p]
<1>1. PICK file \in Files : session' = [session EXCEPT ![p] =
            [NoSession EXCEPT !.at = "reading", !.file = file,
                              !.tally.total = Len(file), !.after = Len(db.batches)]]
    BY DEF StartImport
<1>2. /\ session' = [session EXCEPT ![p] = s] /\ s.at = "reading" /\ s.tally.created = 0
      /\ session[p].at = "idle" /\ db' = db /\ txn' = txn /\ lock' = lock
    BY <1>1 DEF StartImport, At, IInv, NoSession, NoTally
<1> HIDE DEF s
<1>3. Pending(s) = Pending(session[p]) /\ ReportFits(s, db)
    BY <1>2 DEF Pending, Importing, ReportFits
<1> QED BY <1>2, <1>3, CountReadStep DEF s

(* A row that is skipped, found or counted is not created. *)
LEMMA RowCounts ==
    ASSUME IInv, CountInv, NEW p \in Procs,
           SkipDuplicate(p) \/ UpdateExisting(p) \/ FindNone(p)
    PROVE  CountInv'
<1> DEFINE s == session'[p]
           o == session[p]
           n == Counted(o.tally, Row(p))
<1>1. /\ o \in Sessions /\ o.tally \in Tally /\ o.at = "reading"
      /\ db' = db /\ txn' = txn /\ lock' = lock
    BY ViewFits DEF SkipDuplicate, UpdateExisting, FindNone, HasRow, At, Sessions
<1>2. n \in Tally /\ n.created = o.tally.created
    BY <1>1, CountedFits
<1>3. /\ session' = [session EXCEPT ![p] = s]
      /\ s.at \in {"reading", "inserting"}
      /\ s.tally \in {CountedDuplicate(o.tally), CountedUpdate(n), n}
    <2>1. session \in [Procs -> Sessions]
        BY DEF IInv
    <2>2. CASE SkipDuplicate(p)
        BY <1>1, <2>1, <2>2 DEF SkipDuplicate, Sessions
    <2>3. CASE UpdateExisting(p)
        <3>1. PICK i \in Existing(View(p).contacts, Row(p)) :
                session' = [session EXCEPT
                    ![p].row = @ + 1,
                    ![p].seen = @ \cup {FingerprintOf(Row(p))},
                    ![p].tally = CountedUpdate(Counted(@, Row(p))),
                    ![p].objects = WithObject(p, i, Updated(Object(p, i).edited, Row(p)))]
            BY <2>3 DEF UpdateExisting
        <3> QED BY <1>1, <2>1, <3>1 DEF Sessions
    <2>4. CASE FindNone(p)
        BY <1>1, <2>1, <2>4 DEF FindNone, Sessions
    <2> QED BY <2>2, <2>3, <2>4
<1> HIDE DEF s, o, n
<1>4. s.tally.created = o.tally.created
    BY <1>1, <1>2, <1>3 DEF CountedDuplicate, CountedUpdate, Tally
<1>5. Pending(s) = Pending(o) /\ ReportFits(s, db)
    BY <1>1, <1>3, <1>4 DEF Pending, Importing, ReportFits
<1> QED BY <1>1, <1>3, <1>5, CountReadStep DEF s, o

LEMMA InsertCounts ==
    ASSUME IInv, CountInv, NEW p \in Procs, Insert(p)
    PROVE  CountInv'
<1> DEFINE s == session'[p]
           o == session[p]
           saved == Saved(p)
           new == NewRow(Row(p))
<1>1. o \in Sessions /\ o.tally \in Tally /\ o.at = "inserting" /\ TablesFit(saved)
    BY ViewFits, ImportSaves DEF Insert, At, Sessions, Importing
<1>2. /\ session' = [session EXCEPT ![p] = s]
      /\ s.at = "reading" /\ s.tally = CountedNew(o.tally)
      /\ db' = db /\ lock' = p /\ CanWrite(p)
    BY <1>1 DEF Insert, IInv, Sessions
<1>3. txn' = [saved EXCEPT !.contacts = Append(@, new), !.ran = Append(@, 0)]
    BY DEF Insert
<1>4. Balanced(saved, Pending(o))
    BY <1>1, SavedSame, ViewBalanced
<1> HIDE DEF s, o, saved, new
<1>5. txn'.contacts = Append(saved.contacts, new) /\ txn'.batches = saved.batches
    BY <1>1, <1>3 DEF TablesFit, Tables
<1>6. saved.contacts \in Seq(ContactRow) /\ saved.batches \in Seq(Batches)
    BY <1>1 DEF TablesFit, Tables, Batches
<1>7. Len(txn'.contacts) = Len(saved.contacts) + 1
    BY <1>5, <1>6
<1>8. Pending(o) = o.tally.created /\ Pending(s) = o.tally.created + 1 /\ o.tally.created \in Nat
    BY <1>1, <1>2 DEF Pending, Importing, CountedNew, Tally
<1>9. Created(saved.batches, Len(saved.batches)) \in Int
    <2>1. Len(saved.batches) \in 0..Len(saved.batches)
        BY <1>6
    <2> QED BY <1>6, <2>1, CreatedNumbers
<1>10. Balanced(txn', Pending(s))
    BY <1>4, <1>5, <1>7, <1>8, <1>9 DEF Balanced
<1>11. ReportFits(s, db)
    BY <1>2 DEF ReportFits
<1> QED BY <1>2, <1>10, <1>11, CountWriteStep DEF s

LEMMA FinishImportCounts ==
    ASSUME IInv, CountInv, NEW p \in Procs, FinishImport(p)
    PROVE  CountInv'
<1> DEFINE s == session'[p]
           o == session[p]
           saved == Saved(p)
           batch == Batch(p)
<1>1. /\ o \in Sessions /\ o.tally \in Tally /\ o.at = "reading" /\ TablesFit(saved)
      /\ batch \in Batches /\ batch.tally = o.tally
    <2>1. o.at = "reading"
        BY DEF FinishImport, At
    <2>2. o.file \in Files
        BY <2>1, ViewFits DEF SessionFits, Importing, ImportFits
    <2> QED BY <2>1, <2>2, ViewFits, ImportSaves DEF Sessions, Importing, Batch, Batches
<1>2. /\ session' = [session EXCEPT ![p] = s] /\ s.at = "closing"
      /\ db' = db /\ lock' = p /\ CanWrite(p)
      /\ txn' = [saved EXCEPT !.batches = Append(@, batch)]
    BY <1>1 DEF FinishImport, IInv, Sessions
<1>3. Balanced(saved, Pending(o))
    BY <1>1, SavedSame, ViewBalanced
<1> HIDE DEF s, o, saved, batch
<1>4. txn'.contacts = saved.contacts /\ txn'.batches = Append(saved.batches, batch)
    BY <1>1, <1>2 DEF TablesFit, Tables
<1>5. saved.batches \in Seq(Batches)
    BY <1>1 DEF TablesFit, Tables, Batches
<1>6. Pending(o) = batch.tally.created /\ Pending(s) = 0
    BY <1>1, <1>2 DEF Pending, Importing
<1>7. Created(txn'.batches, Len(txn'.batches))
        = Created(saved.batches, Len(saved.batches)) + batch.tally.created
    <2>1. Len(txn'.batches) = Len(saved.batches) + 1
        BY <1>4, <1>5
    <2>2. PICK b \in Seq(Batches) : b = saved.batches
        BY <1>5
    <2>3. Created(Append(b, batch), Len(b) + 1) = Created(b, Len(b)) + batch.tally.created
        BY <1>1, CreatedAppend
    <2> QED BY <1>4, <2>1, <2>2, <2>3
<1>8. Created(saved.batches, Len(saved.batches)) \in Int /\ batch.tally.created \in Nat
    <2>1. Len(saved.batches) \in 0..Len(saved.batches)
        BY <1>5
    <2> QED BY <1>1, <1>5, <2>1, CreatedNumbers DEF Tally
<1>9. Balanced(txn', Pending(s))
    BY <1>3, <1>4, <1>6, <1>7, <1>8 DEF Balanced
<1>10. ReportFits(s, db)
    BY <1>2 DEF ReportFits
<1> QED BY <1>2, <1>9, <1>10, CountWriteStep DEF s

-----------------------------------------------------------------------------
(* The steps of the others *)

LEMMA ClaimCounts ==
    ASSUME IInv, CountInv, NEW p \in Procs, Claim(p)
    PROVE  CountInv'
<1>1. /\ session' = [session EXCEPT ![p] = session'[p]] /\ session'[p].at = "handling"
      /\ db' = db /\ txn' = db /\ lock' = p /\ CanWrite(p)
    BY ViewFits DEF Claim, Move, IInv, Sessions
<1>2. Pending(session'[p]) = 0 /\ ReportFits(session'[p], db)
    BY <1>1 DEF Pending, Importing, ReportFits
<1>3. Balanced(txn', Pending(session'[p]))
    BY <1>1, <1>2 DEF CountInv
<1> QED BY <1>1, <1>2, <1>3, CountWriteStep

(* A contact is loaded or changed. *)
LEMMA LoadCounts ==
    ASSUME IInv, CountInv, NEW p \in Procs, Handle(p) \/ Meet(p) \/ Serve(p)
    PROVE  CountInv'
<1> DEFINE s == session'[p]
           o == session[p]
<1>1. /\ o.at \in {"idle", "handling", "serving", "storing"}
      /\ db' = db /\ txn' = txn /\ lock' = lock
    BY DEF Handle, Meet, Serve, At
<1>2. /\ session' = [session EXCEPT ![p] = s]
      /\ s.at \in {"settling", "serving", "storing"}
    <2>1. session \in [Procs -> Sessions]
        BY DEF IInv
    <2>2. CASE Handle(p)
        BY <2>1, <2>2 DEF Handle, Sessions
    <2>3. CASE Meet(p)
        BY <2>1, <2>3 DEF Meet, Sessions
    <2>4. CASE Serve(p)
        BY <2>1, <2>4 DEF Serve, Sessions
    <2> QED BY <2>2, <2>3, <2>4
<1> HIDE DEF s, o
<1>3. Pending(s) = Pending(o) /\ ReportFits(s, db)
    BY <1>1, <1>2 DEF Pending, Importing, ReportFits
<1> QED BY <1>1, <1>2, <1>3, CountReadStep DEF s, o

LEMMA SettleCounts ==
    ASSUME IInv, CountInv, NEW p \in Procs, Settle(p)
    PROVE  CountInv'
<1> DEFINE s == session'[p]
           o == session[p]
<1>1. /\ session' = [session EXCEPT ![p] = s] /\ s.at = "closing" /\ o.at = "settling"
      /\ db' = db /\ txn' = Saved(p) /\ lock' = p /\ CanWrite(p)
    BY ViewFits DEF Settle, At, IInv, Sessions
<1>2. TablesFit(Saved(p))
    <2>1. \A i \in DOMAIN o.objects : UpToDate(o.objects[i], View(p).contacts[i])
        BY <1>1, ViewFits DEF Stands
    <2> QED BY <2>1, SavedFits
<1> HIDE DEF s, o
<1>3. Pending(o) = 0 /\ Pending(s) = 0 /\ ReportFits(s, db)
    BY <1>1 DEF Pending, Importing, ReportFits
<1>4. Balanced(txn', Pending(s))
    BY <1>1, <1>2, <1>3, SavedSame, ViewBalanced DEF o
<1> QED BY <1>1, <1>3, <1>4, CountWriteStep DEF s

LEMMA BotCounts ==
    ASSUME IInv, CountInv, NEW p \in Procs, NEW place \in {"storing", "closing"},
           BotWrites(p, place)
    PROVE  CountInv'
<1> DEFINE s == session'[p]
           o == session[p]
           t == View(p)
<1>1. /\ session' = [session EXCEPT ![p] = s] /\ s.at = place /\ o.at = "storing"
      /\ db' = db /\ lock' = p /\ CanWrite(p)
      /\ txn' = [Saved(p) EXCEPT !.served = @ \cup DOMAIN o.objects]
    BY ViewFits DEF BotWrites, At, IInv, Sessions
<1>2. t.contacts \in Seq(ContactRow) /\ t \in Tables
    BY ViewFits DEF TablesFit, Tables
<1>3. /\ DOMAIN txn'.contacts = DOMAIN t.contacts /\ txn'.batches = t.batches
    BY <1>1, <1>2 DEF Saved, Flushed, Tables
<1>4. txn'.contacts \in Seq(ContactRow)
    <2>1. IInv'
        BY BotWritesKeeps
    <2> QED BY <2>1 DEF IInv, TablesFit, Tables
<1>5. Len(txn'.contacts) = Len(t.contacts)
    BY <1>2, <1>3, <1>4
<1> HIDE DEF s, o, t
<1>6. Pending(o) = 0 /\ Pending(s) = 0 /\ ReportFits(s, db)
    BY <1>1 DEF Pending, Importing, ReportFits
<1>7. Balanced(t, Pending(o))
    BY ViewBalanced DEF o, t
<1>8. Balanced(txn', Pending(s))
    BY <1>3, <1>5, <1>6, <1>7 DEF Balanced
<1> QED BY <1>1, <1>6, <1>8, CountWriteStep DEF s

LEMMA EndCounts ==
    ASSUME IInv, CountInv, NEW p \in Procs, Commit(p) \/ RollBack(p)
    PROVE  CountInv'
<1>1. session' = [session EXCEPT ![p] = NoSession]
    BY DEF Commit, RollBack
<1>2. CASE lock = p
    <2>1. lock' = NoProc
        BY <1>2 DEF Commit, RollBack
    <2>2. db' = db \/ (db' = txn /\ Pending(session[p]) = 0)
        BY DEF Commit, RollBack, At, Pending, Importing
    <2> QED BY <1>1, <1>2, <2>1, <2>2, CountEndStep
<1>3. CASE lock # p
    <2>1. RollBack(p)
        BY <1>3, ViewFits DEF Commit, At, Stands
    <2>2. db' = db /\ txn' = txn /\ lock' = lock
        BY <1>3, <2>1 DEF RollBack
    <2>3. session'[p] = NoSession /\ session' = [session EXCEPT ![p] = session'[p]]
        BY <1>1 DEF IInv
    <2>4. Pending(session'[p]) = Pending(session[p]) /\ ReportFits(session'[p], db)
        BY <1>3, <2>3 DEF CountInv, Pending, Importing, NoSession, ReportFits
    <2> QED BY <2>2, <2>3, <2>4, CountReadStep
<1> QED BY <1>2, <1>3

-----------------------------------------------------------------------------
(* The steps of a report *)

LEMMA QueryCounts ==
    ASSUME IInv, CountInv, NEW p \in Procs, Query(p)
    PROVE  CountInv'
<1> DEFINE s == session'[p]
           o == session[p]
           t == o.tally
           b == db.batches
           c == db.contacts
<1>1. o \in Sessions /\ t \in Tally /\ o.at \in {"latest", "total", "valid", "invalid"}
    BY ViewFits DEF Query, At, Sessions
<1>2. /\ session' = [session EXCEPT ![p] = s]
      /\ \/ /\ o.at = "latest"
            /\ s = [o EXCEPT !.at = "total", !.after = Len(b)]
         \/ /\ o.at = "total"
            /\ s = [o EXCEPT !.at = "valid", !.tally = [t EXCEPT !.total = Len(c)]]
         \/ /\ o.at = "valid"
            /\ s = [o EXCEPT !.at = "invalid", !.tally = [t EXCEPT !.valid = count_valid(c)]]
         \/ /\ o.at = "invalid"
            /\ s = [o EXCEPT !.at = "printed", !.tally = [t EXCEPT !.invalid = count_invalid(c)]]
    <2>1. session \in [Procs -> Sessions]
        BY DEF IInv
    <2>2. CASE At(p, "latest") /\ session' = [session EXCEPT
                    ![p].at = "total", ![p].after = Len(db.batches)]
        BY <2>1, <2>2 DEF At
    <2>3. CASE At(p, "total") /\ session' = [session EXCEPT
                    ![p].at = "valid", ![p].tally.total = Len(db.contacts)]
        BY <2>1, <2>3 DEF At, Sessions
    <2>4. CASE At(p, "valid") /\ session' = [session EXCEPT
                    ![p].at = "invalid", ![p].tally.valid = count_valid(db.contacts)]
        BY <2>1, <2>4 DEF At, Sessions
    <2>5. CASE At(p, "invalid") /\ session' = [session EXCEPT
                    ![p].at = "printed", ![p].tally.invalid = count_invalid(db.contacts)]
        BY <2>1, <2>5 DEF At, Sessions
    <2> QED BY <2>2, <2>3, <2>4, <2>5 DEF Query
<1>3. db' = db /\ txn' = txn /\ lock' = lock
    BY DEF Query
<1>4. b \in Seq(Batches) /\ c \in Seq(ContactRow)
    BY DEF IInv, TablesFit, Tables, Batches
<1>5. Len(c) = Created(b, Len(b)) /\ ReportFits(o, db)
    <2>1. Created(b, Len(b)) \in Int
        <3>1. Len(b) \in 0..Len(b)
            BY <1>4
        <3> QED BY <1>4, <3>1, CreatedNumbers
    <2> QED BY <1>4, <2>1 DEF CountInv, Balanced
<1>6. /\ Len(b) \in Nat /\ Len(c) \in Nat
      /\ count_valid(c) \in Nat /\ count_invalid(c) \in Nat
      /\ Len(c) = count_valid(c) + count_invalid(c)
    BY <1>4, CountsFit, CountsOfContacts
<1>7. \A n \in 0..Len(b) : Created(b, n) <= Len(c)
    BY <1>4, <1>5, CreatedPrefix
<1> HIDE DEF s, o, t
<1>8. Pending(s) = Pending(o)
    BY <1>1, <1>2 DEF Pending, Importing, Sessions
<1>9. ReportFits(s, db)
    <2>1. CASE o.at = "latest"
        <3>1. s.at = "total" /\ s.after = Len(b)
            BY <1>1, <1>2, <2>1 DEF Sessions
        <3> QED BY <1>6, <3>1 DEF ReportFits
    <2>2. CASE o.at = "total"
        <3>1. s.at = "valid" /\ s.after = o.after /\ s.tally.total = Len(c)
            BY <1>1, <1>2, <2>2 DEF Sessions, Tally
        <3>2. o.after \in 0..Len(b)
            BY <1>5, <2>2 DEF ReportFits
        <3> QED BY <1>6, <1>7, <3>1, <3>2 DEF ReportFits
    <2>3. CASE o.at = "valid"
        <3>1. /\ s.at = "invalid" /\ s.after = o.after /\ s.tally.total = t.total
              /\ s.tally.valid = count_valid(c)
            <4>1. s = [o EXCEPT !.at = "invalid", !.tally = [t EXCEPT !.valid = count_valid(c)]]
                BY <1>2, <2>3
            <4> HIDE DEF b, c
            <4> QED BY <1>1, <4>1 DEF Sessions, Tally
        <3>2. /\ o.after \in 0..Len(b) /\ t.total >= Created(b, o.after)
              /\ t.total <= Len(c)
            BY <1>5, <2>3 DEF ReportFits, t
        <3> QED BY <1>6, <3>1, <3>2 DEF ReportFits
    <2>4. CASE o.at = "invalid"
        <3>1. /\ s.at = "printed" /\ s.after = o.after /\ s.tally.total = t.total
              /\ s.tally.valid = t.valid /\ s.tally.invalid = count_invalid(c)
            <4>1. s = [o EXCEPT !.at = "printed", !.tally = [t EXCEPT !.invalid = count_invalid(c)]]
                BY <1>2, <2>4
            <4> HIDE DEF b, c
            <4> QED BY <1>1, <4>1 DEF Sessions, Tally
        <3>2. /\ o.after \in 0..Len(b) /\ t.total >= Created(b, o.after)
              /\ t.total <= t.valid + count_invalid(c)
            BY <1>5, <2>4 DEF ReportFits, t
        <3> QED BY <3>1, <3>2 DEF ReportFits
    <2> QED BY <1>1, <2>1, <2>2, <2>3, <2>4
<1> QED BY <1>2, <1>3, <1>8, <1>9, CountReadStep DEF s, o

LEMMA ReportCounts ==
    ASSUME IInv, CountInv, NEW p \in Procs, Report(p)
    PROVE  CountInv'
<1>1. CASE StartReport(p)
    <2>1. /\ session' = [session EXCEPT ![p] = session'[p]] /\ session'[p].at = "latest"
          /\ session[p].at = "idle" /\ db' = db /\ txn' = txn /\ lock' = lock
        BY <1>1, ViewFits DEF StartReport, At, Move, IInv, Sessions
    <2>2. Pending(session'[p]) = Pending(session[p]) /\ ReportFits(session'[p], db)
        BY <2>1 DEF Pending, Importing, ReportFits
    <2> QED BY <2>1, <2>2, CountReadStep
<1>2. CASE EndReport(p)
    <2>1. /\ session'[p] = NoSession /\ session' = [session EXCEPT ![p] = session'[p]]
          /\ session[p].at = "printed" /\ db' = db /\ txn' = txn /\ lock' = lock
        BY <1>2 DEF EndReport, At, IInv
    <2>2. Pending(session'[p]) = Pending(session[p]) /\ ReportFits(session'[p], db)
        BY <2>1 DEF Pending, Importing, NoSession, ReportFits
    <2> QED BY <2>1, <2>2, CountReadStep
<1> QED BY <1>1, <1>2, QueryCounts DEF Report

-----------------------------------------------------------------------------
(* The second inductive invariant *)

LEMMA CountInit == Init => CountInv
<1> SUFFICES ASSUME Init PROVE CountInv
    OBVIOUS
<1>1. /\ db = NoTables /\ lock = NoProc /\ \A p \in Procs : session[p] = NoSession
      /\ \A p \in Procs : lock # p
    BY ContactSessionsAssumption DEF Init
<1>2. Balanced(NoTables, 0)
    <2>1. PICK b : b = NoTables.batches
        OBVIOUS
    <2>2. b = <<>> /\ b \in Seq(Batches) /\ 0 \in 0..Len(b) /\ Len(b) = 0 /\ 1..0 = {}
        BY <2>1 DEF NoTables
    <2>3. Created(b, 0) = SumFunctionOnSet(CreatedBy(b), 1..0)
        BY <2>2, CreatedNumbers
    <2>4. Created(b, 0) = 0
        BY <2>2, <2>3, SumEmpty
    <2> QED BY <2>1, <2>2, <2>4 DEF Balanced, NoTables
<1>3. Pending(NoSession) = 0 /\ \A t : ReportFits(NoSession, t)
    BY DEF Pending, Importing, NoSession, ReportFits
<1> QED BY <1>1, <1>2, <1>3 DEF CountInv

LEMMA CountNext == IInv /\ CountInv /\ [Next]_vars => CountInv'
<1> SUFFICES ASSUME IInv, CountInv, [Next]_vars PROVE CountInv'
    OBVIOUS
<1>1. CASE UNCHANGED vars
    BY <1>1 DEF vars, CountInv
<1>2. ASSUME NEW p \in Procs, Import(p) PROVE CountInv'
    BY <1>2, StartImportCounts, RowCounts, InsertCounts, FinishImportCounts, EndCounts
       DEF Import, Refused
<1>3. ASSUME NEW p \in Procs, Change(p) PROVE CountInv'
    BY <1>3, ClaimCounts, LoadCounts, SettleCounts, BotCounts
       DEF Change, AddFollowUp, StoreOffset
<1> QED BY <1>1, <1>2, <1>3, ReportCounts, EndCounts DEF Next

LEMMA CountInvariant == Spec => [](IInv /\ CountInv)
BY InitFits, NextKeeps, CountInit, CountNext, PTL DEF Spec

(* The table holds as many contacts as the imports on record say they have *)
(* created: an import that is rolled back takes its contacts with it, and  *)
(* one whose insertion is refused has left none.                           *)
THEOREM ContactsStayAccountedFor == Spec => []ContactsAreAccountedFor
<1>1. IInv /\ CountInv => ContactsAreAccountedFor
    <2> SUFFICES ASSUME IInv, CountInv PROVE ContactsAreAccountedFor
        OBVIOUS
    <2>1. db.batches \in Seq(Batches)
        BY DEF IInv, TablesFit, Tables, Batches
    <2>2. Len(db.batches) \in 0..Len(db.batches)
        BY <2>1
    <2>3. Created(db.batches, Len(db.batches)) \in Int
        BY <2>1, <2>2, CreatedNumbers
    <2> QED BY <2>3 DEF CountInv, Balanced, ContactsAreAccountedFor
<1> QED BY <1>1, CountInvariant, PTL

(* Whatever is committed between the queries of a report, it shows no      *)
(* fewer valid and invalid contacts than contacts, and no fewer contacts   *)
(* than were created up to the batch it shows.                             *)
THEOREM ReportsAddUp == Spec => []ReportAddsUp
<1>1. IInv /\ CountInv => ReportAddsUp
    BY DEF CountInv, ReportFits, ReportAddsUp, At
<1> QED BY <1>1, CountInvariant, PTL

-----------------------------------------------------------------------------
(* What a fingerprint was made of *)

(* No phone of a file contains the sign that the code puts between a phone *)
(* and a name: another phone and name could make the same text.            *)
PlainPhones == \A row \in FileRows : \A k \in DOMAIN row.phone : row.phone[k] # "|"

NameFits(c) ==
    \E name \in Seq(STRING) :
        /\ c.fingerprint = [kind |-> "invalid", key |-> c.phone \o <<"|">> \o name]
        /\ c.name = IF name = <<>> THEN NoName ELSE name

Named(contacts) == \A i \in DOMAIN contacts : contacts[i].number = None => NameFits(contacts[i])

SameText(c, d) == c.name = d.name /\ c.phone = d.phone

(* A contact without a number keeps its name and phone. *)
TextsFit(objects, contacts) ==
    \A i \in DOMAIN objects :
        contacts[i].number = None => /\ SameText(objects[i].loaded, contacts[i])
                                     /\ SameText(objects[i].edited, contacts[i])

TextsGoOn(contacts, later) ==
    \A i \in DOMAIN contacts : contacts[i].number = None => SameText(later[i], contacts[i])

TextInv ==
    /\ Named(db.contacts) /\ Named(txn.contacts) /\ TextsGoOn(db.contacts, txn.contacts)
    /\ \A p \in Procs : TextsFit(session[p].objects, View(p).contacts)

(* A text is parted in one way only at a sign that the first part lacks. *)
LEMMA Parted ==
    ASSUME NEW a \in Seq(STRING), NEW b \in Seq(STRING), NEW x \in Seq(STRING), NEW y \in Seq(STRING),
           \A k \in DOMAIN a : a[k] # "|", \A k \in DOMAIN b : b[k] # "|",
           a \o <<"|">> \o x = b \o <<"|">> \o y
    PROVE  a = b /\ x = y
<1> DEFINE t == a \o <<"|">> \o x
           u == b \o <<"|">> \o y
           m == Len(a)
           n == Len(b)
<1>1. /\ m \in Nat /\ n \in Nat /\ Len(x) \in Nat /\ Len(y) \in Nat
      /\ Len(t) = m + 1 + Len(x) /\ Len(u) = n + 1 + Len(y)
    OBVIOUS
<1>2. /\ \A k \in 1..m : t[k] = a[k] /\ a[k] # "|"
      /\ t[m + 1] = "|"
      /\ \A k \in 1..Len(x) : t[m + 1 + k] = x[k]
    OBVIOUS
<1>3. /\ \A k \in 1..n : u[k] = b[k] /\ b[k] # "|"
      /\ u[n + 1] = "|"
      /\ \A k \in 1..Len(y) : u[n + 1 + k] = y[k]
    OBVIOUS
<1>4. t = u
    OBVIOUS
<1> HIDE DEF t, u
<1>5. m = n
    <2>1. CASE m < n
        <3>1. m + 1 \in 1..n
            BY <1>1, <2>1
        <3> QED BY <1>2, <1>3, <1>4, <3>1
    <2>2. CASE n < m
        <3>1. n + 1 \in 1..m
            BY <1>1, <2>2
        <3> QED BY <1>2, <1>3, <1>4, <3>1
    <2> QED BY <1>1, <2>1, <2>2
<1>6. a = b
    <2>1. \A k \in 1..m : a[k] = b[k]
        BY <1>2, <1>3, <1>4, <1>5
    <2> QED BY <1>5, <2>1
<1>7. Len(x) = Len(y)
    BY <1>1, <1>4, <1>5
<1>8. x = y
    <2>1. ASSUME NEW k \in 1..Len(x) PROVE x[k] = y[k]
        <3>1. PICK j : j = m + 1 + k
            OBVIOUS
        <3>2. t[j] = x[k]
            BY <1>2, <3>1
        <3>3. k \in 1..Len(y) /\ j = n + 1 + k
            BY <1>5, <1>7, <3>1
        <3>4. u[j] = y[k]
            BY <1>3, <3>3
        <3> QED BY <1>4, <3>2, <3>4
    <2>2. \A k \in 1..Len(x) : x[k] = y[k]
        BY <2>1
    <2>3. PICK l \in Nat : l = Len(x) /\ l = Len(y) /\ DOMAIN x = 1..l /\ DOMAIN y = 1..l
        BY <1>1, <1>7
    <2> QED BY <2>2, <2>3
<1> QED BY <1>6, <1>8

(* A contact without a number that a row is taken for has its text. *)
LEMMA TakenFor ==
    ASSUME PlainPhones, NEW t, TablesFit(t), Named(t.contacts), NEW row \in FileRows,
           NEW i \in Existing(t.contacts, row), t.contacts[i].number = None,
           NEW c \in ContactRow, SameText(c, t.contacts[i])
    PROVE  SameText(Updated(c, row), t.contacts[i])
<1> DEFINE r == t.contacts[i]
<1>1. /\ i \in DOMAIN t.contacts /\ normalize_phone(row.phone) = None
      /\ r \in ContactRow
    <2>1. t.contacts \in Seq(ContactRow)
        BY DEF TablesFit, Tables
    <2> QED BY <2>1, ExistingFits
<1>2. r.fingerprint = FingerprintOf(row)
    BY <1>1 DEF Existing, get_by_fingerprint
<1>3. PICK name \in Seq(STRING) :
        /\ r.fingerprint = [kind |-> "invalid", key |-> r.phone \o <<"|">> \o name]
        /\ r.name = IF name = <<>> THEN NoName ELSE name
    BY <1>1 DEF Named, NameFits
<1>4. PICK key : key = row.phone \o <<"|">> \o row.name
    OBVIOUS
<1>5. FingerprintOf(row) = [kind |-> "invalid", key |-> key]
    BY <1>1, <1>4 DEF FingerprintOf, fingerprint_for
<1>6. row \in FileRow /\ \E other \in FileRows : r.phone = other.phone
    BY <1>1, RowType DEF ContactRow
<1>7. /\ r.phone \in Seq(STRING) /\ row.phone \in Seq(STRING) /\ row.name \in Seq(STRING)
      /\ \A k \in DOMAIN r.phone : r.phone[k] # "|"
      /\ \A k \in DOMAIN row.phone : row.phone[k] # "|"
    BY <1>6, RowType DEF FileRow, PlainPhones
<1>8. r.phone \o <<"|">> \o name = row.phone \o <<"|">> \o row.name
    <2>1. r.fingerprint.key = r.phone \o <<"|">> \o name
        BY <1>3
    <2>2. r.fingerprint.key = key
        BY <1>2, <1>5
    <2> QED BY <1>4, <2>1, <2>2
<1>9. r.phone = row.phone /\ name = row.name
    <2>1. PICK a, b : a = r.phone /\ b = row.phone
        OBVIOUS
    <2> HIDE DEF r
    <2> QED BY <1>7, <1>8, <2>1, Parted
<1>10. /\ Updated(c, row).name = (IF row.name = <<>> THEN c.name ELSE row.name)
       /\ Updated(c, row).phone = (IF row.phone = <<>> THEN c.phone ELSE row.phone)
    BY DEF Updated, ContactRow
<1> QED BY <1>3, <1>9, <1>10 DEF SameText

-----------------------------------------------------------------------------
(* Steps and the texts *)

LEMMA TextReadStep ==
    ASSUME IInv, TextInv, NEW p \in Procs, db' = db, txn' = txn, lock' = lock,
           session' = [session EXCEPT ![p] = session'[p]],
           TextsFit(session'[p].objects, View(p).contacts)
    PROVE  TextInv'
<1>1. ASSUME NEW q \in Procs
      PROVE  View(q)' = View(q) /\ (q # p => session'[q] = session[q])
    BY DEF View, IInv
<1>2. \A q \in Procs : TextsFit(session'[q].objects, View(q)'.contacts)
    BY <1>1 DEF TextInv
<1> QED BY <1>2 DEF TextInv

LEMMA TextsGoOnFurther ==
    ASSUME NEW c, NEW d, NEW e, TextsGoOn(c, d), TextsGoOn(d, e),
           \A i \in DOMAIN c : i \in DOMAIN d /\ d[i].number = c[i].number
    PROVE  TextsGoOn(c, e)
BY DEF TextsGoOn, SameText

LEMMA TextWriteStep ==
    ASSUME IInv, TextInv, NEW p \in Procs, CanWrite(p), db' = db, lock' = p,
           session' = [session EXCEPT ![p] = session'[p]],
           Named(txn'.contacts), TextsGoOn(View(p).contacts, txn'.contacts),
           TextsFit(session'[p].objects, txn'.contacts)
    PROVE  TextInv'
<1>1. TextsGoOn(db.contacts, txn'.contacts)
    <2>1. TextsGoOn(txn.contacts, txn'.contacts) /\ TextsGoOn(db.contacts, txn.contacts)
        BY ViewFits DEF TextInv
    <2>2. \A i \in DOMAIN db.contacts :
            i \in DOMAIN txn.contacts /\ txn.contacts[i].number = db.contacts[i].number
        BY DEF IInv, GoesOn
    <2> QED BY <2>1, <2>2, TextsGoOnFurther
<1>2. ASSUME NEW q \in Procs
      PROVE  TextsFit(session'[q].objects, View(q)'.contacts)
    <2>1. CASE q = p
        BY <2>1 DEF View
    <2>2. CASE q # p
        <3>1. session'[q] = session[q] /\ lock # q /\ lock' # q
            BY <2>2, ContactSessionsAssumption DEF IInv, CanWrite
        <3> QED BY <3>1 DEF TextInv, View
    <2> QED BY <2>1, <2>2
<1> QED BY <1>1, <1>2 DEF TextInv

LEMMA TextEndStep ==
    ASSUME IInv, TextInv, NEW p \in Procs, Commit(p) \/ RollBack(p)
    PROVE  TextInv'
<1>1. /\ session' = [session EXCEPT ![p] = NoSession]
      /\ session'[p] = NoSession /\ \A q \in Procs : q # p => session'[q] = session[q]
      /\ \A q \in Procs : q # NoProc
    BY ContactSessionsAssumption DEF Commit, RollBack, IInv
<1>2. \A c : TextsFit(NoSession.objects, c)
    BY DEF TextsFit, NoSession
<1>3. CASE RollBack(p)
    <2>1. db' = db /\ txn' \in {txn, db}
        BY <1>3 DEF RollBack
    <2>2. Named(db'.contacts) /\ Named(txn'.contacts) /\ TextsGoOn(db'.contacts, txn'.contacts)
        BY <2>1 DEF TextInv, TextsGoOn, SameText
    <2>3. ASSUME NEW q \in Procs, q # p
          PROVE  View(q)' = View(q)
        BY <1>1, <1>3, <2>3 DEF RollBack, View
    <2> QED BY <1>1, <1>2, <2>2, <2>3 DEF TextInv
<1>4. CASE Commit(p)
    <2>1. db' = txn /\ txn' = txn /\ lock' = NoProc /\ lock = p
        BY <1>4, ViewFits DEF Commit, At, Stands
    <2>2. Named(db'.contacts) /\ Named(txn'.contacts) /\ TextsGoOn(db'.contacts, txn'.contacts)
        BY <2>1 DEF TextInv, TextsGoOn, SameText
    <2>3. ASSUME NEW q \in Procs, q # p
          PROVE  TextsFit(session[q].objects, txn.contacts)
        <3>1. TextsFit(session[q].objects, db.contacts) /\ TextsGoOn(db.contacts, txn.contacts)
            BY <2>1, <2>3 DEF TextInv, View
        <3>2. ObjectsFit(session[q].objects, db)
            BY <2>1, <2>3, ViewFits DEF SessionFits
        <3>3. ASSUME NEW i \in DOMAIN session[q].objects
              PROVE  /\ i \in DOMAIN db.contacts
                     /\ txn.contacts[i].number = db.contacts[i].number
            BY <3>2 DEF ObjectsFit, ObjectFits, IInv, GoesOn
        <3> QED BY <3>1, <3>3 DEF TextsFit, TextsGoOn, SameText
    <2>4. ASSUME NEW q \in Procs
          PROVE  View(q)' = txn
        BY <1>1, <2>1 DEF View
    <2> QED BY <1>1, <1>2, <2>2, <2>3, <2>4 DEF TextInv
<1> QED BY <1>3, <1>4

(* What a flush leaves of the texts *)
LEMMA SavedTexts ==
    ASSUME IInv, TextInv, NEW p \in Procs
    PROVE  /\ DOMAIN Saved(p).contacts = DOMAIN View(p).contacts
           /\ Named(Saved(p).contacts) /\ TextsGoOn(View(p).contacts, Saved(p).contacts)
           /\ TextsFit(Clean(session[p].objects), Saved(p).contacts)
<1> DEFINE c == View(p).contacts
           d == Saved(p).contacts
           o == session[p].objects
<1>1. /\ View(p) \in Tables /\ c \in Seq(ContactRow) /\ o \in Objects /\ ObjectsFit(o, View(p))
    BY ViewFits DEF TablesFit, Tables, SessionFits, Sessions
<1>2. Named(c) /\ TextsFit(o, c)
    BY DEF TextInv, View
<1>3. d = [i \in DOMAIN c |-> IF i \in DOMAIN o THEN Written(c[i], o[i]) ELSE c[i]]
    BY <1>1 DEF Saved, Flushed, Tables
<1>4. ASSUME NEW i \in DOMAIN c
      PROVE  /\ d[i].number = c[i].number /\ d[i].fingerprint = c[i].fingerprint
             /\ c[i].number = None => SameText(d[i], c[i])
    <2>1. CASE i \in DOMAIN o
        <3>1. /\ o[i].loaded.number = c[i].number /\ o[i].edited.number = c[i].number
              /\ c[i] \in ContactRow
            BY <1>1, <2>1 DEF ObjectsFit, ObjectFits
        <3>2. d[i] = Written(c[i], o[i])
            BY <1>3, <2>1
        <3>3. c[i].number = None => SameText(o[i].loaded, c[i]) /\ SameText(o[i].edited, c[i])
            BY <1>2, <2>1 DEF TextsFit
        <3> HIDE DEF c, d, o
        <3> QED BY <3>1, <3>2, <3>3 DEF Written, Net, SameText, ContactRow
    <2>2. CASE i \notin DOMAIN o
        BY <1>3, <2>2 DEF SameText
    <2> QED BY <2>1, <2>2
<1>5. DOMAIN d = DOMAIN c
    BY <1>3
<1>6. ASSUME NEW i \in DOMAIN o
      PROVE  /\ i \in DOMAIN c
             /\ Clean(o)[i].loaded = o[i].edited /\ Clean(o)[i].edited = o[i].edited
    <2>1. i \in DOMAIN c
        BY <1>1 DEF ObjectsFit, ObjectFits
    <2>2. Clean(o)[i] = Loaded(o[i].edited)
        BY <1>1, CleanObjects
    <2> QED BY <2>1, <2>2 DEF Loaded
<1> HIDE DEF c, d, o
<1>7. Named(d)
    <2>1. ASSUME NEW i \in DOMAIN d, d[i].number = None
          PROVE  NameFits(d[i])
        <3>1. /\ i \in DOMAIN c /\ c[i].number = None
              /\ d[i].fingerprint = c[i].fingerprint /\ d[i].name = c[i].name
              /\ d[i].phone = c[i].phone
            BY <1>4, <1>5, <2>1 DEF SameText
        <3>2. NameFits(c[i])
            BY <1>2, <3>1 DEF Named
        <3>3. PICK name \in Seq(STRING) :
                /\ c[i].fingerprint = [kind |-> "invalid", key |-> c[i].phone \o <<"|">> \o name]
                /\ c[i].name = IF name = <<>> THEN NoName ELSE name
            BY <3>2 DEF NameFits
        <3> QED BY <3>1, <3>3 DEF NameFits
    <2> QED BY <2>1 DEF Named
<1>8. TextsGoOn(c, d)
    BY <1>4 DEF TextsGoOn
<1>9. TextsFit(Clean(o), d)
    <2>1. DOMAIN Clean(o) = DOMAIN o
        BY <1>1, CleanObjects
    <2> QED BY <1>2, <1>4, <1>6, <2>1 DEF TextsFit, SameText
<1> QED BY <1>5, <1>7, <1>8, <1>9 DEF c, d, o

(* A contact's object is changed, its text where it has a number only. *)
LEMMA ObjectText ==
    ASSUME IInv, TextInv, NEW p \in Procs, NEW i, View(p).contacts[i].number = None
    PROVE  /\ SameText(Object(p, i).loaded, View(p).contacts[i])
           /\ SameText(Object(p, i).edited, View(p).contacts[i])
BY DEF TextInv, TextsFit, Object, Loaded, SameText

LEMMA EditedTexts ==
    ASSUME IInv, TextInv, NEW p \in Procs, NEW i \in DOMAIN View(p).contacts, NEW e \in ContactRow,
           View(p).contacts[i].number = None => SameText(e, View(p).contacts[i])
    PROVE  TextsFit(WithObject(p, i, e), View(p).contacts)
<1> DEFINE old == session[p].objects
           new == [Object(p, i) EXCEPT !.edited = e]
<1>1. new.loaded = Object(p, i).loaded /\ new.edited = e
    BY ObjectOf DEF ContactObject
<1>2. TextsFit(old, View(p).contacts)
    BY DEF TextInv
<1>3. WithObject(p, i, e) = [k \in DOMAIN old \cup {i} |-> IF k = i THEN new ELSE old[k]]
    BY DEF WithObject
<1> HIDE DEF old, new
<1> QED BY <1>1, <1>2, <1>3, ObjectText DEF TextsFit

-----------------------------------------------------------------------------
(* The steps that touch a text *)

LEMMA UpdateTexts ==
    ASSUME PlainPhones, IInv, TextInv, NEW p \in Procs, UpdateExisting(p)
    PROVE  TextInv'
<1> DEFINE row == Row(p)
           c == View(p).contacts
<1>1. PICK i \in Existing(c, row) :
        session' = [session EXCEPT
            ![p].row = @ + 1,
            ![p].seen = @ \cup {FingerprintOf(row)},
            ![p].tally = CountedUpdate(Counted(@, row)),
            ![p].objects = WithObject(p, i, Updated(Object(p, i).edited, row))]
    BY DEF UpdateExisting
<1> DEFINE e == Updated(Object(p, i).edited, row)
<1>2. /\ row \in FileRows /\ TablesFit(View(p)) /\ Named(c) /\ session[p] \in Sessions
    BY RowOf, ViewFits DEF UpdateExisting, TextInv, View
<1>3. i \in DOMAIN c
    BY <1>2, ExistingFits
<1>4. Object(p, i).edited \in ContactRow
    BY <1>3, ObjectOf DEF ContactObject
<1>5. e \in ContactRow
    BY <1>2, <1>4, UpdatedFits
<1>6. c[i].number = None => SameText(e, c[i])
    <2> SUFFICES ASSUME c[i].number = None PROVE SameText(e, c[i])
        OBVIOUS
    <2>1. SameText(Object(p, i).edited, c[i])
        BY ObjectText
    <2> HIDE DEF row
    <2>2. PICK object : object = Object(p, i).edited
        OBVIOUS
    <2> QED BY <1>2, <1>4, <2>1, <2>2, TakenFor
<1> HIDE DEF e, row
<1>7. TextsFit(WithObject(p, i, e), c)
    BY <1>3, <1>5, <1>6, EditedTexts
<1>8. /\ session' = [session EXCEPT ![p] = session'[p]]
      /\ session'[p].objects = WithObject(p, i, e)
    BY <1>1, <1>2 DEF IInv, Sessions, e
<1>9. db' = db /\ txn' = txn /\ lock' = lock
    BY DEF UpdateExisting
<1> QED BY <1>7, <1>8, <1>9, TextReadStep

LEMMA InsertTexts ==
    ASSUME IInv, TextInv, NEW p \in Procs, Insert(p)
    PROVE  TextInv'
<1> DEFINE row == Row(p)
           new == NewRow(row)
           c == View(p).contacts
           d == Saved(p).contacts
           n == Len(d) + 1
           objects == Clean(session[p].objects)
<1>1. /\ TablesFit(Saved(p)) /\ row \in FileRows
    BY ImportSaves, RowOf DEF Insert, At, Importing
<1>2. d \in Seq(ContactRow) /\ new \in ContactRow
    BY <1>1, NewRowFits DEF TablesFit, Tables
<1>3. /\ session' = [session EXCEPT ![p] = session'[p]]
      /\ session'[p].objects = objects
      /\ db' = db /\ lock' = p /\ CanWrite(p)
    BY ViewFits DEF Insert, IInv, Sessions
<1>4. txn'.contacts = Append(d, new)
    BY <1>1 DEF Insert, TablesFit, Tables
<1>5. new.number = None => NameFits(new)
    <2> SUFFICES ASSUME new.number = None PROVE NameFits(new)
        OBVIOUS
    <2>1. normalize_phone(row.phone) = None /\ row.name \in Seq(STRING)
        BY <1>1, NewRowFits, RowType DEF FileRow
    <2>2. /\ new.fingerprint = [kind |-> "invalid", key |-> new.phone \o <<"|">> \o row.name]
          /\ new.name = IF row.name = <<>> THEN NoName ELSE row.name
        BY <2>1 DEF NewRow, FingerprintOf, fingerprint_for
    <2> HIDE DEF new
    <2> QED BY <2>1, <2>2 DEF NameFits
<1>6. /\ DOMAIN d = DOMAIN c /\ Named(d) /\ TextsGoOn(c, d) /\ TextsFit(objects, d)
    BY SavedTexts
<1>7. DOMAIN objects \subseteq DOMAIN d
    <2>1. session[p].objects \in Objects /\ ObjectsFit(session[p].objects, View(p))
        BY ViewFits DEF SessionFits, Sessions
    <2> QED BY <1>6, <2>1, CleanObjects DEF ObjectsFit, ObjectFits
<1> HIDE DEF new, c, d, objects
<1>8. /\ DOMAIN txn'.contacts = DOMAIN d \cup {n} /\ txn'.contacts[n] = new
      /\ \A i \in DOMAIN d : txn'.contacts[i] = d[i]
    BY <1>2, <1>4
<1>9. Named(txn'.contacts)
    BY <1>5, <1>6, <1>8 DEF Named
<1>10. TextsGoOn(c, txn'.contacts) /\ TextsFit(objects, txn'.contacts)
    BY <1>6, <1>7, <1>8 DEF TextsGoOn, TextsFit
<1> QED BY <1>3, <1>9, <1>10, TextWriteStep DEF c

(* The other flushes *)
LEMMA FlushTexts ==
    ASSUME IInv, TextInv, NEW p \in Procs, CanWrite(p), db' = db, lock' = p,
           txn'.contacts = Saved(p).contacts,
           session' = [session EXCEPT ![p] = session'[p]],
           session'[p].objects = Clean(session[p].objects)
    PROVE  TextInv'
BY SavedTexts, TextWriteStep

LEMMA WriteTexts ==
    ASSUME IInv, TextInv, NEW p \in Procs,
           FinishImport(p) \/ Settle(p) \/ AddFollowUp(p) \/ StoreOffset(p)
    PROVE  TextInv'
<1>1. /\ CanWrite(p) /\ db' = db /\ lock' = p /\ session[p] \in Sessions
      /\ session \in [Procs -> Sessions]
    BY ViewFits DEF FinishImport, Settle, AddFollowUp, StoreOffset, BotWrites, IInv
<1>2. /\ session' = [session EXCEPT ![p] = session'[p]]
      /\ session'[p].objects = Clean(session[p].objects)
    BY <1>1 DEF FinishImport, Settle, AddFollowUp, StoreOffset, BotWrites, Sessions
<1>3. txn'.contacts = Saved(p).contacts
    <2>1. Saved(p) = [Saved(p) EXCEPT !.contacts = Saved(p).contacts]
        BY ViewFits DEF Saved, Flushed, TablesFit, Tables
    <2>2. CASE FinishImport(p)
        BY <2>2, ViewFits DEF FinishImport, Saved, Flushed, TablesFit, Tables
    <2>3. CASE Settle(p)
        BY <2>3 DEF Settle
    <2>4. CASE AddFollowUp(p) \/ StoreOffset(p)
        BY <2>4, ViewFits DEF AddFollowUp, StoreOffset, BotWrites, Saved, Flushed, TablesFit, Tables
    <2> QED BY <2>2, <2>3, <2>4
<1> QED BY <1>1, <1>2, <1>3, FlushTexts

(* A handler changes a contact, but not its text. *)
LEMMA ChangedTexts ==
    ASSUME IInv, TextInv, NEW p \in Procs, NEW i \in DOMAIN View(p).contacts,
           NEW left \in Contact
    PROVE  TextsFit(Changed(p, i, left), View(p).contacts)
<1> DEFINE r == Object(p, i).edited
           e == [r EXCEPT !.contact = left]
<1>1. r \in ContactRow
    BY ObjectOf DEF ContactObject
<1>2. e \in ContactRow /\ SameText(e, r)
    BY <1>1 DEF ContactRow, SameText
<1>3. View(p).contacts[i].number = None => SameText(e, View(p).contacts[i])
    BY <1>2, ObjectText DEF SameText
<1>4. Changed(p, i, left) = WithObject(p, i, e)
    BY DEF Changed
<1> HIDE DEF e
<1> QED BY <1>2, <1>3, <1>4, EditedTexts

LEMMA LoadTexts ==
    ASSUME IInv, TextInv, NEW p \in Procs, Handle(p) \/ Meet(p) \/ Serve(p)
    PROVE  TextInv'
<1>1. /\ db' = db /\ txn' = txn /\ lock' = lock
      /\ session \in [Procs -> Sessions] /\ session[p] \in Sessions
    BY ViewFits DEF Handle, Meet, Serve, IInv
<1>2. ASSUME NEW i \in DOMAIN View(p).contacts
      PROVE  Object(p, i).edited \in ContactRow /\ Object(p, i).edited.contact \in Contact
    BY ObjectOf DEF ContactObject, ContactRow
<1>3. CASE Handle(p)
    <2>1. PICK i \in DOMAIN View(p).contacts : \E left \in Handled(Object(p, i).edited.contact) :
            session' = [session EXCEPT ![p].at = "settling", ![p].objects = Changed(p, i, left)]
        BY <1>3 DEF Handle
    <2>2. PICK left \in Handled(Object(p, i).edited.contact) :
            session' = [session EXCEPT ![p].at = "settling", ![p].objects = Changed(p, i, left)]
        BY <2>1
    <2>3. left \in Contact
        BY <1>2, <2>2, HandledKeeps DEF Leaves
    <2>4. /\ session' = [session EXCEPT ![p] = session'[p]]
          /\ session'[p].objects = Changed(p, i, left)
        BY <1>1, <2>2 DEF Sessions
    <2> QED BY <1>1, <2>3, <2>4, ChangedTexts, TextReadStep
<1>4. CASE Meet(p)
    <2>1. PICK i \in DOMAIN View(p).contacts :
            session' = [session EXCEPT ![p].at = "serving", ![p].contact = i,
                                       ![p].objects = WithObject(p, i, Object(p, i).edited)]
        BY <1>4 DEF Meet
    <2>2. /\ session' = [session EXCEPT ![p] = session'[p]]
          /\ session'[p].objects = WithObject(p, i, Object(p, i).edited)
        BY <1>1, <2>1 DEF Sessions
    <2>3. TextsFit(WithObject(p, i, Object(p, i).edited), View(p).contacts)
        BY <1>2, ObjectText, EditedTexts
    <2> QED BY <1>1, <2>2, <2>3, TextReadStep
<1>5. CASE Serve(p)
    <2>1. PICK i : i = session[p].contact
        OBVIOUS
    <2>2. i \in DOMAIN View(p).contacts
        BY <1>5, <2>1, ViewFits DEF Serve, At, SessionFits, ObjectsFit, ObjectFits
    <2>3. PICK left \in Served(Object(p, i).edited.contact) :
            session' = [session EXCEPT ![p].at = "storing", ![p].objects = Changed(p, i, left)]
        BY <1>5, <2>1 DEF Serve
    <2>4. left \in Contact
        BY <1>2, <2>2, <2>3, ServedKeeps DEF Leaves
    <2>5. /\ session' = [session EXCEPT ![p] = session'[p]]
          /\ session'[p].objects = Changed(p, i, left)
        BY <1>1, <2>3 DEF Sessions
    <2> QED BY <1>1, <2>2, <2>4, <2>5, ChangedTexts, TextReadStep
<1> QED BY <1>3, <1>4, <1>5

(* Nothing is loaded or changed. *)
LEMMA OtherTexts ==
    ASSUME IInv, TextInv, NEW p \in Procs,
           \/ StartImport(p) \/ SkipDuplicate(p) \/ FindNone(p)
           \/ StartReport(p) \/ Query(p) \/ EndReport(p)
    PROVE  TextInv'
<1>1. /\ db' = db /\ txn' = txn /\ lock' = lock
      /\ session \in [Procs -> Sessions] /\ session[p] \in Sessions
      /\ TextsFit(session[p].objects, View(p).contacts)
    BY ViewFits DEF StartImport, SkipDuplicate, FindNone, StartReport, Query, EndReport,
                    IInv, TextInv
<1>2. \A c : TextsFit(<<>>, c)
    BY DEF TextsFit
<1>3. session' = [session EXCEPT ![p] = session'[p]]
    BY <1>1 DEF StartImport, SkipDuplicate, FindNone, StartReport, Query, EndReport, Move
<1>4. session'[p].objects \in {session[p].objects, <<>>}
    <2>0. NoSession.objects = <<>>
        BY DEF NoSession
    <2>1. CASE StartImport(p)
        <3>1. PICK file : session' = [session EXCEPT ![p] =
                [NoSession EXCEPT !.at = "reading", !.file = file,
                                  !.tally.total = Len(file), !.after = Len(db.batches)]]
            BY <2>1 DEF StartImport
        <3>2. session'[p].objects = NoSession.objects
            BY <1>1, <3>1 DEF NoSession
        <3> QED BY <2>0, <3>2
    <2>6. CASE EndReport(p)
        BY <1>1, <2>0, <2>6 DEF EndReport
    <2>2. CASE SkipDuplicate(p)
        BY <1>1, <2>2 DEF SkipDuplicate, Sessions
    <2>3. CASE FindNone(p)
        BY <1>1, <2>3 DEF FindNone, Sessions
    <2>4. CASE StartReport(p)
        BY <1>1, <2>4 DEF StartReport, Move, Sessions
    <2>5. CASE Query(p)
        BY <1>1, <2>5 DEF Query, Sessions
    <2> QED BY <2>1, <2>2, <2>3, <2>4, <2>5, <2>6
<1> QED BY <1>1, <1>2, <1>3, <1>4, TextReadStep

LEMMA ClaimTexts ==
    ASSUME IInv, TextInv, NEW p \in Procs, Claim(p)
    PROVE  TextInv'
<1>1. /\ CanWrite(p) /\ db' = db /\ txn' = db /\ lock' = p /\ View(p) = db
      /\ session' = [session EXCEPT ![p] = session'[p]]
      /\ session'[p].objects = session[p].objects
    BY ViewFits DEF Claim, At, Stands, Move, IInv, Sessions
<1>2. /\ Named(db.contacts) /\ TextsGoOn(db.contacts, db.contacts)
      /\ TextsFit(session[p].objects, db.contacts)
    BY <1>1 DEF TextInv, TextsGoOn, SameText
<1> QED BY <1>1, <1>2, TextWriteStep

-----------------------------------------------------------------------------
(* The third inductive invariant *)

LEMMA TextInit == Init => TextInv
BY DEF Init, TextInv, NoTables, NoSession, View, Named, TextsGoOn, TextsFit

LEMMA TextNext == PlainPhones /\ IInv /\ TextInv /\ [Next]_vars => TextInv'
<1> SUFFICES ASSUME PlainPhones, IInv, TextInv, [Next]_vars PROVE TextInv'
    OBVIOUS
<1>1. CASE UNCHANGED vars
    BY <1>1 DEF vars, TextInv, View
<1>2. ASSUME NEW p \in Procs, Import(p) PROVE TextInv'
    BY <1>2, OtherTexts, UpdateTexts, InsertTexts, WriteTexts, TextEndStep DEF Import, Refused
<1>3. ASSUME NEW p \in Procs, Change(p) PROVE TextInv'
    BY <1>3, ClaimTexts, LoadTexts, WriteTexts DEF Change
<1>4. ASSUME NEW p \in Procs, Report(p) PROVE TextInv'
    BY <1>4, OtherTexts DEF Report
<1> QED BY <1>1, <1>2, <1>3, <1>4, TextEndStep DEF Next

(* The fingerprint by which the next import looks for a contact is that of *)
(* its columns, whatever imports, workers and the bot have written to it   *)
(* at the same time; for a contact without a number only where no phone of *)
(* a file contains the sign that parts phone and name in a fingerprint.    *)
THEOREM FingerprintsStay ==
    ASSUME PlainPhones
    PROVE  Spec => []FingerprintsAgree
<1>1. Spec => [](IInv /\ TextInv)
    BY InitFits, NextKeeps, TextInit, TextNext, PTL DEF Spec
<1>2. IInv /\ TextInv => FingerprintsAgree
    <2> SUFFICES ASSUME IInv, TextInv, NEW i \in DOMAIN db.contacts
                 PROVE  LET c == db.contacts[i]
                        IN  c.fingerprint \in {fingerprint_for(name, c.phone, c.number) :
                                name \in {c.name} \cup IF c.name = NoName THEN {<<>>} ELSE {}}
        BY DEF FingerprintsAgree
    <2> DEFINE c == db.contacts[i]
    <2>1. CASE c.number = None
        <3>1. PICK name \in Seq(STRING) :
                /\ c.fingerprint = [kind |-> "invalid", key |-> c.phone \o <<"|">> \o name]
                /\ c.name = IF name = <<>> THEN NoName ELSE name
            BY <2>1 DEF TextInv, Named, NameFits
        <3>2. c.fingerprint = fingerprint_for(name, c.phone, c.number)
            BY <2>1, <3>1 DEF fingerprint_for
        <3>3. name \in {c.name} \cup IF c.name = NoName THEN {<<>>} ELSE {}
            BY <3>1
        <3> QED BY <3>2, <3>3
    <2>2. CASE c.number # None
        <3>1. c.fingerprint = [kind |-> "valid", key |-> c.number]
            BY <2>2 DEF IInv, TablesFit, Numbered
        <3>2. c.fingerprint = fingerprint_for(c.name, c.phone, c.number)
            BY <2>2, <3>1 DEF fingerprint_for
        <3> QED BY <3>2
    <2> QED BY <2>1, <2>2
<1> QED BY <1>1, <1>2, PTL
-----------------------------------------------------------------------------
(* From a sheet to the table *)

(* The number of each row of a committed import's file is a contact's. *)
LEMMA NumberOfRow ==
    ASSUME IInv, NEW b \in DOMAIN db.batches, NEW k \in DOMAIN db.batches[b].file,
           normalize_phone(db.batches[b].file[k].phone) # None
    PROVE  \E i \in DOMAIN db.contacts :
            db.contacts[i].number = normalize_phone(db.batches[b].file[k].phone)
<1>1. PICK row, n : row = db.batches[b].file[k] /\ n = normalize_phone(row.phone)
    OBVIOUS
<1>2. PICK i \in DOMAIN db.contacts : db.contacts[i].fingerprint = FingerprintOf(row)
    BY <1>1 DEF IInv, TablesFit, BatchFits, Has
<1>3. FingerprintOf(row) = [kind |-> "valid", key |-> n]
    BY <1>1 DEF FingerprintOf, fingerprint_for
<1>4. /\ db.contacts[i].number # None =>
            db.contacts[i].fingerprint = [kind |-> "valid", key |-> db.contacts[i].number]
      /\ db.contacts[i].number = None => db.contacts[i].fingerprint.kind = "invalid"
    BY DEF IInv, TablesFit, Numbered
<1>5. db.contacts[i].number # None
    BY <1>2, <1>3, <1>4
<1>6. db.contacts[i].number = n
    BY <1>2, <1>3, <1>4, <1>5
<1> QED BY <1>1, <1>6

(* Once a sheet is imported, each number of its phone column, in whatever  *)
(* spelling and among whatever other rows, is the number of a contact, for *)
(* any sheets and however imports interleave.                              *)
THEOREM NumbersArrive == Spec => []NumbersReachTheTable
<1>1. ASSUME IInv, NEW b \in DOMAIN db.batches, NEW sheet \in Parsed,
             sheet.file = db.batches[b].file, NEW n \in sheet.numbers
      PROVE  n \in {db.contacts[i].number : i \in DOMAIN db.contacts}
    <2>1. PICK s \in Sheets : /\ Readable(s)
                             /\ sheet = [file |-> parse_contacts_file(s), numbers |-> Numbers(s)]
        BY DEF Parsed
    <2>2. s \in Sheet
        BY <2>1, ContactImportsAssumption
    <2>3. n \in Numbers(s) /\ parse_contacts_file(s) = db.batches[b].file
        BY <1>1, <2>1
    <2>4. PICK k \in DOMAIN s.rows, column \in PhoneColumn(s.headers) :
            column \in DOMAIN s.rows[k] /\ n = normalize_phone(s.rows[k][column]) /\ n # None
        <3>1. n # None
            BY <2>3 DEF Numbers
        <3>2. PICK k \in DOMAIN s.rows : n \in NumbersIn(s, s.rows[k])
            BY <2>3 DEF Numbers
        <3>3. PICK column \in PhoneColumn(s.headers) \cap DOMAIN s.rows[k] :
                n = normalize_phone(s.rows[k][column])
            BY <3>2 DEF NumbersIn
        <3> QED BY <3>1, <3>3
    <2>5. /\ column \in Columns(s.headers, "phone")
          /\ \A i \in Columns(s.headers, "phone") : column <= i
        BY <2>4 DEF PhoneColumn
    <2>6. PICK j \in DOMAIN parse_contacts_file(s) :
            normalize_phone(parse_contacts_file(s)[j].phone) = n
        BY <2>1, <2>2, <2>4, <2>5, NumberParsed
    <2>7. PICK i \in DOMAIN db.contacts : db.contacts[i].number = n
        BY <1>1, <2>3, <2>4, <2>6, NumberOfRow
    <2> QED BY <2>7
<1>2. IInv => NumbersReachTheTable
    BY <1>1 DEF NumbersReachTheTable
<1>3. Spec => []IInv
    BY InitFits, NextKeeps, PTL DEF Spec
<1> QED BY <1>2, <1>3, PTL
=============================================================================
