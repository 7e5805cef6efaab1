----------------------- MODULE ContactSessionsProofs -----------------------
(***************************************************************************)
(* What imports, workers and the bot keep of the contacts they share, for  *)
(* any processes, roles, files and limits.                                 *)
(*                                                                         *)
(* The inductive invariant says how far the tables of the lock's holder    *)
(* have gone on from the committed ones (GoesOn), what is true of tables   *)
(* at any time (TablesFit), and how a session's objects and its place in a *)
(* file fit the tables it sees (SessionFits).  A flush is taken apart into *)
(* a row (WrittenRow), the objects of a session (FlushFits), a contact     *)
(* that is added (InsertFits) and a batch (BatchAdded).                     *)
(***************************************************************************)
EXTENDS ContactSessions, FiniteSetTheorems, TLAPS

Fingerprints == {FingerprintOf(row) : row \in FileRows}

Objects == UNION {[S -> ContactObject] : S \in SUBSET Nat}

Sessions == [at : Places, file : Files \cup {<<>>}, row : Nat, seen : SUBSET Fingerprints,
             tally : Tally, after : Nat, contact : Nat, objects : Objects]

(* Tables u are tables t after some flushes: contacts and batches were     *)
(* added, numbers and fingerprints stayed, attempts were made, and nobody  *)
(* but the bot has taken back a success.                                   *)
GoesOn(t, u) ==
    /\ \A i \in DOMAIN t.contacts :
        /\ i \in DOMAIN u.contacts
        /\ u.contacts[i].number = t.contacts[i].number
        /\ u.contacts[i].fingerprint = t.contacts[i].fingerprint
        /\ t.ran[i] <= u.ran[i]
        /\ i \notin u.served =>
            (t.contacts[i].contact.direct = "SUCCESS" => u.contacts[i].contact.direct = "SUCCESS")
    /\ \A b \in DOMAIN t.batches : b \in DOMAIN u.batches /\ u.batches[b] = t.batches[b]
    /\ t.served \subseteq u.served

-----------------------------------------------------------------------------
(* What is true of tables *)

(* A contact with a number has that number's fingerprint. *)
Numbered(contacts) ==
    \A i \in DOMAIN contacts :
        /\ contacts[i].number # None =>
            contacts[i].fingerprint = [kind |-> "valid", key |-> contacts[i].number]
        /\ contacts[i].number = None => contacts[i].fingerprint.kind = "invalid"

Unique(contacts) ==
    \A i, j \in DOMAIN contacts :
        contacts[i].number # None /\ contacts[i].number = contacts[j].number => i = j

Has(contacts, fp) == \E i \in DOMAIN contacts : contacts[i].fingerprint = fp

AttemptsFit(t) ==
    /\ DOMAIN t.ran = DOMAIN t.contacts
    /\ \A i \in DOMAIN t.contacts :
        /\ t.contacts[i].contact.attempts <= t.ran[i]
        /\ i \notin t.served => t.contacts[i].contact.attempts = t.ran[i]

(* A batch fits the batches before it and the contacts. *)
BatchFits(batch, batches, contacts) ==
    /\ \A k \in DOMAIN batch.file : Has(contacts, FingerprintOf(batch.file[k]))
    /\ batch.tally.total = batch.tally.created + batch.tally.duplicate
    /\ batch.tally.valid + batch.tally.invalid = batch.tally.created + batch.tally.updated
    /\ \A a \in 1..batch.after :
        a \in DOMAIN batches /\ (batches[a].file = batch.file => batch.tally.created = 0)

TablesFit(t) ==
    /\ t \in Tables
    /\ Numbered(t.contacts)
    /\ Unique(t.contacts)
    /\ AttemptsFit(t)
    /\ \A b \in DOMAIN t.batches : BatchFits(t.batches[b], t.batches, t.contacts)

-----------------------------------------------------------------------------
(* How a session fits the tables it sees *)

(* An object is of a contact that is there, with its number; it adds to    *)
(* what was loaded, which was no more than what was written.               *)
ObjectFits(o, t, i) ==
    /\ i \in DOMAIN t.contacts
    /\ o.loaded.number = t.contacts[i].number
    /\ o.edited.number = t.contacts[i].number
    /\ o.loaded.contact.attempts <= o.edited.contact.attempts
    /\ o.loaded.contact.attempts <= t.ran[i]

ObjectsFit(objects, t) == \A i \in DOMAIN objects : ObjectFits(objects[i], t, i)

(* An import leaves a contact's statuses and attempts alone. *)
Untouched(o) ==
    /\ o.edited.contact.direct = o.loaded.contact.direct
    /\ o.edited.contact.attempts = o.loaded.contact.attempts

(* A worker has loaded what the table says, and keeps a success. *)
UpToDate(o, row) ==
    /\ o.loaded.contact.attempts = row.contact.attempts
    /\ o.loaded.contact.direct = row.contact.direct
    /\ o.loaded.contact.direct = "SUCCESS" => o.edited.contact.direct = "SUCCESS"

(* The row an import is at is there while it is inserted, ... *)
RowFits(s) == s.row \in 1..(Len(s.file) + 1) /\ (s.at = "inserting" => s.row <= Len(s.file))

(* ... the rows before have been seen, ...                                 *)
SeenFits(s) ==
    /\ \A k \in 1..(s.row - 1) : FingerprintOf(s.file[k]) \in s.seen
    /\ s.at = "inserting" => FingerprintOf(s.file[s.row]) \in s.seen

(* ... what was seen is a contact, ...                                     *)
FoundFits(s, contacts) ==
    \A fp \in s.seen :
        Has(contacts, fp) \/ (s.at = "inserting" /\ fp = FingerprintOf(s.file[s.row]))

(* ... each row has been counted, ...                                      *)
TallyFits(s) ==
    LET t == s.tally
        pending == IF s.at = "inserting" THEN 1 ELSE 0
    IN  /\ t.total = Len(s.file)
        /\ t.created + t.duplicate + 1 = s.row
        /\ t.valid + t.invalid = t.created + t.updated + pending

(* ... and a file that was imported before brings nothing new.             *)
RepeatFits(s, batches) ==
    \A a \in 1..s.after :
        /\ a \in DOMAIN batches
        /\ batches[a].file = s.file => (s.tally.created = 0 /\ s.at # "inserting")

Importing(s) == s.at \in {"reading", "inserting"}

ImportFits(s, t) ==
    /\ s.file \in Files
    /\ \A i \in DOMAIN s.objects : Untouched(s.objects[i])
    /\ SeenFits(s)
    /\ FoundFits(s, t.contacts)
    /\ TallyFits(s)
    /\ RepeatFits(s, t.batches)

SessionFits(s, t) ==
    /\ s \in Sessions
    /\ RowFits(s)
    /\ ObjectsFit(s.objects, t)
    /\ Importing(s) => ImportFits(s, t)
    /\ s.at \in {"idle", "handling"} => DOMAIN s.objects = {}
    /\ s.at = "serving" => s.contact \in DOMAIN s.objects

(* A worker holds the lock from its claim on, and so does whoever is about *)
(* to commit; a report never holds it.                                     *)
Stands(p) ==
    /\ session[p].at \in {"idle", "latest", "total", "valid", "invalid", "printed"} => lock # p
    /\ session[p].at \in {"handling", "settling", "closing"} => lock = p
    /\ session[p].at = "settling" =>
        \A i \in DOMAIN session[p].objects :
            i \in DOMAIN txn.contacts /\ UpToDate(session[p].objects[i], txn.contacts[i])

(* The inductive invariant *)
IInv ==
    /\ TablesFit(db) /\ TablesFit(txn)
    /\ GoesOn(db, txn)
    /\ lock \in Procs \cup {NoProc}
    /\ lock = NoProc => txn = db
    /\ session \in [Procs -> Sessions]
    /\ \A p \in Procs : SessionFits(session[p], View(p)) /\ Stands(p)
    /\ imports \in Nat

-----------------------------------------------------------------------------
(* Handlers *)

(* What is left of a contact r: attempts are added to it. *)
Leaves(r, left) == left \in Contact /\ r.attempts <= left.attempts

(* A success is kept. *)
Keeps(r, left) == r.direct = "SUCCESS" => left.direct = "SUCCESS"

LEMMA Attempted ==
    ASSUME NEW r \in Contact
    PROVE  /\ record_attempt(r) \in Contact /\ record_attempt(r).attempts = r.attempts + 1
           /\ record_attempt(r).known = r.known /\ record_attempt(r).direct = r.direct
<1>1. r.attempts + 1 \in Nat
    BY DEF Contact
<1> QED BY <1>1 DEF record_attempt, Contact

LEMMA SetterKeeps ==
    ASSUME NEW r \in Contact, NEW s
    PROVE  /\ s \in BaleAccountStatus => /\ set_bale_account_status(r, s) \in Contact
                                         /\ set_bale_account_status(r, s).attempts = r.attempts
                                         /\ set_bale_account_status(r, s).direct = r.direct
           /\ s \in DirectInviteStatus => /\ set_direct_invite_status(r, s) \in Contact
                                          /\ set_direct_invite_status(r, s).attempts = r.attempts
                                          /\ Keeps(r, set_direct_invite_status(r, s))
           /\ s \in InviteLinkStatus => /\ set_invite_link_status(r, s) \in Contact
                                        /\ set_invite_link_status(r, s).attempts = r.attempts
                                        /\ set_invite_link_status(r, s).direct = r.direct
           /\ s \in JoinStatus => /\ set_join_status(r, s) \in Contact
                                  /\ set_join_status(r, s).attempts = r.attempts
                                  /\ set_join_status(r, s).direct = r.direct
<1>1. ASSUME s \in BaleAccountStatus
      PROVE  /\ set_bale_account_status(r, s) \in Contact
             /\ set_bale_account_status(r, s).attempts = r.attempts
             /\ set_bale_account_status(r, s).direct = r.direct
    BY <1>1 DEF set_bale_account_status, Contact
<1>2. ASSUME s \in DirectInviteStatus
      PROVE  /\ set_direct_invite_status(r, s) \in Contact
             /\ set_direct_invite_status(r, s).attempts = r.attempts
             /\ Keeps(r, set_direct_invite_status(r, s))
    BY <1>2 DEF set_direct_invite_status, DIRECT_INVITE_TRANSITIONS, Keeps, Contact
<1>3. ASSUME s \in InviteLinkStatus
      PROVE  /\ set_invite_link_status(r, s) \in Contact
             /\ set_invite_link_status(r, s).attempts = r.attempts
             /\ set_invite_link_status(r, s).direct = r.direct
    BY <1>3 DEF set_invite_link_status, Contact
<1>4. ASSUME s \in JoinStatus
      PROVE  /\ set_join_status(r, s) \in Contact
             /\ set_join_status(r, s).attempts = r.attempts
             /\ set_join_status(r, s).direct = r.direct
    BY <1>4 DEF set_join_status, Contact
<1> QED BY <1>1, <1>2, <1>3, <1>4

LEMMA CheckKeeps ==
    ASSUME NEW r \in Contact, NEW answer \in {"HAS_ACCOUNT", "NO_ACCOUNT", "error"}
    PROVE  /\ Leaves(r, process_contact(r, answer).contact)
           /\ Keeps(r, process_contact(r, answer).contact)
<1> DEFINE status == IF answer \in Raised THEN "ERROR" ELSE answer
           found  == [record_attempt(r) EXCEPT !.known = @ \/ answer = "HAS_ACCOUNT"]
<1>1. process_contact(r, answer).contact = set_bale_account_status(found, status)
    BY DEF process_contact, Outcome
<1>2. found \in Contact /\ found.attempts = r.attempts + 1 /\ found.direct = r.direct
    <2>1. found = [record_attempt(r) EXCEPT !.known = r.known \/ answer = "HAS_ACCOUNT"]
        BY Attempted
    <2>2. (r.known \/ answer = "HAS_ACCOUNT") \in BOOLEAN
        OBVIOUS
    <2> HIDE DEF found
    <2> QED BY <2>1, <2>2, Attempted DEF Contact
<1>3. status \in BaleAccountStatus
    BY DEF Raised, BaleAccountStatus
<1> HIDE DEF found, status
<1>4. /\ set_bale_account_status(found, status) \in Contact
      /\ set_bale_account_status(found, status).attempts = found.attempts
      /\ set_bale_account_status(found, status).direct = found.direct
    BY <1>2, <1>3, SetterKeeps
<1> QED BY <1>1, <1>2, <1>4 DEF Leaves, Keeps, Contact

LEMMA InviteKeeps ==
    ASSUME NEW r \in Contact, NEW answer \in {"SUCCESS", "FAILED", "flood"},
           NEW hasGroup \in BOOLEAN
    PROVE  /\ Leaves(r, process_direct_invite(r, answer, hasGroup, "auto").contact)
           /\ Keeps(r, process_direct_invite(r, answer, hasGroup, "auto").contact)
<1> DEFINE asked  == r.known /\ hasGroup
           status == CASE ~asked                         -> "SKIPPED"
                       [] asked /\ answer \in Raised     -> "FAILED"
                       [] asked /\ answer \notin Raised  -> answer
           moved  == set_direct_invite_status(record_attempt(r), status)
<1>1. process_direct_invite(r, answer, hasGroup, "auto").contact = moved
    BY DEF process_direct_invite, Outcome
<1>2. status \in DirectInviteStatus
    BY DEF Raised, DirectInviteStatus
<1> HIDE DEF status
<1>3. moved \in Contact /\ moved.attempts = r.attempts + 1 /\ Keeps(record_attempt(r), moved)
    BY <1>2, Attempted, SetterKeeps
<1> HIDE DEF moved
<1>4. Leaves(r, moved)
    BY <1>3 DEF Leaves, Contact
<1>5. Keeps(r, moved)
    BY <1>3, Attempted DEF Keeps
<1> QED BY <1>1, <1>4, <1>5

LEMMA LinkKeeps ==
    ASSUME NEW r \in Contact, NEW answer \in {"SENT", "FAILED"}
    PROVE  /\ Leaves(r, process_invite_link(r, answer).contact)
           /\ Keeps(r, process_invite_link(r, answer).contact)
<1> DEFINE status == IF ~r.known \/ answer \in Raised THEN "FAILED" ELSE answer
           moved  == set_invite_link_status(record_attempt(r), status)
<1>1. process_invite_link(r, answer).contact = moved
    BY DEF process_invite_link, Outcome
<1>2. status \in InviteLinkStatus
    BY DEF Raised, InviteLinkStatus
<1> HIDE DEF status
<1>3. moved \in Contact /\ moved.attempts = r.attempts + 1 /\ moved.direct = r.direct
    BY <1>2, Attempted, SetterKeeps
<1> HIDE DEF moved
<1> QED BY <1>1, <1>3 DEF Leaves, Keeps, Contact

LEMMA JoinKeeps ==
    ASSUME NEW r \in Contact, NEW answer \in JoinStatus
    PROVE  /\ Leaves(r, process_join_check(r, answer).contact)
           /\ Keeps(r, process_join_check(r, answer).contact)
<1> DEFINE moved == set_join_status(record_attempt(r), answer)
<1>1. process_join_check(r, answer).contact = moved
    BY DEF process_join_check, Outcome, Raised, JoinStatus
<1>2. moved \in Contact /\ moved.attempts = r.attempts + 1 /\ moved.direct = r.direct
    BY Attempted, SetterKeeps DEF JoinStatus
<1> HIDE DEF moved
<1> QED BY <1>1, <1>2 DEF Leaves, Keeps, Contact

LEMMA HandledKeeps ==
    ASSUME NEW r \in Contact, NEW left \in Handled(r)
    PROVE  Leaves(r, left) /\ Keeps(r, left)
BY CheckKeeps, InviteKeeps, LinkKeeps, JoinKeeps DEF Handled

(* The bot matches, invites, and sends the link to whoever is left.        *)
LEMMA ServedKeeps ==
    ASSUME NEW r \in Contact, NEW left \in Served(r)
    PROVE  Leaves(r, left)
<1>1. ASSUME NEW q \in Contact, NEW s \in Invited(q)
      PROVE  Leaves(q, s)
    BY InviteKeeps, ContactSessionsAssumption DEF Invited
<1>2. shared_contact(r) \in Contact /\ shared_contact(r).attempts = r.attempts + 1
    <2> DEFINE known == [r EXCEPT !.known = TRUE]
    <2>1. known \in Contact /\ known.attempts = r.attempts
        BY DEF Contact
    <2> HIDE DEF known
    <2>2. /\ set_bale_account_status(known, "HAS_ACCOUNT") \in Contact
          /\ set_bale_account_status(known, "HAS_ACCOUNT").attempts = r.attempts
        BY <2>1, SetterKeeps DEF BaleAccountStatus
    <2>3. shared_contact(r) = record_attempt(set_bale_account_status(known, "HAS_ACCOUNT"))
        BY DEF shared_contact, known
    <2> QED BY <2>2, <2>3, Attempted
<1>3. ASSUME NEW s \in Invited(shared_contact(r))
      PROVE  Leaves(r, s)
    BY <1>1, <1>2, <1>3 DEF Leaves, Contact
<1>4. ASSUME NEW s \in Invited(shared_contact(r)), NEW answer \in {"SENT", "FAILED"}
      PROVE  Leaves(r, process_invite_link(s, answer).contact)
    BY <1>3, <1>4, LinkKeeps DEF Leaves, Contact
<1> QED BY <1>1, <1>3, <1>4 DEF Served

-----------------------------------------------------------------------------
(* A flush *)

LEMMA NetContactFits ==
    ASSUME NEW current \in Contact, NEW loaded \in Contact, NEW edited \in Contact
    PROVE  LET net == NetContact(current, loaded, edited)
           IN  /\ net \in Contact
               /\ net.attempts = Net(current.attempts, loaded.attempts, edited.attempts)
               /\ net.direct = Net(current.direct, loaded.direct, edited.direct)
BY DEF NetContact, Net, Contact

(* A row that an object is written to, n attempts having been made. *)
LEMMA WrittenRow ==
    ASSUME NEW c \in ContactRow, NEW o \in ContactObject, NEW n \in Nat,
           o.loaded.number = c.number, o.edited.number = c.number,
           o.loaded.contact.attempts <= o.edited.contact.attempts,
           o.loaded.contact.attempts <= n, c.contact.attempts <= n
    PROVE  LET w == Written(c, o)
               m == n + o.edited.contact.attempts - o.loaded.contact.attempts
           IN  /\ w \in ContactRow
               /\ w.number = c.number /\ w.fingerprint = c.fingerprint
               /\ m \in Nat /\ n <= m /\ w.contact.attempts <= m
               /\ o.edited.contact.attempts <= m
               /\ Untouched(o) \/ UpToDate(o, c) =>
                    /\ c.contact.attempts = n => w.contact.attempts = m
                    /\ c.contact.direct = "SUCCESS" => w.contact.direct = "SUCCESS"
<1> DEFINE net == NetContact(c.contact, o.loaded.contact, o.edited.contact)
<1>1. /\ o.loaded \in ContactRow /\ o.edited \in ContactRow
      /\ c.contact \in Contact /\ o.loaded.contact \in Contact /\ o.edited.contact \in Contact
    BY DEF ContactObject, ContactRow
<1>2. /\ net \in Contact
      /\ net.attempts = Net(c.contact.attempts, o.loaded.contact.attempts, o.edited.contact.attempts)
      /\ net.direct = Net(c.contact.direct, o.loaded.contact.direct, o.edited.contact.direct)
    BY <1>1, NetContactFits
<1>3. /\ c.contact.attempts \in Nat /\ o.loaded.contact.attempts \in Nat
      /\ o.edited.contact.attempts \in Nat
    BY <1>1 DEF Contact
<1> HIDE DEF net
<1>4. /\ Written(c, o).contact = net
      /\ Written(c, o).number = c.number /\ Written(c, o).fingerprint = c.fingerprint
    BY DEF Written, net, Net, ContactRow
<1>5. Written(c, o) \in ContactRow
    BY <1>1, <1>2 DEF Written, net, Net, ContactRow
<1>6. Untouched(o) \/ UpToDate(o, c) =>
        (c.contact.direct = "SUCCESS" => net.direct = "SUCCESS")
    BY <1>2 DEF Untouched, UpToDate, Net
<1>7. Untouched(o) \/ UpToDate(o, c) =>
        (c.contact.attempts = n =>
            net.attempts = n + o.edited.contact.attempts - o.loaded.contact.attempts)
    BY <1>2, <1>3 DEF Untouched, UpToDate, Net
<1>8. net.attempts <= n + o.edited.contact.attempts - o.loaded.contact.attempts
    BY <1>2, <1>3 DEF Net
<1> QED BY <1>3, <1>4, <1>5, <1>6, <1>7, <1>8

LEMMA ObjectsType ==
    ASSUME NEW o \in Objects
    PROVE  /\ DOMAIN o \subseteq Nat
           /\ \A i \in DOMAIN o : o[i] \in ContactObject
BY DEF Objects

LEMMA IsObjects ==
    ASSUME NEW S \in SUBSET Nat, NEW o \in [S -> ContactObject]
    PROVE  o \in Objects
BY DEF Objects

LEMMA CleanObjects ==
    ASSUME NEW o \in Objects
    PROVE  /\ Clean(o) \in Objects /\ DOMAIN Clean(o) = DOMAIN o
           /\ \A i \in DOMAIN o : Clean(o)[i] = Loaded(o[i].edited)
<1>1. \A i \in DOMAIN o : Loaded(o[i].edited) \in ContactObject
    BY ObjectsType DEF Loaded, ContactObject
<1>2. Clean(o) \in [DOMAIN o -> ContactObject]
    BY <1>1 DEF Clean
<1> QED BY <1>2, IsObjects, ObjectsType DEF Clean

(* The tables after a flush that leaves S as the contacts the bot wrote *)
FlushedAs(t, o, S) == [Flushed(t, o) EXCEPT !.served = S]

(* A session's objects are written: all that is true of tables stays true, *)
(* and the objects, clean again, fit the tables they were written to.      *)
LEMMA FlushFits ==
    ASSUME NEW t, TablesFit(t), NEW o \in Objects, ObjectsFit(o, t),
           NEW S \in SUBSET Nat, t.served \subseteq S,
           \A i \in DOMAIN o : i \in S \/ Untouched(o[i]) \/ UpToDate(o[i], t.contacts[i]),
           NEW u, u = FlushedAs(t, o, S)
    PROVE  /\ TablesFit(u) /\ GoesOn(t, u)
           /\ u.batches = t.batches /\ u.served = S
           /\ Clean(o) \in Objects /\ ObjectsFit(Clean(o), u)
<1>1. /\ t \in Tables /\ Numbered(t.contacts) /\ Unique(t.contacts) /\ AttemptsFit(t)
      /\ t.contacts \in Seq(ContactRow) /\ t.ran \in Seq(Nat)
    BY DEF TablesFit, Tables
<1>2. /\ u = [contacts |-> u.contacts, batches |-> t.batches, ran |-> u.ran, served |-> S]
      /\ u.contacts = [i \in DOMAIN t.contacts |->
            IF i \in DOMAIN o THEN Written(t.contacts[i], o[i]) ELSE t.contacts[i]]
      /\ u.ran = [i \in DOMAIN t.ran |->
            IF i \in DOMAIN o
            THEN t.ran[i] + o[i].edited.contact.attempts - o[i].loaded.contact.attempts
            ELSE t.ran[i]]
    BY <1>1 DEF FlushedAs, Flushed, Tables
<1>3. u.batches = t.batches /\ u.served = S
    BY <1>2
<1>4. DOMAIN t.ran = DOMAIN t.contacts
    BY <1>1 DEF AttemptsFit
<1>5. ASSUME NEW i \in DOMAIN t.contacts
      PROVE  /\ u.contacts[i] \in ContactRow
             /\ u.contacts[i].number = t.contacts[i].number
             /\ u.contacts[i].fingerprint = t.contacts[i].fingerprint
             /\ u.ran[i] \in Nat /\ t.ran[i] <= u.ran[i]
             /\ u.contacts[i].contact.attempts <= u.ran[i]
             /\ i \in DOMAIN o => o[i].edited.contact.attempts <= u.ran[i]
             /\ i \notin S =>
                 /\ u.contacts[i].contact.attempts = u.ran[i]
                 /\ t.contacts[i].contact.direct = "SUCCESS" => u.contacts[i].contact.direct = "SUCCESS"
    <2>1. /\ t.contacts[i] \in ContactRow /\ t.ran[i] \in Nat
          /\ t.contacts[i].contact.attempts <= t.ran[i]
          /\ i \notin S => t.contacts[i].contact.attempts = t.ran[i]
        BY <1>1, <1>4 DEF AttemptsFit
    <2>2. CASE i \notin DOMAIN o
        BY <1>2, <1>4, <2>1, <2>2
    <2>3. CASE i \in DOMAIN o
        <3>1. o[i] \in ContactObject /\ ObjectFits(o[i], t, i)
            BY <2>3, ObjectsType DEF ObjectsFit
        <3>2. /\ u.contacts[i] = Written(t.contacts[i], o[i])
              /\ u.ran[i] = t.ran[i] + o[i].edited.contact.attempts - o[i].loaded.contact.attempts
            BY <1>2, <1>4, <2>3
        <3>3. i \notin S => Untouched(o[i]) \/ UpToDate(o[i], t.contacts[i])
            BY <2>3
        <3>4. /\ o[i].loaded.number = t.contacts[i].number
              /\ o[i].edited.number = t.contacts[i].number
              /\ o[i].loaded.contact.attempts <= o[i].edited.contact.attempts
              /\ o[i].loaded.contact.attempts <= t.ran[i]
            BY <3>1 DEF ObjectFits
        <3> QED BY <2>1, <3>1, <3>2, <3>3, <3>4, WrittenRow
    <2> QED BY <2>2, <2>3
<1>6. u.contacts \in Seq(ContactRow) /\ DOMAIN u.contacts = DOMAIN t.contacts
    <2>1. DOMAIN t.contacts = 1..Len(t.contacts) /\ Len(t.contacts) \in Nat
        BY <1>1
    <2>2. u.contacts \in [1..Len(t.contacts) -> ContactRow]
        BY <1>2, <1>5, <2>1
    <2> QED BY <2>1, <2>2
<1>7. u.ran \in Seq(Nat) /\ DOMAIN u.ran = DOMAIN t.contacts
    <2>1. DOMAIN t.contacts = 1..Len(t.contacts) /\ Len(t.contacts) \in Nat
        BY <1>1
    <2>2. u.ran \in [1..Len(t.contacts) -> Nat]
        BY <1>2, <1>4, <1>5, <2>1
    <2> QED BY <2>1, <2>2
<1>8. u \in Tables
    <2>1. [contacts |-> u.contacts, batches |-> t.batches, ran |-> u.ran, served |-> S] \in Tables
        BY <1>1, <1>6, <1>7 DEF Tables
    <2> QED BY <1>2, <2>1
<1>9. Numbered(u.contacts) /\ Unique(u.contacts)
    <2>1. \A i \in DOMAIN t.contacts : /\ u.contacts[i].number = t.contacts[i].number
                                       /\ u.contacts[i].fingerprint = t.contacts[i].fingerprint
        BY <1>5
    <2>2. Numbered(u.contacts)
        BY <1>1, <1>6, <2>1 DEF Numbered
    <2>3. Unique(u.contacts)
        BY <1>1, <1>6, <2>1 DEF Unique
    <2> QED BY <2>2, <2>3
<1>10. AttemptsFit(u)
    BY <1>3, <1>5, <1>6, <1>7 DEF AttemptsFit
<1>11. \A fp : Has(t.contacts, fp) => Has(u.contacts, fp)
    BY <1>5, <1>6 DEF Has
<1>12. \A b \in DOMAIN u.batches : BatchFits(u.batches[b], u.batches, u.contacts)
    BY <1>3, <1>11 DEF TablesFit, BatchFits
<1>13. GoesOn(t, u)
    BY <1>3, <1>5, <1>6 DEF GoesOn
<1>14. ObjectsFit(Clean(o), u)
    <2>1. ASSUME NEW i \in DOMAIN o
          PROVE  ObjectFits(Loaded(o[i].edited), u, i)
        <3>1. ObjectFits(o[i], t, i) /\ o[i] \in ContactObject
            BY ObjectsType DEF ObjectsFit
        <3>2. o[i].edited.contact.attempts \in Nat
            BY <3>1 DEF ContactObject, ContactRow, Contact
        <3> QED BY <1>5, <1>6, <3>1, <3>2 DEF ObjectFits, Loaded
    <2> QED BY <2>1, CleanObjects DEF ObjectsFit
<1> QED BY <1>3, <1>8, <1>9, <1>10, <1>12, <1>13, <1>14, CleanObjects DEF TablesFit

-----------------------------------------------------------------------------
(* What is added *)

LEMMA RowsType ==
    ASSUME NEW file \in Files \cup {<<>>}
    PROVE  /\ file \in Seq(FileRow)
           /\ \A k \in DOMAIN file : file[k] \in FileRows /\ file[k] \in FileRow
<1>1. file \in Seq(FileRow)
    <2>1. CASE file \in Files
        BY <2>1, ContactSessionsAssumption
    <2>2. CASE file = <<>>
        BY <2>2
    <2> QED BY <2>1, <2>2
<1>2. ASSUME NEW k \in DOMAIN file
      PROVE  file \in Files
    BY <1>1, <1>2
<1> QED BY <1>1, <1>2 DEF FileRows

LEMMA RowType ==
    ASSUME NEW row \in FileRows
    PROVE  /\ row \in FileRow
           /\ FingerprintOf(row) \in Fingerprints
           /\ normalize_phone(row.phone) \in {normalize_phone(r.phone) : r \in FileRows}
<1>1. PICK file \in Files : row \in {file[k] : k \in DOMAIN file}
    BY DEF FileRows
<1>2. row \in FileRow
    BY <1>1, RowsType
<1> QED BY <1>2 DEF Fingerprints

LEMMA NewRowFits ==
    ASSUME NEW row \in FileRows
    PROVE  /\ NewRow(row) \in ContactRow
           /\ NewRow(row).fingerprint = FingerprintOf(row)
           /\ NewRow(row).number = normalize_phone(row.phone)
           /\ NewRow(row).contact.attempts = 0
<1>1. row.id \in BOOLEAN
    BY RowType DEF FileRow
<1>2. [NewContact EXCEPT !.known = row.id] \in Contact
    BY <1>1 DEF NewContact, Contact, BaleAccountStatus, DirectInviteStatus, InviteLinkStatus, JoinStatus
<1>3. (IF row.name = <<>> THEN NoName ELSE row.name)
        \in ({r.name : r \in FileRows} \cup {NoName}) \ {<<>>}
    BY ContactTableAssumption
<1>4. FingerprintOf(row) \in {FingerprintOf(r) : r \in FileRows}
    OBVIOUS
<1>5. row.phone \in {r.phone : r \in FileRows}
    OBVIOUS
<1>6. [NewContact EXCEPT !.known = row.id].attempts = 0
    BY DEF NewContact
<1> QED BY <1>2, <1>3, <1>4, <1>5, <1>6, RowType DEF NewRow, ContactRow

LEMMA FingerprintFits ==
    ASSUME NEW row
    PROVE  /\ normalize_phone(row.phone) # None =>
                FingerprintOf(row) = [kind |-> "valid", key |-> normalize_phone(row.phone)]
           /\ normalize_phone(row.phone) = None => FingerprintOf(row).kind = "invalid"
BY DEF FingerprintOf, fingerprint_for

(* A contact is added that no unique index refuses. *)
LEMMA InsertFits ==
    ASSUME NEW t, TablesFit(t), NEW row \in FileRows, ~Conflicts(t.contacts, NewRow(row)),
           NEW u, u = [t EXCEPT !.contacts = Append(@, NewRow(row)), !.ran = Append(@, 0)]
    PROVE  /\ TablesFit(u) /\ GoesOn(t, u)
           /\ Has(u.contacts, FingerprintOf(row))
           /\ u.batches = t.batches
<1> DEFINE new == NewRow(row)
           n   == Len(t.contacts) + 1
<1>1. /\ t \in Tables /\ Numbered(t.contacts) /\ Unique(t.contacts) /\ AttemptsFit(t)
      /\ t.contacts \in Seq(ContactRow) /\ t.ran \in Seq(Nat)
    BY DEF TablesFit, Tables
<1>2. /\ new \in ContactRow /\ new.fingerprint = FingerprintOf(row)
      /\ new.number = normalize_phone(row.phone) /\ new.contact.attempts = 0
    BY NewRowFits
<1>3. /\ new.number # None => new.fingerprint = [kind |-> "valid", key |-> new.number]
      /\ new.number = None => new.fingerprint.kind = "invalid"
    BY <1>2, FingerprintFits
<1>4. \A i \in DOMAIN t.contacts :
        new.number # None => t.contacts[i].number # new.number
    BY DEF Conflicts, IsValid
<1> HIDE DEF new
<1>5. /\ u.contacts = Append(t.contacts, new) /\ u.ran = Append(t.ran, 0)
      /\ u.batches = t.batches /\ u.served = t.served
      /\ u = [contacts |-> u.contacts, batches |-> t.batches, ran |-> u.ran, served |-> t.served]
    BY <1>1 DEF Tables, new
<1>6. /\ Len(t.contacts) \in Nat /\ DOMAIN t.contacts = 1..Len(t.contacts)
      /\ u.contacts \in Seq(ContactRow) /\ DOMAIN u.contacts = 1..n
      /\ u.contacts[n] = new
      /\ \A i \in DOMAIN t.contacts : u.contacts[i] = t.contacts[i]
    BY <1>1, <1>2, <1>5
<1>7. /\ u.ran \in Seq(Nat) /\ DOMAIN u.ran = 1..n
      /\ u.ran[n] = 0
      /\ \A i \in DOMAIN t.contacts : u.ran[i] = t.ran[i]
    <2>1. Len(t.ran) = Len(t.contacts)
        BY <1>1, <1>6 DEF AttemptsFit
    <2> QED BY <1>1, <1>5, <1>6, <2>1
<1>8. u \in Tables
    BY <1>1, <1>5, <1>6, <1>7 DEF Tables
<1>9. n \in DOMAIN u.contacts /\ \A i \in DOMAIN u.contacts : i \in DOMAIN t.contacts \/ i = n
    BY <1>6
<1> HIDE DEF n
<1>10. Numbered(u.contacts)
    BY <1>1, <1>3, <1>6, <1>9 DEF Numbered
<1>11. Unique(u.contacts)
    BY <1>1, <1>4, <1>6, <1>9 DEF Unique
<1>12. AttemptsFit(u)
    <2>1. ASSUME NEW i \in DOMAIN u.contacts
          PROVE  /\ u.contacts[i].contact.attempts <= u.ran[i]
                 /\ i \notin u.served => u.contacts[i].contact.attempts = u.ran[i]
        <3>1. CASE i = n
            BY <1>2, <1>6, <1>7, <3>1
        <3>2. CASE i \in DOMAIN t.contacts
            BY <1>1, <1>5, <1>6, <1>7, <3>2 DEF AttemptsFit
        <3> QED BY <1>9, <3>1, <3>2
    <2> QED BY <1>6, <1>7, <2>1 DEF AttemptsFit
<1>13. Has(u.contacts, FingerprintOf(row))
    BY <1>2, <1>6, <1>9 DEF Has
<1>14. \A i \in DOMAIN t.contacts : i \in DOMAIN u.contacts
    BY <1>6 DEF n
<1>15. \A fp : Has(t.contacts, fp) => Has(u.contacts, fp)
    BY <1>6, <1>14 DEF Has
<1>16. \A b \in DOMAIN u.batches : BatchFits(u.batches[b], u.batches, u.contacts)
    BY <1>5, <1>15 DEF TablesFit, BatchFits
<1>17. GoesOn(t, u)
    <2>1. \A i \in DOMAIN t.contacts : t.ran[i] <= u.ran[i]
        BY <1>1, <1>7 DEF AttemptsFit
    <2> QED BY <1>5, <1>6, <1>14, <2>1 DEF GoesOn
<1> QED BY <1>5, <1>8, <1>10, <1>11, <1>12, <1>13, <1>16, <1>17 DEF TablesFit

Batches == [tally : Tally, file : Files, after : Nat]

(* An import that fits is put on record. *)
LEMMA BatchAdded ==
    ASSUME NEW t, TablesFit(t), NEW batch \in Batches, BatchFits(batch, t.batches, t.contacts),
           NEW u, u = [t EXCEPT !.batches = Append(@, batch)]
    PROVE  /\ TablesFit(u) /\ GoesOn(t, u)
           /\ u.contacts = t.contacts /\ u.ran = t.ran
<1> DEFINE n == Len(t.batches) + 1
<1>1. t \in Tables /\ t.batches \in Seq(Batches) /\ AttemptsFit(t) /\ t.ran \in Seq(Nat)
    BY DEF TablesFit, Tables, Batches
<1>2. /\ u.batches = Append(t.batches, batch)
      /\ u.contacts = t.contacts /\ u.ran = t.ran /\ u.served = t.served
      /\ u = [contacts |-> t.contacts, batches |-> u.batches, ran |-> t.ran, served |-> t.served]
    BY <1>1 DEF Tables
<1>3. /\ u.batches \in Seq(Batches) /\ u.batches[n] = batch
      /\ \A b \in DOMAIN t.batches : b \in DOMAIN u.batches /\ u.batches[b] = t.batches[b]
      /\ \A b \in DOMAIN u.batches : b \in DOMAIN t.batches \/ b = n
    BY <1>1, <1>2
<1>4. u \in Tables
    BY <1>1, <1>2, <1>3 DEF Tables, Batches
<1> HIDE DEF n
<1>5. ASSUME NEW b \in DOMAIN u.batches
      PROVE  BatchFits(u.batches[b], t.batches, t.contacts)
    BY <1>3 DEF TablesFit
<1>6. \A b \in DOMAIN u.batches : BatchFits(u.batches[b], u.batches, u.contacts)
    BY <1>2, <1>3, <1>5 DEF BatchFits
<1>7. AttemptsFit(u) /\ Numbered(u.contacts) /\ Unique(u.contacts)
    BY <1>2 DEF TablesFit, AttemptsFit
<1>8. GoesOn(t, u)
    <2>1. \A i \in DOMAIN t.contacts : t.ran[i] <= u.ran[i]
        BY <1>1, <1>2 DEF AttemptsFit
    <2> QED BY <1>2, <1>3, <2>1 DEF GoesOn
<1> QED BY <1>2, <1>4, <1>6, <1>7, <1>8 DEF TablesFit

-----------------------------------------------------------------------------
(* Tables that go on *)

LEMMA GoesOnItself ==
    ASSUME NEW t, TablesFit(t)
    PROVE  GoesOn(t, t)
<1>1. \A i \in DOMAIN t.contacts : t.ran[i] \in Nat
    BY DEF TablesFit, AttemptsFit, Tables
<1> QED BY <1>1 DEF GoesOn

LEMMA RanType ==
    ASSUME NEW t, TablesFit(t), NEW i \in DOMAIN t.contacts
    PROVE  t.ran[i] \in Nat
<1>1. t.ran \in Seq(Nat) /\ DOMAIN t.ran = DOMAIN t.contacts
    BY DEF TablesFit, AttemptsFit, Tables
<1> QED BY <1>1

LEMMA GoesOnFurther ==
    ASSUME NEW t, NEW u, NEW v, TablesFit(t), TablesFit(u), TablesFit(v),
           GoesOn(t, u), GoesOn(u, v)
    PROVE  GoesOn(t, v)
<1>1. ASSUME NEW i \in DOMAIN t.contacts
      PROVE  /\ i \in DOMAIN v.contacts
             /\ v.contacts[i].number = t.contacts[i].number
             /\ v.contacts[i].fingerprint = t.contacts[i].fingerprint
             /\ t.ran[i] <= v.ran[i]
             /\ i \notin v.served =>
                    (t.contacts[i].contact.direct = "SUCCESS" => v.contacts[i].contact.direct = "SUCCESS")
    <2>1. i \in DOMAIN u.contacts /\ i \in DOMAIN v.contacts
        BY DEF GoesOn
    <2>2. t.ran[i] \in Nat /\ u.ran[i] \in Nat /\ v.ran[i] \in Nat
        BY <2>1, RanType
    <2>3. t.ran[i] <= u.ran[i] /\ u.ran[i] <= v.ran[i]
        BY <2>1 DEF GoesOn
    <2>4. t.ran[i] <= v.ran[i]
        BY <2>2, <2>3
    <2> QED BY <2>1, <2>4 DEF GoesOn
<1>2. \A b \in DOMAIN t.batches : b \in DOMAIN v.batches /\ v.batches[b] = t.batches[b]
    BY DEF GoesOn
<1> QED BY <1>1, <1>2 DEF GoesOn

(* What fits tables fits those that they go on to. *)
LEMMA ObjectsGoOn ==
    ASSUME NEW t, NEW u, TablesFit(t), TablesFit(u), GoesOn(t, u),
           NEW o \in Objects, ObjectsFit(o, t)
    PROVE  ObjectsFit(o, u)
<1>1. ASSUME NEW i \in DOMAIN o
      PROVE  ObjectFits(o[i], u, i)
    <2>1. ObjectFits(o[i], t, i)
        BY DEF ObjectsFit
    <2>2. i \in DOMAIN t.contacts /\ i \in DOMAIN u.contacts
        BY <2>1 DEF ObjectFits, GoesOn
    <2>3. t.ran[i] \in Nat /\ u.ran[i] \in Nat
        BY <2>2, RanType
    <2>4. t.ran[i] <= u.ran[i] /\ u.contacts[i].number = t.contacts[i].number
        BY <2>2 DEF GoesOn
    <2>5. o[i].loaded.contact.attempts \in Nat
        BY ObjectsType DEF ContactObject, ContactRow, Contact
    <2> QED BY <2>1, <2>2, <2>3, <2>4, <2>5 DEF ObjectFits
<1> QED BY <1>1 DEF ObjectsFit

LEMMA SessionGoesOn ==
    ASSUME NEW s, NEW t, NEW u, TablesFit(t), TablesFit(u), GoesOn(t, u), SessionFits(s, t)
    PROVE  SessionFits(s, u)
<1>1. ObjectsFit(s.objects, u)
    BY ObjectsGoOn DEF SessionFits, Sessions
<1>2. \A fp : Has(t.contacts, fp) => Has(u.contacts, fp)
    BY DEF Has, GoesOn
<1>3. FoundFits(s, t.contacts) => FoundFits(s, u.contacts)
    BY <1>2 DEF FoundFits
<1>4. RepeatFits(s, t.batches) => RepeatFits(s, u.batches)
    BY DEF RepeatFits, GoesOn
<1>5. ImportFits(s, t) => ImportFits(s, u)
    BY <1>3, <1>4 DEF ImportFits
<1> QED BY <1>1, <1>5 DEF SessionFits

-----------------------------------------------------------------------------
(* What a step of one session does to the others *)

LEMMA ViewFits ==
    ASSUME IInv, NEW p \in Procs
    PROVE  /\ TablesFit(View(p)) /\ GoesOn(db, View(p))
           /\ SessionFits(session[p], View(p)) /\ Stands(p)
           /\ session[p] \in Sessions
           /\ CanWrite(p) => View(p) = txn
           /\ lock # p => View(p) = db
BY GoesOnItself DEF IInv, View, CanWrite, SessionFits

(* A step that writes nothing *)
LEMMA ReadStep ==
    ASSUME IInv, NEW p \in Procs, db' = db, txn' = txn, lock' = lock, imports' \in Nat,
           session' = [session EXCEPT ![p] = session'[p]],
           SessionFits(session'[p], View(p)), Stands(p)'
    PROVE  IInv'
<1>1. session' \in [Procs -> Sessions]
    BY DEF IInv, SessionFits
<1>2. ASSUME NEW q \in Procs
      PROVE  SessionFits(session'[q], View(q)') /\ Stands(q)'
    <2>1. View(q)' = View(q)
        BY DEF View
    <2>2. CASE q = p
        BY <2>1, <2>2
    <2>3. CASE q # p
        <3>1. session'[q] = session[q]
            BY <2>3 DEF IInv
        <3> QED BY <2>1, <3>1 DEF IInv, Stands
    <2> QED BY <2>2, <2>3
<1> QED BY <1>1, <1>2 DEF IInv

(* A flush: the lock is taken, and the tables its holder sees go on. *)
LEMMA WriteStep ==
    ASSUME IInv, NEW p \in Procs, CanWrite(p), db' = db, lock' = p, imports' = imports,
           TablesFit(txn'), GoesOn(View(p), txn'),
           session' = [session EXCEPT ![p] = session'[p]],
           SessionFits(session'[p], txn'), Stands(p)'
    PROVE  IInv'
<1>1. session' \in [Procs -> Sessions]
    BY DEF IInv, SessionFits
<1>2. GoesOn(db, txn')
    <2>1. GoesOn(txn, txn')
        BY ViewFits
    <2> QED BY <2>1, GoesOnFurther DEF IInv
<1>3. ASSUME NEW q \in Procs
      PROVE  SessionFits(session'[q], View(q)') /\ Stands(q)'
    <2>1. CASE q = p
        BY <2>1 DEF View
    <2>2. CASE q # p
        <3>1. session'[q] = session[q]
            BY <2>2 DEF IInv
        <3>2. lock # q /\ lock' # q
            BY <2>2, ContactSessionsAssumption DEF CanWrite
        <3>3. View(q)' = db /\ View(q) = db
            BY <3>2 DEF View
        <3> QED BY <3>1, <3>2, <3>3 DEF IInv, Stands
    <2> QED BY <2>1, <2>2
<1>4. lock' # NoProc
    BY ContactSessionsAssumption
<1> QED BY <1>1, <1>2, <1>3, <1>4 DEF IInv

LEMMA NoSessionFits ==
    ASSUME NEW t
    PROVE  SessionFits(NoSession, t)
<1>1. <<>> \in Objects
    <2>1. <<>> \in [{} -> ContactObject]
        OBVIOUS
    <2> QED BY <2>1, IsObjects
<1>2. NoTally \in Tally
    BY DEF NoTally, Tally
<1>3. NoSession \in Sessions
    BY <1>1, <1>2 DEF NoSession, Sessions, Places
<1>4. RowFits(NoSession)
    BY DEF NoSession, RowFits
<1> QED BY <1>3, <1>4 DEF SessionFits, NoSession, ObjectsFit, Importing

LEMMA RollBackKeeps ==
    ASSUME IInv, NEW p \in Procs, RollBack(p)
    PROVE  IInv'
<1>1. session' = [session EXCEPT ![p] = NoSession] /\ db' = db /\ imports' = imports
    BY DEF RollBack
<1>2. session' \in [Procs -> Sessions]
    BY <1>1, NoSessionFits DEF IInv, SessionFits
<1>3. \/ lock = p /\ lock' = NoProc /\ txn' = db
      \/ lock # p /\ lock' = lock /\ txn' = txn
    BY DEF RollBack
<1>4. ASSUME NEW q \in Procs
      PROVE  SessionFits(session'[q], View(q)') /\ Stands(q)'
    <2>1. CASE q = p
        <3>1. session'[q] = NoSession /\ lock' # q
            BY <1>1, <1>3, <2>1, ContactSessionsAssumption DEF IInv
        <3>2. NoSession.at = "idle"
            BY DEF NoSession
        <3>3. Stands(q)'
            BY <3>1, <3>2 DEF Stands
        <3> QED BY <1>1, <3>1, <3>3, NoSessionFits
    <2>2. CASE q # p
        <3>1. session'[q] = session[q]
            BY <1>1, <2>2 DEF IInv
        <3>2. View(q)' = View(q)
            BY <1>1, <1>3, <2>2, ContactSessionsAssumption DEF View
        <3>3. Stands(q)'
            BY <1>3, <2>2, <3>1, ContactSessionsAssumption DEF IInv, Stands
        <3> QED BY <3>1, <3>2, <3>3 DEF IInv
    <2> QED BY <2>1, <2>2
<1>5. TablesFit(db') /\ TablesFit(txn') /\ GoesOn(db', txn') /\ lock' \in Procs \cup {NoProc}
    BY <1>1, <1>3, GoesOnItself DEF IInv
<1>6. lock' = NoProc => txn' = db'
    BY <1>1, <1>3 DEF IInv
<1> QED BY <1>1, <1>2, <1>4, <1>5, <1>6 DEF IInv

LEMMA CommitKeeps ==
    ASSUME IInv, NEW p \in Procs, Commit(p)
    PROVE  IInv'
<1>1. /\ session' = [session EXCEPT ![p] = NoSession]
      /\ db' = txn /\ txn' = txn /\ lock' = NoProc /\ imports' = imports
    BY DEF Commit
<1>2. lock = p
    BY DEF Commit, At, IInv, Stands
<1>3. session' \in [Procs -> Sessions]
    BY <1>1, NoSessionFits DEF IInv, SessionFits
<1>4. ASSUME NEW q \in Procs
      PROVE  SessionFits(session'[q], View(q)') /\ Stands(q)'
    <2>1. View(q)' = txn /\ lock' # q
        BY <1>1, ContactSessionsAssumption DEF View
    <2>2. CASE q = p
        <3>1. session'[q] = NoSession
            BY <1>1, <2>2 DEF IInv
        <3>2. NoSession.at = "idle"
            BY DEF NoSession
        <3>3. Stands(q)'
            BY <2>1, <3>1, <3>2 DEF Stands
        <3> QED BY <3>1, <3>3, NoSessionFits
    <2>3. CASE q # p
        <3>1. session'[q] = session[q]
            BY <1>1, <2>3 DEF IInv
        <3>2. View(q) = db
            BY <1>2, <2>3 DEF View
        <3>3. SessionFits(session[q], txn)
            BY <3>2, SessionGoesOn DEF IInv
        <3>4. Stands(q)'
            BY <1>2, <2>1, <2>3, <3>1 DEF IInv, Stands
        <3> QED BY <2>1, <3>1, <3>3, <3>4
    <2> QED BY <2>2, <2>3
<1> QED BY <1>1, <1>3, <1>4, GoesOnItself DEF IInv

-----------------------------------------------------------------------------
(* The objects of a session *)

LEMMA ObjectOf ==
    ASSUME IInv, NEW p \in Procs, NEW i \in DOMAIN View(p).contacts
    PROVE  /\ View(p).contacts[i] \in ContactRow
           /\ Object(p, i) \in ContactObject
           /\ ObjectFits(Object(p, i), View(p), i)
<1>1. /\ TablesFit(View(p)) /\ View(p).contacts \in Seq(ContactRow)
      /\ AttemptsFit(View(p))
    BY ViewFits DEF TablesFit, Tables
<1>2. View(p).contacts[i] \in ContactRow
    BY <1>1
<1>3. CASE i \in DOMAIN session[p].objects
    <2>1. session[p].objects \in Objects /\ ObjectsFit(session[p].objects, View(p))
        BY ViewFits DEF SessionFits, Sessions
    <2>2. Object(p, i) = session[p].objects[i]
        BY <1>3 DEF Object
    <2> QED BY <1>2, <1>3, <2>1, <2>2, ObjectsType DEF ObjectsFit
<1>4. CASE i \notin DOMAIN session[p].objects
    <2>1. Object(p, i) = [loaded |-> View(p).contacts[i], edited |-> View(p).contacts[i]]
        BY <1>4 DEF Object, Loaded
    <2>2. /\ View(p).contacts[i].contact.attempts \in Nat
          /\ View(p).contacts[i].contact.attempts <= View(p).ran[i]
        BY <1>1, <1>2 DEF ContactRow, Contact, AttemptsFit
    <2> QED BY <1>2, <2>1, <2>2 DEF ContactObject, ObjectFits
<1> QED BY <1>3, <1>4

(* A contact's object is changed. *)
LEMMA EditedFits ==
    ASSUME IInv, NEW p \in Procs, NEW i \in DOMAIN View(p).contacts, NEW e \in ContactRow,
           e.number = Object(p, i).edited.number,
           Object(p, i).edited.contact.attempts <= e.contact.attempts
    PROVE  LET objects == WithObject(p, i, e)
           IN  /\ objects \in Objects /\ ObjectsFit(objects, View(p))
               /\ DOMAIN objects = DOMAIN session[p].objects \cup {i}
               /\ objects[i].loaded = Object(p, i).loaded /\ objects[i].edited = e
               /\ \A k \in DOMAIN session[p].objects :
                    k # i => objects[k] = session[p].objects[k]
<1> DEFINE old     == session[p].objects
           objects == WithObject(p, i, e)
           new     == [Object(p, i) EXCEPT !.edited = e]
<1>1. old \in Objects /\ ObjectsFit(old, View(p))
    BY ViewFits DEF SessionFits, Sessions
<1>2. Object(p, i) \in ContactObject /\ ObjectFits(Object(p, i), View(p), i)
    BY ObjectOf
<1>3. new \in ContactObject /\ new.loaded = Object(p, i).loaded /\ new.edited = e
    BY <1>2 DEF ContactObject
<1>4. i \in Nat
    <2>1. View(p).contacts \in Seq(ContactRow)
        BY ViewFits DEF TablesFit, Tables
    <2> QED BY <2>1
<1>5. ObjectFits(new, View(p), i)
    <2>1. /\ Object(p, i).loaded.contact.attempts \in Nat /\ e.contact.attempts \in Nat
          /\ Object(p, i).edited.contact.attempts \in Nat
        BY <1>2 DEF ContactObject, ContactRow, Contact
    <2> HIDE DEF new
    <2> QED BY <1>2, <1>3, <2>1 DEF ObjectFits
<1>6. /\ DOMAIN objects = DOMAIN old \cup {i} /\ objects[i] = new
      /\ \A k \in DOMAIN old : k # i => objects[k] = old[k]
      /\ objects = [k \in DOMAIN old \cup {i} |-> objects[k]]
    BY DEF WithObject
<1> HIDE DEF objects, new
<1>7. objects \in Objects
    <2>1. \A k \in DOMAIN old \cup {i} : objects[k] \in ContactObject
        BY <1>1, <1>3, <1>6, ObjectsType
    <2>2. objects \in [DOMAIN old \cup {i} -> ContactObject]
        BY <1>6, <2>1
    <2>3. DOMAIN old \cup {i} \in SUBSET Nat
        BY <1>1, <1>4, ObjectsType
    <2> QED BY <2>2, <2>3, IsObjects
<1>8. ObjectsFit(objects, View(p))
    BY <1>1, <1>5, <1>6 DEF ObjectsFit
<1> QED BY <1>3, <1>6, <1>7, <1>8 DEF objects

-----------------------------------------------------------------------------
(* The rows of an import *)

LEMMA RowOf ==
    ASSUME IInv, NEW p \in Procs, HasRow(p) \/ At(p, "inserting")
    PROVE  /\ Row(p) \in FileRows
           /\ session[p].row \in 1..Len(session[p].file)
           /\ session[p].row \in Nat /\ Len(session[p].file) \in Nat
           /\ DOMAIN session[p].file = 1..Len(session[p].file)
           /\ ImportFits(session[p], View(p))
<1>1. session[p].file \in Files \cup {<<>>} /\ SessionFits(session[p], View(p))
    BY ViewFits DEF Sessions
<1>2. session[p].file \in Seq(FileRow)
    BY <1>1, RowsType
<1>3. session[p].row \in 1..Len(session[p].file)
    BY <1>1, <1>2 DEF SessionFits, RowFits, HasRow, At
<1>4. session[p].file[session[p].row] \in FileRows
    BY <1>1, <1>2, <1>3, RowsType
<1> QED BY <1>1, <1>2, <1>3, <1>4 DEF Row, SessionFits, Importing, HasRow, At

(* A contact that a row is taken for has the row's number and fingerprint. *)
LEMMA ExistingFits ==
    ASSUME NEW t, TablesFit(t), NEW row \in FileRows, NEW i \in Existing(t.contacts, row)
    PROVE  /\ i \in DOMAIN t.contacts
           /\ t.contacts[i].number = normalize_phone(row.phone)
           /\ Has(t.contacts, FingerprintOf(row))
<1> DEFINE number == normalize_phone(row.phone)
<1>1. Numbered(t.contacts)
    BY DEF TablesFit
<1>2. /\ number # None => FingerprintOf(row) = [kind |-> "valid", key |-> number]
      /\ number = None => FingerprintOf(row).kind = "invalid"
    BY FingerprintFits
<1>3. i \in DOMAIN t.contacts
    BY DEF Existing, get_by_fingerprint, get_by_normalized_phone
<1>4. \/ t.contacts[i].fingerprint = FingerprintOf(row)
      \/ t.contacts[i].number = number /\ number # None
    BY DEF Existing, get_by_fingerprint, get_by_normalized_phone
<1> HIDE DEF number
<1>5. t.contacts[i].number = number /\ t.contacts[i].fingerprint = FingerprintOf(row)
    <2> DEFINE c  == t.contacts[i]
               fp == FingerprintOf(row)
    <2>1. /\ c.number # None => c.fingerprint = [kind |-> "valid", key |-> c.number]
          /\ c.number = None => c.fingerprint.kind = "invalid"
        BY <1>1, <1>3 DEF Numbered
    <2>2. /\ c.number # None => c.fingerprint.kind = "valid" /\ c.fingerprint.key = c.number
          /\ number # None => fp.kind = "valid" /\ fp.key = number
        BY <1>2, <2>1
    <2>3. number = None => fp.kind = "invalid"
        BY <1>2
    <2>4. (c.number = number /\ number # None) => c.fingerprint = fp
        BY <1>2, <2>1
    <2>5. c.fingerprint = fp \/ (c.number = number /\ number # None)
        BY <1>4
    <2> HIDE DEF c, fp
    <2>6. c.fingerprint = fp
        BY <2>4, <2>5
    <2>7. c.number = number
        BY <2>1, <2>2, <2>3, <2>6
    <2> QED BY <2>6, <2>7 DEF c, fp
<1> QED BY <1>3, <1>5 DEF Has, number

LEMMA UpdatedFits ==
    ASSUME NEW c \in ContactRow, NEW row \in FileRows
    PROVE  /\ Updated(c, row) \in ContactRow
           /\ Updated(c, row).number = normalize_phone(row.phone)
           /\ Updated(c, row).contact.attempts = c.contact.attempts
           /\ Updated(c, row).contact.direct = c.contact.direct
<1>1. row.id \in BOOLEAN
    BY RowType DEF FileRow
<1>2. c.contact \in Contact /\ c.contact.known \in BOOLEAN
    BY DEF ContactRow, Contact
<1> DEFINE known == c.contact.known \/ row.id
           met   == [c.contact EXCEPT !.known = known]
           name  == IF row.name = <<>> THEN c.name ELSE row.name
           phone == IF row.phone = <<>> THEN c.phone ELSE row.phone
<1>3. known \in BOOLEAN
    OBVIOUS
<1> HIDE DEF known
<1>4. met \in Contact /\ met.attempts = c.contact.attempts /\ met.direct = c.contact.direct
    BY <1>2, <1>3 DEF Contact
<1>5. /\ name \in ({r.name : r \in FileRows} \cup {NoName}) \ {<<>>}
      /\ phone \in {r.phone : r \in FileRows}
    BY DEF ContactRow
<1>6. Updated(c, row) = [c EXCEPT !.name = name, !.phone = phone,
                                  !.number = normalize_phone(row.phone), !.contact = met]
    BY DEF Updated, known, ContactRow
<1> HIDE DEF met, name, phone
<1>7. normalize_phone(row.phone) \in {normalize_phone(r.phone) : r \in FileRows}
    OBVIOUS
<1> QED BY <1>4, <1>5, <1>6, <1>7 DEF ContactRow

-----------------------------------------------------------------------------
(* The steps of an import *)

LEMMA StartImportKeeps ==
    ASSUME IInv, NEW p \in Procs, StartImport(p)
    PROVE  IInv'
<1>1. PICK file \in Files :
        session' = [session EXCEPT ![p] =
            [NoSession EXCEPT !.at = "reading", !.file = file,
                              !.tally.total = Len(file), !.after = Len(db.batches)]]
    BY DEF StartImport
<1>2. db' = db /\ txn' = txn /\ lock' = lock /\ imports' = imports + 1 /\ At(p, "idle")
    BY DEF StartImport
<1>3. Len(file) \in Nat /\ DOMAIN file = 1..Len(file)
    BY RowsType
<1>4. /\ Len(db.batches) \in Nat /\ DOMAIN db.batches = 1..Len(db.batches)
      /\ View(p) = db /\ lock # p
    BY <1>2, ViewFits DEF IInv, TablesFit, Tables, Stands, At
<1> DEFINE s == session'[p]
<1>5. s = [at |-> "reading", file |-> file, row |-> 1, seen |-> {},
           tally |-> [NoTally EXCEPT !.total = Len(file)],
           after |-> Len(db.batches), contact |-> 0, objects |-> <<>>]
    BY <1>1 DEF IInv, NoSession
<1>6. NoSession \in Sessions
    BY NoSessionFits DEF SessionFits
<1> HIDE DEF s
<1>7. s \in Sessions
    <2>1. [NoTally EXCEPT !.total = Len(file)] \in Tally
        BY <1>3 DEF NoTally, Tally
    <2> QED BY <1>4, <1>5, <1>6, <2>1 DEF Sessions, NoSession, Places
<1>8. ImportFits(s, View(p))
    <2>1. SeenFits(s)
        BY <1>5 DEF SeenFits
    <2>2. FoundFits(s, View(p).contacts)
        BY <1>5 DEF FoundFits
    <2>3. TallyFits(s)
        BY <1>3, <1>5 DEF TallyFits, NoTally
    <2>4. RepeatFits(s, View(p).batches)
        BY <1>4, <1>5 DEF RepeatFits, NoTally
    <2> QED BY <1>5, <2>1, <2>2, <2>3, <2>4 DEF ImportFits
<1>9. RowFits(s) /\ ObjectsFit(s.objects, View(p))
    BY <1>3, <1>5 DEF RowFits, ObjectsFit
<1>10. SessionFits(s, View(p))
    BY <1>5, <1>7, <1>8, <1>9 DEF SessionFits
<1>11. session' = [session EXCEPT ![p] = s]
    BY <1>1 DEF s, IInv
<1>12. Stands(p)'
    BY <1>2, <1>5 DEF Stands, s
<1> QED BY <1>2, <1>10, <1>11, <1>12, ReadStep DEF s, IInv

LEMMA SkipDuplicateKeeps ==
    ASSUME IInv, NEW p \in Procs, SkipDuplicate(p)
    PROVE  IInv'
<1> DEFINE s == session'[p]
           o == session[p]
<1>1. /\ session' = [session EXCEPT ![p] = s]
      /\ s = [o EXCEPT !.row = o.row + 1, !.tally = CountedDuplicate(o.tally)]
      /\ db' = db /\ txn' = txn /\ lock' = lock /\ imports' = imports
      /\ o.at = "reading"
    BY DEF SkipDuplicate, IInv, HasRow, At
<1>2. /\ SessionFits(o, View(p)) /\ o \in Sessions /\ ImportFits(o, View(p))
      /\ o.row \in 1..Len(o.file) /\ o.row \in Nat /\ Len(o.file) \in Nat
    BY ViewFits, RowOf DEF SkipDuplicate
<1>3. FingerprintOf(o.file[o.row]) \in o.seen
    BY DEF SkipDuplicate, Row
<1>4. o.tally \in Tally
    BY <1>2 DEF Sessions
<1>5. CountedDuplicate(o.tally) = [o.tally EXCEPT !.duplicate = o.tally.duplicate + 1]
    BY <1>4 DEF CountedDuplicate, Tally
<1>6. CountedDuplicate(o.tally) \in Tally
    BY <1>4, <1>5 DEF Tally
<1> HIDE DEF s, o
<1>7. /\ s.at = o.at /\ s.file = o.file /\ s.row = o.row + 1 /\ s.seen = o.seen
      /\ s.tally = CountedDuplicate(o.tally) /\ s.after = o.after /\ s.objects = o.objects
      /\ s \in Sessions
    <2>1. o.row + 1 \in Nat
        BY <1>2
    <2> QED BY <1>1, <1>2, <1>6, <2>1 DEF Sessions
<1>8. ImportFits(s, View(p))
    <2>1. SeenFits(s)
        <3>1. ASSUME NEW k \in 1..(s.row - 1)
              PROVE  FingerprintOf(s.file[k]) \in s.seen
            <4>1. k \in 1..(o.row - 1) \/ k = o.row
                BY <1>2, <1>7
            <4> QED BY <1>2, <1>3, <1>7, <4>1 DEF ImportFits, SeenFits
        <3> QED BY <1>1, <1>7, <3>1 DEF SeenFits
    <2>2. FoundFits(s, View(p).contacts)
        BY <1>1, <1>2, <1>7 DEF ImportFits, FoundFits
    <2>3. TallyFits(s)
        <3>1. /\ s.tally.total = o.tally.total /\ s.tally.valid = o.tally.valid
              /\ s.tally.invalid = o.tally.invalid /\ s.tally.created = o.tally.created
              /\ s.tally.updated = o.tally.updated
              /\ s.tally.duplicate = o.tally.duplicate + 1
            BY <1>4, <1>5, <1>7 DEF Tally
        <3>2. TallyFits(o)
            BY <1>2 DEF ImportFits
        <3>3. o.tally.created \in Nat /\ o.tally.duplicate \in Nat
            BY <1>4 DEF Tally
        <3> QED BY <1>1, <1>2, <1>7, <3>1, <3>2, <3>3 DEF TallyFits
    <2>4. RepeatFits(s, View(p).batches)
        BY <1>1, <1>2, <1>4, <1>5, <1>7 DEF ImportFits, RepeatFits, Tally
    <2> QED BY <1>2, <1>7, <2>1, <2>2, <2>3, <2>4 DEF ImportFits
<1>9. SessionFits(s, View(p))
    BY <1>1, <1>2, <1>7, <1>8 DEF SessionFits, RowFits
<1>10. Stands(p)'
    BY <1>1, <1>7 DEF Stands, s
<1> QED BY <1>1, <1>9, <1>10, ReadStep DEF s, IInv

(* A row is counted as valid or invalid. *)
LEMMA CountedFits ==
    ASSUME NEW t \in Tally, NEW row
    PROVE  LET n == Counted(t, row)
           IN  /\ n \in Tally
               /\ n.total = t.total /\ n.created = t.created /\ n.updated = t.updated
               /\ n.duplicate = t.duplicate
               /\ n.valid + n.invalid = t.valid + t.invalid + 1
<1>1. t.valid \in Nat /\ t.invalid \in Nat /\ t.valid + 1 \in Nat /\ t.invalid + 1 \in Nat
    BY DEF Tally
<1>2. CASE normalize_phone(row.phone) # None
    <2>1. Counted(t, row) = [t EXCEPT !.valid = t.valid + 1]
        BY <1>2 DEF Counted
    <2> QED BY <1>1, <2>1 DEF Tally
<1>3. CASE normalize_phone(row.phone) = None
    <2>1. Counted(t, row) = [t EXCEPT !.invalid = t.invalid + 1]
        BY <1>3 DEF Counted
    <2> QED BY <1>1, <2>1 DEF Tally
<1> QED BY <1>2, <1>3

LEMMA UpdateExistingKeeps ==
    ASSUME IInv, NEW p \in Procs, UpdateExisting(p)
    PROVE  IInv'
<1> DEFINE s == session'[p]
           o == session[p]
           row == Row(p)
<1>1. PICK i \in Existing(View(p).contacts, row) :
        session' = [session EXCEPT
            ![p].row = @ + 1,
            ![p].seen = @ \cup {FingerprintOf(row)},
            ![p].tally = CountedUpdate(Counted(@, row)),
            ![p].objects = WithObject(p, i, Updated(Object(p, i).edited, row))]
    BY DEF UpdateExisting
<1>2. /\ SessionFits(o, View(p)) /\ o \in Sessions /\ ImportFits(o, View(p))
      /\ o.row \in 1..Len(o.file) /\ o.row \in Nat /\ Len(o.file) \in Nat
      /\ row \in FileRows /\ TablesFit(View(p))
    BY ViewFits, RowOf DEF UpdateExisting
<1>3. /\ i \in DOMAIN View(p).contacts
      /\ View(p).contacts[i].number = normalize_phone(row.phone)
      /\ Has(View(p).contacts, FingerprintOf(row))
    BY <1>2, ExistingFits
<1> DEFINE e == Updated(Object(p, i).edited, row)
           objects == WithObject(p, i, e)
           n == Counted(o.tally, row)
<1>4. /\ Object(p, i).edited \in ContactRow
      /\ Object(p, i).edited.number = normalize_phone(row.phone)
    BY <1>3, ObjectOf DEF ObjectFits, ContactObject
<1>5. /\ e \in ContactRow /\ e.number = normalize_phone(row.phone)
      /\ e.contact.attempts = Object(p, i).edited.contact.attempts
      /\ e.contact.direct = Object(p, i).edited.contact.direct
    BY <1>2, <1>4, UpdatedFits
<1>6. Object(p, i).edited.contact.attempts \in Nat
    BY <1>4 DEF ContactRow, Contact
<1>7. /\ objects \in Objects /\ ObjectsFit(objects, View(p))
      /\ DOMAIN objects = DOMAIN o.objects \cup {i}
      /\ objects[i].loaded = Object(p, i).loaded /\ objects[i].edited = e
      /\ \A k \in DOMAIN o.objects : k # i => objects[k] = o.objects[k]
    <2> HIDE DEF e, row
    <2>1. e.number = Object(p, i).edited.number
        BY <1>4, <1>5
    <2>2. Object(p, i).edited.contact.attempts <= e.contact.attempts
        BY <1>5, <1>6
    <2> QED BY <1>3, <1>5, <2>1, <2>2, EditedFits
<1>8. Untouched(Object(p, i))
    BY <1>2 DEF Object, Loaded, Untouched, ImportFits
<1>9. o.tally \in Tally /\ n \in Tally
      /\ n.total = o.tally.total /\ n.created = o.tally.created
      /\ n.updated = o.tally.updated /\ n.duplicate = o.tally.duplicate
      /\ n.valid + n.invalid = o.tally.valid + o.tally.invalid + 1
    <2>1. o.tally \in Tally
        BY <1>2 DEF Sessions
    <2> QED BY <2>1, CountedFits
<1>10. /\ session' = [session EXCEPT ![p] = s]
       /\ s = [o EXCEPT !.row = o.row + 1, !.seen = o.seen \cup {FingerprintOf(row)},
                         !.tally = CountedUpdate(n), !.objects = objects]
    BY <1>1 DEF IInv
<1>11. /\ db' = db /\ txn' = txn /\ lock' = lock /\ imports' = imports
       /\ o.at = "reading" /\ row = o.file[o.row]
    BY DEF UpdateExisting, HasRow, At, Row
<1> HIDE DEF s, o, row, e, objects, n
<1>12. CountedUpdate(n) = [n EXCEPT !.duplicate = n.duplicate + 1, !.updated = n.updated + 1]
    BY <1>9 DEF CountedUpdate, Tally
<1>13. CountedUpdate(n) \in Tally
    <2>1. n.duplicate + 1 \in Nat /\ n.updated + 1 \in Nat
        BY <1>9 DEF Tally
    <2> QED BY <1>9, <1>12, <2>1 DEF Tally
<1>14. /\ s.at = o.at /\ s.file = o.file /\ s.row = o.row + 1
       /\ s.seen = o.seen \cup {FingerprintOf(row)}
       /\ s.tally = CountedUpdate(n) /\ s.after = o.after /\ s.objects = objects
       /\ s.contact = o.contact
    BY <1>2, <1>10 DEF Sessions
<1>15. s \in Sessions
    <2>1. o.row + 1 \in Nat
        BY <1>2
    <2>2. FingerprintOf(row) \in Fingerprints
        BY <1>2, RowType
    <2> QED BY <1>2, <1>7, <1>10, <1>13, <2>1, <2>2 DEF Sessions
<1>16. ImportFits(s, View(p))
    <2>1. SeenFits(s)
        <3>1. ASSUME NEW k \in 1..(s.row - 1)
              PROVE  FingerprintOf(s.file[k]) \in s.seen
            <4>1. k \in 1..(o.row - 1) \/ k = o.row
                BY <1>2, <1>14
            <4> QED BY <1>2, <1>11, <1>14, <4>1 DEF ImportFits, SeenFits
        <3> QED BY <1>11, <1>14, <3>1 DEF SeenFits
    <2>2. FoundFits(s, View(p).contacts)
        BY <1>2, <1>3, <1>11, <1>14 DEF ImportFits, FoundFits
    <2>3. /\ s.tally.total = n.total /\ s.tally.valid = n.valid
          /\ s.tally.invalid = n.invalid /\ s.tally.created = n.created
          /\ s.tally.updated = n.updated + 1
          /\ s.tally.duplicate = n.duplicate + 1
        BY <1>9, <1>12, <1>14 DEF Tally
    <2>4. TallyFits(s)
        <3>1. TallyFits(o)
            BY <1>2 DEF ImportFits
        <3>2. /\ n.created \in Nat /\ n.duplicate \in Nat /\ n.updated \in Nat
              /\ o.tally.valid \in Nat /\ o.tally.invalid \in Nat
            BY <1>9 DEF Tally
        <3>3. /\ o.tally.total = Len(o.file)
              /\ o.tally.created + o.tally.duplicate + 1 = o.row
              /\ o.tally.valid + o.tally.invalid = o.tally.created + o.tally.updated
            BY <1>9, <1>11, <3>1, <3>2 DEF TallyFits, Tally
        <3>4. /\ s.tally.total = Len(s.file)
              /\ s.tally.created + s.tally.duplicate + 1 = s.row
              /\ s.tally.valid + s.tally.invalid = s.tally.created + s.tally.updated
            <4>1. s.tally.total = Len(s.file)
                BY <1>9, <1>14, <2>3, <3>3
            <4>2. s.tally.created + s.tally.duplicate + 1 = s.row
                <5>1. n.created + n.duplicate + 1 = o.row
                    BY <1>9, <3>3
                <5> QED BY <1>14, <2>3, <3>2, <5>1
            <4>3. s.tally.valid + s.tally.invalid = s.tally.created + s.tally.updated
                <5>1. n.valid + n.invalid = (n.created + n.updated) + 1
                    BY <1>9, <3>3
                <5> QED BY <2>3, <3>2, <5>1
            <4> QED BY <4>1, <4>2, <4>3
        <3> QED BY <1>9, <1>11, <1>14, <2>3, <3>2, <3>4 DEF TallyFits
    <2>5. RepeatFits(s, View(p).batches)
        BY <1>2, <1>9, <1>11, <1>14, <2>3 DEF ImportFits, RepeatFits
    <2>6. \A k \in DOMAIN s.objects : Untouched(s.objects[k])
        <3>1. Untouched(objects[i])
            BY <1>5, <1>7, <1>8 DEF Untouched
        <3> QED BY <1>2, <1>7, <1>14, <3>1 DEF ImportFits
    <2> QED BY <1>2, <1>14, <2>1, <2>2, <2>4, <2>5, <2>6 DEF ImportFits
<1>17. SessionFits(s, View(p))
    <2>1. RowFits(s)
        BY <1>2, <1>11, <1>14 DEF RowFits
    <2> QED BY <1>7, <1>11, <1>14, <1>15, <1>16, <2>1 DEF SessionFits
<1>18. Stands(p)'
    <2>1. Stands(p) /\ session[p].at = "reading"
        BY <1>11, ViewFits DEF o
    <2> QED BY <1>11, <1>14, <2>1 DEF Stands, s
<1> QED BY <1>10, <1>11, <1>17, <1>18, ReadStep DEF s, IInv

LEMMA FindNoneKeeps ==
    ASSUME IInv, NEW p \in Procs, FindNone(p)
    PROVE  IInv'
<1> DEFINE s == session'[p]
           o == session[p]
           row == Row(p)
           n == Counted(o.tally, row)
<1>1. /\ session' = [session EXCEPT ![p] = s]
      /\ s = [o EXCEPT !.at = "inserting", !.seen = o.seen \cup {FingerprintOf(row)},
                        !.tally = n]
    BY DEF FindNone, IInv
<1>2. /\ SessionFits(o, View(p)) /\ o \in Sessions /\ ImportFits(o, View(p))
      /\ o.row \in 1..Len(o.file) /\ o.row \in Nat /\ Len(o.file) \in Nat
      /\ row \in FileRows /\ TablesFit(View(p)) /\ DOMAIN o.file = 1..Len(o.file)
    BY ViewFits, RowOf DEF FindNone
<1>3. ~Has(View(p).contacts, FingerprintOf(row))
    <2>1. Existing(View(p).contacts, row) = {}
        BY DEF FindNone
    <2> QED BY <2>1 DEF Existing, get_by_fingerprint, Has
<1>4. /\ o.tally \in Tally /\ n \in Tally
      /\ n.total = o.tally.total /\ n.created = o.tally.created
      /\ n.updated = o.tally.updated /\ n.duplicate = o.tally.duplicate
      /\ n.valid + n.invalid = o.tally.valid + o.tally.invalid + 1
    <2>1. o.tally \in Tally
        BY <1>2 DEF Sessions
    <2> QED BY <2>1, CountedFits
<1>5. /\ db' = db /\ txn' = txn /\ lock' = lock /\ imports' = imports
      /\ o.at = "reading" /\ row = o.file[o.row]
    BY DEF FindNone, HasRow, At, Row
<1> HIDE DEF s, o, row, n
<1>6. /\ s.at = "inserting" /\ s.file = o.file /\ s.row = o.row
      /\ s.seen = o.seen \cup {FingerprintOf(row)}
      /\ s.tally = n /\ s.after = o.after /\ s.objects = o.objects
    BY <1>1, <1>2 DEF Sessions
<1>7. s \in Sessions
    <2>1. FingerprintOf(row) \in Fingerprints
        BY <1>2, RowType
    <2> QED BY <1>1, <1>2, <1>4, <2>1 DEF Sessions, Places
<1>8. ImportFits(s, View(p))
    <2>1. SeenFits(s)
        BY <1>2, <1>5, <1>6 DEF ImportFits, SeenFits
    <2>2. FoundFits(s, View(p).contacts)
        BY <1>2, <1>5, <1>6 DEF ImportFits, FoundFits
    <2>3. TallyFits(s)
        <3>1. TallyFits(o)
            BY <1>2 DEF ImportFits
        <3>2. /\ n.created \in Nat /\ n.duplicate \in Nat /\ n.updated \in Nat
              /\ o.tally.valid \in Nat /\ o.tally.invalid \in Nat
            BY <1>4 DEF Tally
        <3> QED BY <1>2, <1>4, <1>5, <1>6, <3>1, <3>2 DEF TallyFits
    <2>4. RepeatFits(s, View(p).batches)
        <3>1. ASSUME NEW a \in 1..o.after
              PROVE  a \in DOMAIN View(p).batches /\ View(p).batches[a].file # o.file
            <4>1. a \in DOMAIN View(p).batches
                BY <1>2 DEF ImportFits, RepeatFits
            <4>2. ASSUME View(p).batches[a].file = o.file
                  PROVE  Has(View(p).contacts, FingerprintOf(o.file[o.row]))
                BY <1>2, <4>1, <4>2 DEF TablesFit, BatchFits
            <4> QED BY <1>3, <1>5, <4>1, <4>2
        <3> QED BY <1>6, <3>1 DEF RepeatFits
    <2> QED BY <1>2, <1>6, <2>1, <2>2, <2>3, <2>4 DEF ImportFits
<1>9. SessionFits(s, View(p))
    <2>1. RowFits(s)
        BY <1>2, <1>6 DEF RowFits
    <2> QED BY <1>2, <1>6, <1>7, <1>8, <2>1 DEF SessionFits
<1>10. Stands(p)'
    BY <1>6 DEF Stands, s
<1> QED BY <1>1, <1>5, <1>9, <1>10, ReadStep DEF s, IInv

(* A flush that is made for an import or a worker *)
LEMMA FlushItself ==
    ASSUME NEW t, TablesFit(t), NEW o \in Objects, ObjectsFit(o, t),
           \A i \in DOMAIN o : Untouched(o[i]) \/ UpToDate(o[i], t.contacts[i])
    PROVE  /\ TablesFit(Flushed(t, o)) /\ GoesOn(t, Flushed(t, o))
           /\ Flushed(t, o).batches = t.batches
           /\ Clean(o) \in Objects /\ ObjectsFit(Clean(o), Flushed(t, o))
<1>1. t \in Tables
    BY DEF TablesFit
<1>2. PICK S : S = t.served
    OBVIOUS
<1>3. PICK u : u = Flushed(t, o)
    OBVIOUS
<1>4. S \in SUBSET Nat /\ t.served \subseteq S
    BY <1>1, <1>2 DEF Tables
<1>5. u = FlushedAs(t, o, S)
    BY <1>1, <1>2, <1>3 DEF FlushedAs, Flushed, Tables
<1>6. \A i \in DOMAIN o : i \in S \/ Untouched(o[i]) \/ UpToDate(o[i], t.contacts[i])
    OBVIOUS
<1>7. /\ TablesFit(u) /\ GoesOn(t, u) /\ u.batches = t.batches
      /\ Clean(o) \in Objects /\ ObjectsFit(Clean(o), u)
    BY <1>4, <1>5, <1>6, FlushFits
<1> QED BY <1>3, <1>7

LEMMA SavedFits ==
    ASSUME IInv, NEW p \in Procs,
           \A i \in DOMAIN session[p].objects :
                \/ Untouched(session[p].objects[i])
                \/ UpToDate(session[p].objects[i], View(p).contacts[i])
    PROVE  /\ TablesFit(Saved(p)) /\ GoesOn(View(p), Saved(p))
           /\ Saved(p).batches = View(p).batches
           /\ Clean(session[p].objects) \in Objects
           /\ DOMAIN Clean(session[p].objects) = DOMAIN session[p].objects
           /\ ObjectsFit(Clean(session[p].objects), Saved(p))
<1>1. PICK t : t = View(p)
    OBVIOUS
<1>2. PICK o : o = session[p].objects
    OBVIOUS
<1>3. TablesFit(t) /\ o \in Objects /\ ObjectsFit(o, t)
    BY <1>1, <1>2, ViewFits DEF SessionFits, Sessions
<1>4. \A i \in DOMAIN o : Untouched(o[i]) \/ UpToDate(o[i], t.contacts[i])
    BY <1>1, <1>2
<1>5. Saved(p) = Flushed(t, o)
    BY <1>1, <1>2 DEF Saved
<1>6. /\ TablesFit(Flushed(t, o)) /\ GoesOn(t, Flushed(t, o))
      /\ Flushed(t, o).batches = t.batches
      /\ Clean(o) \in Objects /\ ObjectsFit(Clean(o), Flushed(t, o))
    BY <1>3, <1>4, FlushItself
<1> QED BY <1>1, <1>2, <1>3, <1>5, <1>6, CleanObjects

LEMMA CleanIsUntouched ==
    ASSUME NEW o \in Objects
    PROVE  \A i \in DOMAIN Clean(o) : Untouched(Clean(o)[i])
<1>1. ASSUME NEW i \in DOMAIN Clean(o)
      PROVE  Untouched(Clean(o)[i])
    <2>1. Clean(o)[i] = Loaded(o[i].edited)
        BY CleanObjects
    <2> QED BY <2>1 DEF Untouched, Loaded
<1> QED BY <1>1

LEMMA InsertKeeps ==
    ASSUME IInv, NEW p \in Procs, Insert(p)
    PROVE  IInv'
<1> DEFINE s == session'[p]
           o == session[p]
           row == Row(p)
           t == View(p)
           saved == Saved(p)
           objects == Clean(o.objects)
<1>1. /\ session' = [session EXCEPT ![p] = s]
      /\ s = [o EXCEPT !.at = "reading", !.row = o.row + 1, !.tally = CountedNew(o.tally),
                        !.objects = objects]
      /\ db' = db /\ lock' = p /\ imports' = imports /\ CanWrite(p)
    BY DEF Insert, IInv
<1>2. /\ txn' = [saved EXCEPT !.contacts = Append(@, NewRow(row)), !.ran = Append(@, 0)]
      /\ ~Conflicts(saved.contacts, NewRow(row))
    BY DEF Insert
<1>3. /\ SessionFits(o, t) /\ o \in Sessions /\ ImportFits(o, t)
      /\ o.row \in 1..Len(o.file) /\ o.row \in Nat /\ Len(o.file) \in Nat
      /\ row \in FileRows /\ TablesFit(t) /\ DOMAIN o.file = 1..Len(o.file)
    BY ViewFits, RowOf DEF Insert
<1>4. o.at = "inserting" /\ row = o.file[o.row]
    BY DEF Insert, At, Row
<1>5. /\ TablesFit(saved) /\ GoesOn(t, saved) /\ saved.batches = t.batches
      /\ objects \in Objects /\ ObjectsFit(objects, saved)
    BY <1>3, SavedFits DEF ImportFits
<1>6. \A i \in DOMAIN objects : Untouched(objects[i])
    BY <1>3, CleanIsUntouched DEF Sessions
<1>7. o.tally \in Tally
    BY <1>3 DEF Sessions
<1> HIDE DEF s, o, row, t, saved, objects
<1>8. /\ TablesFit(txn') /\ GoesOn(saved, txn') /\ txn'.batches = saved.batches
      /\ Has(txn'.contacts, FingerprintOf(row))
    BY <1>2, <1>3, <1>5, InsertFits
<1>9. GoesOn(t, txn') /\ ObjectsFit(objects, txn')
    BY <1>3, <1>5, <1>8, GoesOnFurther, ObjectsGoOn
<1>10. CountedNew(o.tally) = [o.tally EXCEPT !.created = o.tally.created + 1]
    BY <1>7 DEF CountedNew, Tally
<1>11. CountedNew(o.tally) \in Tally
    BY <1>7, <1>10 DEF Tally
<1>12. /\ s.at = "reading" /\ s.file = o.file /\ s.row = o.row + 1 /\ s.seen = o.seen
       /\ s.tally = CountedNew(o.tally) /\ s.after = o.after /\ s.objects = objects
    BY <1>1, <1>3 DEF Sessions
<1>13. s \in Sessions
    <2>1. o.row + 1 \in Nat
        BY <1>3
    <2> QED BY <1>1, <1>3, <1>5, <1>11, <2>1 DEF Sessions, Places
<1>14. ImportFits(s, txn')
    <2>1. SeenFits(s)
        <3>1. ASSUME NEW k \in 1..(s.row - 1)
              PROVE  FingerprintOf(s.file[k]) \in s.seen
            <4>1. k \in 1..(o.row - 1) \/ k = o.row
                BY <1>3, <1>12
            <4> QED BY <1>3, <1>4, <1>12, <4>1 DEF ImportFits, SeenFits
        <3> QED BY <1>12, <3>1 DEF SeenFits
    <2>2. FoundFits(s, txn'.contacts)
        <3>1. ASSUME NEW fp \in s.seen
              PROVE  Has(txn'.contacts, fp)
            <4>1. Has(t.contacts, fp) \/ fp = FingerprintOf(row)
                BY <1>3, <1>4, <1>12 DEF ImportFits, FoundFits
            <4>2. Has(t.contacts, fp) => Has(txn'.contacts, fp)
                BY <1>9 DEF GoesOn, Has
            <4> QED BY <1>8, <4>1, <4>2
        <3> QED BY <3>1 DEF FoundFits
    <2>3. TallyFits(s)
        <3>1. TallyFits(o)
            BY <1>3 DEF ImportFits
        <3>2. /\ o.tally.created \in Nat /\ o.tally.duplicate \in Nat /\ o.tally.updated \in Nat
              /\ o.tally.valid \in Nat /\ o.tally.invalid \in Nat
            BY <1>7 DEF Tally
        <3>3. /\ s.tally.total = o.tally.total /\ s.tally.valid = o.tally.valid
              /\ s.tally.invalid = o.tally.invalid /\ s.tally.created = o.tally.created + 1
              /\ s.tally.updated = o.tally.updated /\ s.tally.duplicate = o.tally.duplicate
            BY <1>7, <1>10, <1>12 DEF Tally
        <3>4. /\ o.tally.total = Len(o.file)
              /\ o.tally.created + o.tally.duplicate + 1 = o.row
              /\ o.tally.valid + o.tally.invalid = o.tally.created + o.tally.updated + 1
            BY <1>4, <3>1 DEF TallyFits
        <3>5. s.tally.created + s.tally.duplicate + 1 = s.row
            BY <1>12, <3>2, <3>3, <3>4
        <3>6. s.tally.valid + s.tally.invalid = s.tally.created + s.tally.updated
            BY <3>2, <3>3, <3>4
        <3>7. s.tally.created + s.tally.updated \in Nat
            BY <3>2, <3>3
        <3> QED BY <1>12, <3>3, <3>4, <3>5, <3>6, <3>7 DEF TallyFits
    <2>4. RepeatFits(s, txn'.batches)
        BY <1>3, <1>4, <1>5, <1>8, <1>12 DEF ImportFits, RepeatFits
    <2> QED BY <1>3, <1>6, <1>12, <2>1, <2>2, <2>3, <2>4 DEF ImportFits
<1>15. SessionFits(s, txn')
    <2>1. RowFits(s)
        BY <1>3, <1>12 DEF RowFits
    <2> QED BY <1>9, <1>12, <1>13, <1>14, <2>1 DEF SessionFits
<1>16. Stands(p)'
    BY <1>12 DEF Stands, s
<1> QED BY <1>1, <1>8, <1>9, <1>15, <1>16, WriteStep DEF s, t

LEMMA FinishImportKeeps ==
    ASSUME IInv, NEW p \in Procs, FinishImport(p)
    PROVE  IInv'
<1> DEFINE s == session'[p]
           o == session[p]
           t == View(p)
           saved == Saved(p)
           batch == Batch(p)
           objects == Clean(o.objects)
<1>1. /\ session' = [session EXCEPT ![p] = s]
      /\ s = [o EXCEPT !.at = "closing", !.objects = objects]
      /\ db' = db /\ lock' = p /\ imports' = imports /\ CanWrite(p)
      /\ txn' = [saved EXCEPT !.batches = Append(@, batch)]
    BY DEF FinishImport, IInv
<1>2. /\ SessionFits(o, t) /\ o \in Sessions /\ TablesFit(t)
      /\ o.at = "reading" /\ o.row > Len(o.file)
    BY ViewFits DEF FinishImport, At
<1>3. ImportFits(o, t) /\ RowFits(o)
    BY <1>2 DEF SessionFits, Importing
<1>4. Len(o.file) \in Nat /\ DOMAIN o.file = 1..Len(o.file) /\ o.row = Len(o.file) + 1
    <2>1. o.file \in Seq(FileRow)
        BY <1>3, RowsType DEF ImportFits
    <2> QED BY <1>2, <1>3, <2>1 DEF RowFits
<1>5. /\ TablesFit(saved) /\ GoesOn(t, saved) /\ saved.batches = t.batches
      /\ objects \in Objects /\ ObjectsFit(objects, saved)
    BY <1>3, SavedFits DEF ImportFits
<1>6. batch = [tally |-> o.tally, file |-> o.file, after |-> o.after]
    BY DEF Batch
<1> HIDE DEF s, o, t, saved, batch, objects
<1>7. batch \in Batches
    BY <1>2, <1>3, <1>6 DEF Batches, Sessions, ImportFits
<1>8. BatchFits(batch, saved.batches, saved.contacts)
    <2>1. ASSUME NEW k \in DOMAIN batch.file
          PROVE  Has(saved.contacts, FingerprintOf(batch.file[k]))
        <3>1. k \in 1..(o.row - 1)
            BY <1>4, <1>6
        <3>2. FingerprintOf(o.file[k]) \in o.seen
            BY <1>3, <3>1 DEF ImportFits, SeenFits
        <3>3. Has(t.contacts, FingerprintOf(o.file[k]))
            BY <1>2, <1>3, <3>2 DEF ImportFits, FoundFits
        <3> QED BY <1>5, <1>6, <3>3 DEF GoesOn, Has
    <2>2. /\ batch.tally.total = batch.tally.created + batch.tally.duplicate
          /\ batch.tally.valid + batch.tally.invalid = batch.tally.created + batch.tally.updated
        <3>1. /\ o.tally.created \in Nat /\ o.tally.duplicate \in Nat /\ o.tally.updated \in Nat
            BY <1>2 DEF Sessions, Tally
        <3>2. /\ o.tally.total = Len(o.file)
              /\ o.tally.created + o.tally.duplicate + 1 = o.row
              /\ o.tally.valid + o.tally.invalid = o.tally.created + o.tally.updated
            BY <1>2, <1>3, <3>1 DEF ImportFits, TallyFits
        <3>3. o.tally.created + o.tally.duplicate = Len(o.file)
            BY <1>4, <3>1, <3>2
        <3> QED BY <1>6, <3>2, <3>3
    <2>3. \A a \in 1..batch.after :
            /\ a \in DOMAIN saved.batches
            /\ saved.batches[a].file = batch.file => batch.tally.created = 0
        BY <1>3, <1>5, <1>6 DEF ImportFits, RepeatFits
    <2> QED BY <2>1, <2>2, <2>3 DEF BatchFits
<1>9. TablesFit(txn') /\ GoesOn(saved, txn')
    BY <1>1, <1>5, <1>7, <1>8, BatchAdded
<1>10. GoesOn(t, txn') /\ ObjectsFit(objects, txn')
    BY <1>2, <1>5, <1>9, GoesOnFurther, ObjectsGoOn
<1>11. /\ s.at = "closing" /\ s.objects = objects /\ s.row = o.row /\ s.file = o.file
       /\ s \in Sessions
    BY <1>1, <1>2, <1>5 DEF Sessions, Places
<1>12. SessionFits(s, txn')
    BY <1>3, <1>10, <1>11 DEF SessionFits, Importing, RowFits
<1>13. Stands(p)'
    BY <1>1, <1>11 DEF Stands, s
<1> QED BY <1>1, <1>9, <1>10, <1>12, <1>13, WriteStep DEF s, t

-----------------------------------------------------------------------------
(* The steps of a worker *)

LEMMA ClaimKeeps ==
    ASSUME IInv, NEW p \in Procs, Claim(p)
    PROVE  IInv'
<1> DEFINE s == session'[p]
           o == session[p]
<1>1. /\ session' = [session EXCEPT ![p] = s] /\ s = [o EXCEPT !.at = "handling"]
      /\ db' = db /\ txn' = db /\ lock' = p /\ imports' = imports /\ CanWrite(p)
    BY DEF Claim, Move, IInv
<1>2. o.at = "idle" /\ SessionFits(o, View(p)) /\ o \in Sessions
    BY ViewFits DEF Claim, At
<1>3. View(p) = db /\ TablesFit(db) /\ GoesOn(db, db)
    BY <1>2, ViewFits, GoesOnItself DEF Stands, IInv
<1> HIDE DEF s, o
<1>4. /\ s.at = "handling" /\ s.file = o.file /\ s.row = o.row /\ s.objects = o.objects
      /\ s \in Sessions
    BY <1>1, <1>2 DEF Sessions, Places
<1>5. SessionFits(s, View(p))
    BY <1>2, <1>4 DEF SessionFits, RowFits, Importing
<1>6. Stands(p)'
    BY <1>1, <1>4 DEF Stands, s
<1> QED BY <1>1, <1>3, <1>5, <1>6, WriteStep DEF s

(* A contact is changed by a handler. *)
LEMMA ChangedFits ==
    ASSUME IInv, NEW p \in Procs, NEW i \in DOMAIN View(p).contacts,
           NEW left, Leaves(Object(p, i).edited.contact, left)
    PROVE  LET objects == Changed(p, i, left)
           IN  /\ objects \in Objects /\ ObjectsFit(objects, View(p))
               /\ DOMAIN objects = DOMAIN session[p].objects \cup {i}
               /\ objects[i].loaded = Object(p, i).loaded
               /\ objects[i].edited.contact = left
<1> DEFINE r == Object(p, i).edited
           e == [r EXCEPT !.contact = left]
<1>1. r \in ContactRow
    BY ObjectOf DEF ContactObject
<1>2. e \in ContactRow /\ e.number = r.number /\ e.contact = left
    BY <1>1 DEF ContactRow, Leaves
<1>3. r.contact.attempts <= e.contact.attempts
    BY <1>2 DEF Leaves
<1>4. Changed(p, i, left) = WithObject(p, i, e)
    BY DEF Changed
<1> HIDE DEF e
<1>5. LET objects == WithObject(p, i, e)
      IN  /\ objects \in Objects /\ ObjectsFit(objects, View(p))
          /\ DOMAIN objects = DOMAIN session[p].objects \cup {i}
          /\ objects[i].loaded = Object(p, i).loaded /\ objects[i].edited = e
    BY <1>2, <1>3, EditedFits
<1> QED BY <1>2, <1>4, <1>5

LEMMA HandleKeeps ==
    ASSUME IInv, NEW p \in Procs, Handle(p)
    PROVE  IInv'
<1> DEFINE s == session'[p]
           o == session[p]
<1>1. PICK i \in DOMAIN View(p).contacts : \E left \in Handled(Object(p, i).edited.contact) :
        session' = [session EXCEPT ![p].at = "settling", ![p].objects = Changed(p, i, left)]
    BY DEF Handle
<1>2. PICK left \in Handled(Object(p, i).edited.contact) :
        session' = [session EXCEPT ![p].at = "settling", ![p].objects = Changed(p, i, left)]
    BY <1>1
<1> DEFINE objects == Changed(p, i, left)
<1>3. /\ session' = [session EXCEPT ![p] = s]
      /\ s = [o EXCEPT !.at = "settling", !.objects = objects]
      /\ db' = db /\ txn' = txn /\ lock' = lock /\ imports' = imports
    BY <1>2 DEF Handle, IInv
<1>4. /\ o.at = "handling" /\ SessionFits(o, View(p)) /\ o \in Sessions
      /\ lock = p /\ View(p) = txn /\ DOMAIN o.objects = {}
    BY ViewFits DEF Handle, At, Stands, View, SessionFits
<1>5. Object(p, i) = Loaded(txn.contacts[i]) /\ i \in DOMAIN txn.contacts
    BY <1>4 DEF Object
<1>6. Object(p, i).edited.contact \in Contact
    BY ObjectOf DEF ContactObject, ContactRow
<1>7. Leaves(Object(p, i).edited.contact, left) /\ Keeps(Object(p, i).edited.contact, left)
    BY <1>2, <1>6, HandledKeeps
<1>8. /\ objects \in Objects /\ ObjectsFit(objects, View(p))
      /\ DOMAIN objects = {i}
      /\ objects[i].loaded = Object(p, i).loaded /\ objects[i].edited.contact = left
    <2>1. LET c == Changed(p, i, left)
          IN  /\ c \in Objects /\ ObjectsFit(c, View(p))
              /\ DOMAIN c = DOMAIN o.objects \cup {i}
              /\ c[i].loaded = Object(p, i).loaded /\ c[i].edited.contact = left
        BY <1>7, ChangedFits
    <2>2. DOMAIN o.objects \cup {i} = {i}
        BY <1>4
    <2> QED BY <2>1, <2>2
<1>9. UpToDate(objects[i], txn.contacts[i])
    BY <1>5, <1>7, <1>8 DEF UpToDate, Keeps, Loaded
<1> HIDE DEF s, o, objects
<1>10. /\ s.at = "settling" /\ s.file = o.file /\ s.row = o.row /\ s.objects = objects
       /\ s \in Sessions
    BY <1>3, <1>4, <1>8 DEF Sessions, Places
<1>11. SessionFits(s, View(p))
    BY <1>4, <1>8, <1>10 DEF SessionFits, RowFits, Importing
<1>12. Stands(p)'
    BY <1>3, <1>4, <1>5, <1>8, <1>9, <1>10 DEF Stands, s
<1> QED BY <1>3, <1>11, <1>12, ReadStep DEF s, IInv

(* A session whose objects were replaced goes elsewhere. *)
Stored(o, objects, place) == [o EXCEPT !.at = place, !.objects = objects]

LEMMA StoredFits ==
    ASSUME NEW o \in Sessions, RowFits(o), NEW objects \in Objects, NEW t,
           ObjectsFit(objects, t), NEW place \in {"closing", "storing"},
           NEW s, s = Stored(o, objects, place)
    PROVE  SessionFits(s, t) /\ s.at = place /\ s.objects = objects
<1>1. /\ s.at = place /\ s.file = o.file /\ s.row = o.row /\ s.objects = objects
      /\ s \in Sessions
    BY DEF Stored, Sessions, Places
<1> QED BY <1>1 DEF SessionFits, RowFits, Importing

LEMMA SettleKeeps ==
    ASSUME IInv, NEW p \in Procs, Settle(p)
    PROVE  IInv'
<1> DEFINE s == session'[p]
           o == session[p]
           objects == Clean(o.objects)
<1>1. /\ session' = [session EXCEPT ![p] = s]
      /\ s = Stored(o, objects, "closing")
      /\ db' = db /\ txn' = Saved(p) /\ lock' = p /\ imports' = imports /\ CanWrite(p)
    BY DEF Settle, IInv, Stored
<1>2. o.at = "settling" /\ o \in Sessions /\ RowFits(o) /\ View(p) = txn
    BY <1>1, ViewFits DEF Settle, At, SessionFits
<1>3. \A i \in DOMAIN o.objects : UpToDate(o.objects[i], View(p).contacts[i])
    BY <1>2, ViewFits DEF Stands
<1>4. /\ TablesFit(Saved(p)) /\ GoesOn(View(p), Saved(p))
      /\ objects \in Objects /\ ObjectsFit(objects, Saved(p))
    BY <1>3, SavedFits
<1> HIDE DEF s, o, objects
<1>5. SessionFits(s, txn') /\ s.at = "closing" /\ s.objects = objects
    BY <1>1, <1>2, <1>4, StoredFits
<1>6. Stands(p)'
    BY <1>1, <1>5 DEF Stands, s
<1> QED BY <1>1, <1>4, <1>5, <1>6, WriteStep DEF s

-----------------------------------------------------------------------------
(* The steps of the bot *)

LEMMA MeetKeeps ==
    ASSUME IInv, NEW p \in Procs, Meet(p)
    PROVE  IInv'
<1> DEFINE s == session'[p]
           o == session[p]
<1>1. PICK i \in DOMAIN View(p).contacts :
        session' = [session EXCEPT ![p].at = "serving", ![p].contact = i,
                                   ![p].objects = WithObject(p, i, Object(p, i).edited)]
    BY DEF Meet
<1> DEFINE objects == WithObject(p, i, Object(p, i).edited)
<1>2. /\ session' = [session EXCEPT ![p] = s]
      /\ s = [o EXCEPT !.at = "serving", !.contact = i, !.objects = objects]
      /\ db' = db /\ txn' = txn /\ lock' = lock /\ imports' = imports
    BY <1>1 DEF Meet, IInv
<1>3. o \in Sessions /\ RowFits(o)
    BY ViewFits DEF SessionFits
<1>4. i \in Nat
    <2>1. View(p).contacts \in Seq(ContactRow)
        BY ViewFits DEF TablesFit, Tables
    <2> QED BY <2>1
<1>5. /\ objects \in Objects /\ ObjectsFit(objects, View(p))
      /\ DOMAIN objects = DOMAIN o.objects \cup {i}
    <2>1. Object(p, i).edited \in ContactRow
        BY ObjectOf DEF ContactObject
    <2>2. Object(p, i).edited.contact.attempts <= Object(p, i).edited.contact.attempts
        BY <2>1 DEF ContactRow, Contact
    <2> QED BY <2>1, <2>2, EditedFits
<1> HIDE DEF s, o, objects
<1>6. /\ s.at = "serving" /\ s.file = o.file /\ s.row = o.row /\ s.objects = objects
      /\ s.contact = i /\ s \in Sessions
    BY <1>2, <1>3, <1>4, <1>5 DEF Sessions, Places
<1>7. SessionFits(s, View(p))
    BY <1>3, <1>5, <1>6 DEF SessionFits, RowFits, Importing
<1>8. Stands(p)'
    BY <1>6 DEF Stands, s
<1> QED BY <1>2, <1>7, <1>8, ReadStep DEF s, IInv

LEMMA ServeKeeps ==
    ASSUME IInv, NEW p \in Procs, Serve(p)
    PROVE  IInv'
<1> DEFINE s == session'[p]
           o == session[p]
<1>1. PICK i : i = o.contact
    OBVIOUS
<1>2. PICK left \in Served(Object(p, i).edited.contact) :
        session' = [session EXCEPT ![p].at = "storing", ![p].objects = Changed(p, i, left)]
    BY <1>1 DEF Serve
<1> DEFINE objects == Changed(p, i, left)
<1>3. /\ session' = [session EXCEPT ![p] = s]
      /\ s = Stored(o, objects, "storing")
      /\ db' = db /\ txn' = txn /\ lock' = lock /\ imports' = imports
    BY <1>2 DEF Serve, IInv, Stored
<1>4. o \in Sessions /\ RowFits(o) /\ i \in DOMAIN View(p).contacts
    <2>1. SessionFits(o, View(p)) /\ o.at = "serving"
        BY ViewFits DEF Serve, At
    <2> QED BY <1>1, <2>1 DEF SessionFits, ObjectsFit, ObjectFits
<1>5. Object(p, i).edited.contact \in Contact
    BY <1>4, ObjectOf DEF ContactObject, ContactRow
<1>6. Leaves(Object(p, i).edited.contact, left)
    BY <1>2, <1>5, ServedKeeps
<1>7. objects \in Objects /\ ObjectsFit(objects, View(p))
    BY <1>4, <1>6, ChangedFits
<1> HIDE DEF s, o, objects
<1>8. SessionFits(s, View(p)) /\ s.at = "storing"
    BY <1>3, <1>4, <1>7, StoredFits
<1>9. Stands(p)'
    BY <1>8 DEF Stands, s
<1> QED BY <1>3, <1>8, <1>9, ReadStep DEF s, IInv

LEMMA BotWritesKeeps ==
    ASSUME IInv, NEW p \in Procs, NEW place \in {"storing", "closing"}, BotWrites(p, place)
    PROVE  IInv'
<1> DEFINE s == session'[p]
<1>1. PICK t : t = View(p)
    OBVIOUS
<1>2. PICK o : o = session[p]
    OBVIOUS
<1>3. PICK S : S = t.served \cup DOMAIN o.objects
    OBVIOUS
<1>4. TablesFit(t) /\ t \in Tables /\ o \in Sessions /\ RowFits(o) /\ ObjectsFit(o.objects, t)
    BY <1>1, <1>2, ViewFits DEF SessionFits, TablesFit
<1>5. o.objects \in Objects /\ S \in SUBSET Nat
    BY <1>3, <1>4, ObjectsType DEF Sessions, Tables
<1>6. /\ session' = [session EXCEPT ![p] = s]
      /\ s = Stored(o, Clean(o.objects), place)
      /\ db' = db /\ lock' = p /\ imports' = imports /\ CanWrite(p)
    BY <1>2 DEF BotWrites, IInv, Stored
<1>7. txn' = FlushedAs(t, o.objects, S)
    BY <1>1, <1>2, <1>3, <1>4 DEF BotWrites, Saved, Flushed, FlushedAs, Tables
<1>8. /\ TablesFit(txn') /\ GoesOn(t, txn')
      /\ Clean(o.objects) \in Objects /\ ObjectsFit(Clean(o.objects), txn')
    BY <1>3, <1>4, <1>5, <1>7, FlushFits
<1> HIDE DEF s
<1>9. SessionFits(s, txn') /\ s.at = place
    BY <1>4, <1>6, <1>8, StoredFits
<1>10. Stands(p)'
    BY <1>6, <1>9 DEF Stands, s
<1> QED BY <1>1, <1>6, <1>8, <1>9, <1>10, WriteStep DEF s

-----------------------------------------------------------------------------
(* The steps of a report *)

LEMMA CountsFit ==
    ASSUME NEW contacts \in Seq(ContactRow)
    PROVE  /\ count_valid(contacts) \in Nat /\ count_invalid(contacts) \in Nat
           /\ Len(contacts) \in Nat
<1>1. IsFiniteSet(DOMAIN contacts)
    <2>1. DOMAIN contacts = 1..Len(contacts) /\ Len(contacts) \in Nat
        OBVIOUS
    <2> QED BY <2>1, FS_Interval
<1>2. ASSUME NEW S \in SUBSET DOMAIN contacts
      PROVE  Cardinality(S) \in Nat
    BY <1>1, FS_Subset, FS_CardinalityType
<1> DEFINE V == {i \in DOMAIN contacts : IsValid(contacts[i])}
           W == {i \in DOMAIN contacts : ~IsValid(contacts[i])}
<1>3. V \in SUBSET DOMAIN contacts /\ W \in SUBSET DOMAIN contacts
    OBVIOUS
<1>4. count_valid(contacts) = Cardinality(V) /\ count_invalid(contacts) = Cardinality(W)
    BY DEF count_valid, count_invalid
<1> HIDE DEF V, W
<1>5. Cardinality(V) \in Nat
    BY <1>2, <1>3
<1>6. Cardinality(W) \in Nat
    BY <1>2, <1>3
<1> QED BY <1>4, <1>5, <1>6

(* A session asks, and notes what it is told. *)
LEMMA AskedFits ==
    ASSUME NEW o \in Sessions, NEW t, SessionFits(o, t), NEW s \in Sessions,
           s.at \in {"latest", "total", "valid", "invalid", "printed"},
           s.file = o.file, s.row = o.row, s.objects = o.objects
    PROVE  SessionFits(s, t)
BY DEF SessionFits, RowFits, Importing

LEMMA StartReportKeeps ==
    ASSUME IInv, NEW p \in Procs, StartReport(p)
    PROVE  IInv'
<1> DEFINE s == session'[p]
           o == session[p]
<1>1. /\ session' = [session EXCEPT ![p] = s] /\ s = [o EXCEPT !.at = "latest"]
      /\ db' = db /\ txn' = txn /\ lock' = lock /\ imports' = imports
    BY DEF StartReport, Move, IInv
<1>2. o \in Sessions /\ SessionFits(o, View(p)) /\ lock # p
    BY ViewFits DEF StartReport, At, Stands
<1> HIDE DEF s, o
<1>3. /\ s.at = "latest" /\ s.file = o.file /\ s.row = o.row /\ s.objects = o.objects
      /\ s \in Sessions
    BY <1>1, <1>2 DEF Sessions, Places
<1>4. SessionFits(s, View(p))
    BY <1>2, <1>3, AskedFits
<1>5. Stands(p)'
    BY <1>1, <1>2, <1>3 DEF Stands, s
<1> QED BY <1>1, <1>4, <1>5, ReadStep DEF s, IInv

LEMMA QueryKeeps ==
    ASSUME IInv, NEW p \in Procs, Query(p)
    PROVE  IInv'
<1> DEFINE s == session'[p]
           o == session[p]
           t == o.tally
<1>1. /\ o \in Sessions /\ SessionFits(o, View(p)) /\ t \in Tally
      /\ o.at \in {"latest", "total", "valid", "invalid"} /\ lock # p
    BY ViewFits DEF Query, At, Stands, Sessions
<1>2. /\ session' = [session EXCEPT ![p] = s]
      /\ \/ s = [o EXCEPT !.at = "total", !.after = Len(db.batches)]
         \/ s = [o EXCEPT !.at = "valid", !.tally = [t EXCEPT !.total = Len(db.contacts)]]
         \/ s = [o EXCEPT !.at = "invalid", !.tally = [t EXCEPT !.valid = count_valid(db.contacts)]]
         \/ s = [o EXCEPT !.at = "printed", !.tally = [t EXCEPT !.invalid = count_invalid(db.contacts)]]
    <2>1. session \in [Procs -> Sessions]
        BY DEF IInv
    <2>2. CASE session' = [session EXCEPT ![p].at = "total", ![p].after = Len(db.batches)]
        BY <2>1, <2>2
    <2>3. CASE session' = [session EXCEPT ![p].at = "valid", ![p].tally.total = Len(db.contacts)]
        BY <2>1, <2>3 DEF Sessions
    <2>4. CASE session' = [session EXCEPT ![p].at = "invalid",
                                          ![p].tally.valid = count_valid(db.contacts)]
        BY <2>1, <2>4 DEF Sessions
    <2>5. CASE session' = [session EXCEPT ![p].at = "printed",
                                          ![p].tally.invalid = count_invalid(db.contacts)]
        BY <2>1, <2>5 DEF Sessions
    <2> QED BY <2>2, <2>3, <2>4, <2>5 DEF Query
<1>3. db' = db /\ txn' = txn /\ lock' = lock /\ imports' = imports
    BY DEF Query
<1>4. /\ Len(db.batches) \in Nat /\ Len(db.contacts) \in Nat
      /\ count_valid(db.contacts) \in Nat /\ count_invalid(db.contacts) \in Nat
    BY CountsFit DEF IInv, TablesFit, Tables
<1>5. ASSUME NEW n \in Nat
      PROVE  /\ [t EXCEPT !.total = n] \in Tally /\ [t EXCEPT !.valid = n] \in Tally
             /\ [t EXCEPT !.invalid = n] \in Tally
    BY <1>1 DEF Tally
<1> HIDE DEF s, o, t
<1>6. /\ s.at \in {"total", "valid", "invalid", "printed"}
      /\ s.file = o.file /\ s.row = o.row /\ s.objects = o.objects
      /\ s \in Sessions
    BY <1>1, <1>2, <1>4, <1>5 DEF Sessions, Places
<1>7. SessionFits(s, View(p))
    BY <1>1, <1>6, AskedFits
<1>8. Stands(p)'
    BY <1>1, <1>3, <1>6 DEF Stands, s
<1> QED BY <1>2, <1>3, <1>7, <1>8, ReadStep DEF s, IInv

LEMMA EndReportKeeps ==
    ASSUME IInv, NEW p \in Procs, EndReport(p)
    PROVE  IInv'
<1>1. /\ session' = [session EXCEPT ![p] = NoSession]
      /\ db' = db /\ txn' = txn /\ lock' = lock /\ imports' = imports
    BY DEF EndReport
<1>2. session'[p] = NoSession /\ session' = [session EXCEPT ![p] = session'[p]]
    BY <1>1 DEF IInv
<1>3. lock # p
    BY ViewFits DEF EndReport, At, Stands
<1>4. SessionFits(session'[p], View(p))
    BY <1>2, NoSessionFits
<1>5. Stands(p)'
    <2>1. NoSession.at = "idle"
        BY DEF NoSession
    <2> QED BY <1>1, <1>2, <1>3, <2>1 DEF Stands
<1> QED BY <1>1, <1>2, <1>4, <1>5, ReadStep DEF IInv

-----------------------------------------------------------------------------
(* The inductive invariant *)

LEMMA InitFits == Init => IInv
<1> SUFFICES ASSUME Init PROVE IInv
    OBVIOUS
<1>1. db = NoTables /\ txn = NoTables /\ lock = NoProc /\ imports = 0
    BY DEF Init
<1>2. TablesFit(NoTables)
    <2>1. NoTables \in Tables
        BY DEF NoTables, Tables
    <2> QED BY <2>1 DEF TablesFit, Numbered, Unique, AttemptsFit, NoTables
<1>3. session \in [Procs -> Sessions] /\ \A p \in Procs : session[p] = NoSession
    BY NoSessionFits DEF Init, SessionFits
<1>4. ASSUME NEW p \in Procs
      PROVE  SessionFits(session[p], View(p)) /\ Stands(p)
    <2>1. NoSession.at = "idle"
        BY DEF NoSession
    <2>2. lock # p
        BY <1>1, ContactSessionsAssumption
    <2>3. Stands(p)
        BY <1>3, <2>1, <2>2 DEF Stands
    <2> QED BY <1>3, <2>3, NoSessionFits
<1> QED BY <1>1, <1>2, <1>3, <1>4, GoesOnItself DEF IInv

LEMMA NextKeeps == IInv /\ [Next]_vars => IInv'
<1> SUFFICES ASSUME IInv, [Next]_vars PROVE IInv'
    OBVIOUS
<1>1. CASE UNCHANGED vars
    BY <1>1 DEF vars, IInv, SessionFits, Stands, View
<1>2. ASSUME NEW p \in Procs, Import(p) PROVE IInv'
    BY <1>2, StartImportKeeps, SkipDuplicateKeeps, UpdateExistingKeeps, FindNoneKeeps,
       InsertKeeps, FinishImportKeeps, RollBackKeeps DEF Import, Refused
<1>3. ASSUME NEW p \in Procs, Change(p) PROVE IInv'
    BY <1>3, ClaimKeeps, HandleKeeps, SettleKeeps, MeetKeeps, ServeKeeps, BotWritesKeeps
       DEF Change, AddFollowUp, StoreOffset
<1>4. ASSUME NEW p \in Procs, Report(p) PROVE IInv'
    BY <1>4, StartReportKeeps, QueryKeeps, EndReportKeeps DEF Report
<1> QED BY <1>1, <1>2, <1>3, <1>4, CommitKeeps, RollBackKeeps DEF Next

LEMMA Invariant == Spec => []IInv
BY InitFits, NextKeeps, PTL DEF Spec

-----------------------------------------------------------------------------
(* What the invariant says of the committed tables *)

(* Every step leaves the tables, the sessions and the lock what they are   *)
(* meant to be: no column, count or place gets a value that nobody wrote.  *)
THEOREM TypeCorrect == Spec => []TypeOK
<1>1. ASSUME NEW s \in Sessions, RowFits(s)
      PROVE  SessionOK(s)
    BY <1>1, ObjectsType DEF Sessions, RowFits, SessionOK, Fingerprints
<1>2. IInv => TypeOK
    BY <1>1, ViewFits DEF IInv, TypeOK, TablesFit, SessionFits
<1> QED BY <1>2, Invariant, PTL

(* No two contacts get one number: of any number of imports that look a    *)
(* number up, find none and insert it, the unique index lets one through.  *)
THEOREM NumbersStayUnique == Spec => []UniqueNumbers
<1>1. IInv => UniqueNumbers
    BY DEF IInv, TablesFit, Unique, UniqueNumbers, IsValid
<1> QED BY <1>1, Invariant, PTL

(* An import that has committed has left a contact for each of its rows,   *)
(* and none is lost to what others write.                                  *)
THEOREM ImportsStayWhole == Spec => []ImportsAreWhole
<1>1. IInv => ImportsAreWhole
    BY DEF IInv, TablesFit, BatchFits, Has, ImportsAreWhole, get_by_fingerprint
<1> QED BY <1>1, Invariant, PTL

(* The counts of a batch add up to its rows, wherever they were skipped,   *)
(* updated or inserted.                                                    *)
THEOREM TalliesStayRight == Spec => []TalliesAddUp
<1>1. IInv => TalliesAddUp
    BY DEF IInv, TablesFit, BatchFits, TalliesAddUp
<1> QED BY <1>1, Invariant, PTL

(* A file that was imported before creates nothing.                        *)
THEOREM ImportsRepeat == Spec => []ReimportCreatesNothing
<1>1. IInv => ReimportCreatesNothing
    BY DEF IInv, TablesFit, BatchFits, ReimportCreatesNothing
<1> QED BY <1>1, Invariant, PTL

(* No attempt is overwritten but by the bot, and none is made up.          *)
THEOREM AttemptsStayCounted == Spec => []AttemptsAreCounted
<1>1. IInv => AttemptsAreCounted
    BY DEF IInv, TablesFit, AttemptsFit, AttemptsAreCounted
<1> QED BY <1>1, Invariant, PTL

(* A commit takes no success back, unless the bot wrote to the contact.    *)
THEOREM SuccessStays == Spec => SuccessLasts
<1>1. ASSUME IInv, [Next]_vars
      PROVE  [\A i \in DOMAIN db.contacts \ db'.served :
                db.contacts[i].contact.direct = "SUCCESS"
                    => db'.contacts[i].contact.direct = "SUCCESS"]_vars
    <2>1. db' = db \/ db' = txn
        BY <1>1 DEF Next, Import, StartImport, SkipDuplicate, UpdateExisting, FindNone, Insert,
                    Refused, FinishImport, Change, Claim, Handle, Settle, Meet, Serve, AddFollowUp,
                    StoreOffset, BotWrites, Report, StartReport, Query, EndReport, Commit, RollBack,
                    vars
    <2>2. GoesOn(db, txn)
        BY <1>1 DEF IInv
    <2> QED BY <2>1, <2>2 DEF GoesOn
<1> QED BY <1>1, Invariant, PTL DEF Spec, SuccessLasts
=============================================================================
