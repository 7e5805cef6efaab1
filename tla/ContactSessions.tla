--------------------------- MODULE ContactSessions ---------------------------
(***************************************************************************)
(* Processes that share the contacts: imports (ImportService.import_file), *)
(* iterations of a worker (JobWorker.process_one), updates of the bot      *)
(* (BotRuntime.process_inbound), and reports (ReportingService.summarize). *)
(*                                                                         *)
(* Each has a session: objects it has loaded and changed, which a flush    *)
(* writes to the tables.  The first flush takes SQLite's write lock, which *)
(* is kept to the end of the transaction; reading needs no lock and shows  *)
(* what is committed.  autoflush is off.  The worker claims a job, which   *)
(* is a flush, before its handler loads a contact; the bot loads it, waits *)
(* for the messenger, and flushes in the end.  Which jobs there are is     *)
(* left open: any handler may run on any valid contact.                    *)
(***************************************************************************)
EXTENDS ContactTable, Functions

CONSTANTS
    Procs,        \* processes
    Roles,        \* what they may do: "import", "work", "bot", "report"
    Files,        \* the files that are imported: sequences of rows
    NoProc,       \* nobody holds the lock
    MaxImports,   \* bound: how many imports are started
    MaxAttempts,  \* bound: attempts on a contact
    BotGroups     \* bound: whether the bot's settings may have a GROUP_ID

ASSUME ContactSessionsAssumption ==
    /\ Roles \subseteq {"import", "work", "bot", "report"}
    /\ NoProc \notin Procs
    /\ \A file \in Files : file \in Seq(FileRow)
    /\ MaxImports \in Nat /\ MaxAttempts \in Nat
    /\ BotGroups \subseteq BOOLEAN

VARIABLES
    db,        \* the committed tables, with a history of who wrote them
    txn,       \* the tables as the holder of the lock sees them
    lock,      \* who that is
    session,   \* what each process is doing
    imports    \* history: how many imports were started

vars == <<db, txn, lock, session, imports>>

(* Where a process stands: in an import, a worker's iteration, the bot's   *)
(* handling of an update, before a commit, or at a query of a report.      *)
Places == {"idle", "reading", "inserting", "handling", "settling", "serving", "storing",
           "closing", "latest", "total", "valid", "invalid", "printed"}

(* file and row: the import's rows, and the one it is at; tally: its       *)
(* counts, or those of a report; after: how many batches there were when   *)
(* an import began, or the latest one a report found; contact: the one     *)
(* that the bot is handling.                                               *)
NoSession == [at |-> "idle", file |-> <<>>, row |-> 1, seen |-> {}, tally |-> NoTally,
              after |-> 0, contact |-> 0, objects |-> <<>>]

(* History: ran, how many attempts on a contact were written; served, the  *)
(* contacts that the bot has written.                                      *)
NoTables == [contacts |-> <<>>, batches |-> <<>>, ran |-> <<>>, served |-> {}]

Init ==
    /\ db = NoTables /\ txn = NoTables
    /\ lock = NoProc
    /\ session = [p \in Procs |-> NoSession]
    /\ imports = 0

-----------------------------------------------------------------------------
(* Sessions *)

At(p, place) == session[p].at = place

View(p) == IF lock = p THEN txn ELSE db

CanWrite(p) == lock \in {NoProc, p}

(* The object of contact i: the one the session has already, however old,  *)
(* or the row it sees now.                                                 *)
Object(p, i) ==
    IF i \in DOMAIN session[p].objects THEN session[p].objects[i]
                                       ELSE Loaded(View(p).contacts[i])

WithObject(p, i, edited) ==
    [k \in DOMAIN session[p].objects \cup {i} |->
        IF k = i THEN [Object(p, i) EXCEPT !.edited = edited] ELSE session[p].objects[k]]

(* The tables after the objects of a session were written *)
Flushed(tables, objects) ==
    [tables EXCEPT
        !.contacts = [i \in DOMAIN @ |->
            IF i \in DOMAIN objects THEN Written(@[i], objects[i]) ELSE @[i]],
        !.ran = [i \in DOMAIN @ |->
            IF i \in DOMAIN objects
            THEN @[i] + objects[i].edited.contact.attempts - objects[i].loaded.contact.attempts
            ELSE @[i]]]

Saved(p) == Flushed(View(p), session[p].objects)

Clean(objects) == [i \in DOMAIN objects |-> Loaded(objects[i].edited)]

Move(p, place) == session' = [session EXCEPT ![p].at = place]

(* What was flushed is not taken back. *)
Fault_RollBack(p) ==
    /\ ~At(p, "idle")
    /\ session' = [session EXCEPT ![p] = NoSession]
    /\ lock' = IF lock = p THEN NoProc ELSE lock
    /\ db' = IF lock = p THEN txn ELSE db
    /\ UNCHANGED <<txn, imports>>

(* Whatever p has not committed is lost: Ctrl+C, an exception that nobody  *)
(* catches, or the busy timeout of a session that waits for the lock.      *)
RollBack(p) ==
    /\ ~At(p, "idle")
    /\ session' = [session EXCEPT ![p] = NoSession]
    /\ IF lock = p THEN lock' = NoProc /\ txn' = db ELSE UNCHANGED <<lock, txn>>
    /\ UNCHANGED <<db, imports>>

Commit(p) ==
    /\ At(p, "closing")
    /\ db' = txn
    /\ lock' = NoProc
    /\ session' = [session EXCEPT ![p] = NoSession]
    /\ UNCHANGED <<txn, imports>>

-----------------------------------------------------------------------------
(* An import *)

StartImport(p) ==
    /\ "import" \in Roles /\ At(p, "idle") /\ imports < MaxImports
    /\ \E file \in Files :
        session' = [session EXCEPT ![p] =
            [NoSession EXCEPT !.at = "reading", !.file = file,
                              !.tally.total = Len(file), !.after = Len(db.batches)]]
    /\ imports' = imports + 1
    /\ UNCHANGED <<db, txn, lock>>

Row(p) == session[p].file[session[p].row]

HasRow(p) == At(p, "reading") /\ session[p].row <= Len(session[p].file)

(* A fingerprint that the file had before is not looked at again. *)
SkipDuplicate(p) ==
    /\ HasRow(p)
    /\ FingerprintOf(Row(p)) \in session[p].seen
    /\ session' = [session EXCEPT ![p].row = @ + 1, ![p].tally = CountedDuplicate(@)]
    /\ UNCHANGED <<db, txn, lock, imports>>

UpdateExisting(p) ==
    /\ HasRow(p)
    /\ FingerprintOf(Row(p)) \notin session[p].seen
    /\ \E i \in Existing(View(p).contacts, Row(p)) :
        session' = [session EXCEPT
            ![p].row = @ + 1,
            ![p].seen = @ \cup {FingerprintOf(Row(p))},
            ![p].tally = CountedUpdate(Counted(@, Row(p))),
            ![p].objects = WithObject(p, i, Updated(Object(p, i).edited, Row(p)))]
    /\ UNCHANGED <<db, txn, lock, imports>>

FindNone(p) ==
    /\ HasRow(p)
    /\ FingerprintOf(Row(p)) \notin session[p].seen
    /\ Existing(View(p).contacts, Row(p)) = {}
    /\ session' = [session EXCEPT ![p].at = "inserting",
                                  ![p].seen = @ \cup {FingerprintOf(Row(p))},
                                  ![p].tally = Counted(@, Row(p))]
    /\ UNCHANGED <<db, txn, lock, imports>>

(* contacts.add: the flush writes what was updated before, too. *)
Insert(p) ==
    /\ At(p, "inserting") /\ CanWrite(p)
    /\ ~Conflicts(Saved(p).contacts, NewRow(Row(p)))
    /\ lock' = p
    /\ txn' = [Saved(p) EXCEPT !.contacts = Append(@, NewRow(Row(p))), !.ran = Append(@, 0)]
    /\ session' = [session EXCEPT ![p].at = "reading", ![p].row = @ + 1,
                                  ![p].tally = CountedNew(@), ![p].objects = Clean(@)]
    /\ UNCHANGED <<db, imports>>

(* IntegrityError: somebody else has committed the contact since the look. *)
Refused(p) ==
    /\ At(p, "inserting") /\ CanWrite(p)
    /\ Conflicts(Saved(p).contacts, NewRow(Row(p)))
    /\ RollBack(p)

Batch(p) == [tally |-> session[p].tally, file |-> session[p].file, after |-> session[p].after]

FinishImport(p) ==
    /\ At(p, "reading") /\ session[p].row > Len(session[p].file)
    /\ CanWrite(p)
    /\ lock' = p
    /\ txn' = [Saved(p) EXCEPT !.batches = Append(@, Batch(p))]
    /\ session' = [session EXCEPT ![p].at = "closing", ![p].objects = Clean(@)]
    /\ UNCHANGED <<db, imports>>

-----------------------------------------------------------------------------
(* The worker and the bot *)

(* What a job's handler leaves of a contact that it changes, whatever is   *)
(* answered, and whether or not there is a group                           *)
Handled(r) ==
    LET Checks  == {process_contact(r, a) : a \in {"HAS_ACCOUNT", "NO_ACCOUNT", "error"}}
        Invites == {process_direct_invite(r, a, hasGroup, "auto") :
                        a \in {"SUCCESS", "FAILED", "flood"}, hasGroup \in BOOLEAN}
        Links   == {process_invite_link(r, a) : a \in {"SENT", "FAILED"}}
        Joins   == {process_join_check(r, a) : a \in JoinStatus}
    IN  {out.contact : out \in Checks \cup Invites \cup Links \cup Joins}

Changed(p, i, contact) == WithObject(p, i, [Object(p, i).edited EXCEPT !.contact = contact])

(* claim_due does not flush. *)
Fault_Claim(p) ==
    /\ "work" \in Roles /\ At(p, "idle") /\ CanWrite(p)
    /\ Move(p, "handling")
    /\ UNCHANGED <<db, txn, lock, imports>>

(* claim_due's flush *)
Claim(p) ==
    /\ "work" \in Roles /\ At(p, "idle") /\ CanWrite(p)
    /\ lock' = p /\ txn' = db
    /\ Move(p, "handling")
    /\ UNCHANGED <<db, imports>>

(* The handler loads the contact and changes it. *)
Handle(p) ==
    /\ At(p, "handling")
    /\ \E i \in DOMAIN View(p).contacts :
        /\ IsValid(View(p).contacts[i])
        /\ View(p).contacts[i].contact.attempts < MaxAttempts
        /\ \E left \in Handled(Object(p, i).edited.contact) :
            session' = [session EXCEPT ![p].at = "settling", ![p].objects = Changed(p, i, left)]
    /\ UNCHANGED <<db, txn, lock, imports>>

(* mark_success or mark_failure *)
Settle(p) ==
    /\ At(p, "settling") /\ CanWrite(p)
    /\ lock' = p
    /\ txn' = Saved(p)
    /\ session' = [session EXCEPT ![p].at = "closing", ![p].objects = Clean(@)]
    /\ UNCHANGED <<db, imports>>

(* What the bot leaves of a contact that writes /start or shares its card, *)
(* where nothing raises: an exception would be a RollBack.                 *)
Invited(r) ==
    LET outs == {process_direct_invite(r, a, hasGroup, "auto") :
                    a \in {"SUCCESS", "FAILED"}, hasGroup \in BotGroups}
    IN  {out.contact : out \in {o \in outs : o.ends = "done"}}

Served(r) ==
    LET met == Invited(shared_contact(r))
    IN  {s \in Invited(r) : r.known}
            \cup {s \in met : s.direct = "SUCCESS"}
            \cup {process_invite_link(s, a).contact :
                    s \in {s \in met : s.direct # "SUCCESS"}, a \in {"SENT", "FAILED"}}

(* The bot, at the first update of a batch or the next, loads a contact ... *)
Meet(p) ==
    /\ "bot" \in Roles
    /\ At(p, "idle") \/ At(p, "storing")
    /\ \E i \in DOMAIN View(p).contacts :
        /\ IsValid(View(p).contacts[i])
        /\ Object(p, i).edited.contact.attempts < MaxAttempts
        /\ session' = [session EXCEPT ![p].at = "serving", ![p].contact = i,
                                      ![p].objects = WithObject(p, i, Object(p, i).edited)]
    /\ UNCHANGED <<db, txn, lock, imports>>

(* ... and changes it when the messenger has answered. *)
Serve(p) ==
    /\ At(p, "serving")
    /\ LET i == session[p].contact
       IN  \E left \in Served(Object(p, i).edited.contact) :
            session' = [session EXCEPT ![p].at = "storing", ![p].objects = Changed(p, i, left)]
    /\ UNCHANGED <<db, txn, lock, imports>>

(* Both flushes of the bot: a follow-up job that is not in the queue yet   *)
(* is added (_enqueue_safe), or the offset is stored in the end.           *)
BotWrites(p, place) ==
    /\ At(p, "storing") /\ CanWrite(p)
    /\ lock' = p
    /\ txn' = [Saved(p) EXCEPT !.served = @ \cup DOMAIN session[p].objects]
    /\ session' = [session EXCEPT ![p].at = place, ![p].objects = Clean(@)]
    /\ UNCHANGED <<db, imports>>

AddFollowUp(p) ==
    /\ \E i \in DOMAIN session[p].objects :
            session[p].objects[i].edited # session[p].objects[i].loaded
    /\ BotWrites(p, "storing")

StoreOffset(p) == BotWrites(p, "closing")

-----------------------------------------------------------------------------
(* A report: one query after the other, each on what is committed then *)

StartReport(p) ==
    /\ "report" \in Roles /\ At(p, "idle")
    /\ Move(p, "latest")
    /\ UNCHANGED <<db, txn, lock, imports>>

(* The contacts are counted last. *)
Fault_Query(p) ==
    /\ \/ At(p, "latest") /\ session' = [session EXCEPT
                ![p].at = "valid", ![p].after = Len(db.batches)]
       \/ At(p, "valid") /\ session' = [session EXCEPT
                ![p].at = "invalid", ![p].tally.valid = count_valid(db.contacts)]
       \/ At(p, "invalid") /\ session' = [session EXCEPT
                ![p].at = "total", ![p].tally.invalid = count_invalid(db.contacts)]
       \/ At(p, "total") /\ session' = [session EXCEPT
                ![p].at = "printed", ![p].tally.total = Len(db.contacts)]
    /\ UNCHANGED <<db, txn, lock, imports>>

Query(p) ==
    /\ \/ At(p, "latest") /\ session' = [session EXCEPT
                ![p].at = "total", ![p].after = Len(db.batches)]
       \/ At(p, "total") /\ session' = [session EXCEPT
                ![p].at = "valid", ![p].tally.total = Len(db.contacts)]
       \/ At(p, "valid") /\ session' = [session EXCEPT
                ![p].at = "invalid", ![p].tally.valid = count_valid(db.contacts)]
       \/ At(p, "invalid") /\ session' = [session EXCEPT
                ![p].at = "printed", ![p].tally.invalid = count_invalid(db.contacts)]
    /\ UNCHANGED <<db, txn, lock, imports>>

(* Its session_scope commits nothing. *)
EndReport(p) ==
    /\ At(p, "printed")
    /\ session' = [session EXCEPT ![p] = NoSession]
    /\ UNCHANGED <<db, txn, lock, imports>>

-----------------------------------------------------------------------------

Import(p) ==
    \/ StartImport(p) \/ SkipDuplicate(p) \/ UpdateExisting(p) \/ FindNone(p)
    \/ Insert(p) \/ Refused(p) \/ FinishImport(p)

Change(p) == Claim(p) \/ Handle(p) \/ Settle(p) \/ Meet(p) \/ Serve(p) \/ AddFollowUp(p) \/ StoreOffset(p)

Report(p) == StartReport(p) \/ Query(p) \/ EndReport(p)

Next == \E p \in Procs : Import(p) \/ Change(p) \/ Report(p) \/ Commit(p) \/ RollBack(p)

Spec == Init /\ [][Next]_vars

-----------------------------------------------------------------------------
(* Type invariant *)

FileRows == UNION {{file[k] : k \in DOMAIN file} : file \in Files}

(* No contact has an empty name. *)
ContactRow == [name : ({row.name : row \in FileRows} \cup {NoName}) \ {<<>>},
               phone : {row.phone : row \in FileRows},
               number : {normalize_phone(row.phone) : row \in FileRows},
               fingerprint : {FingerprintOf(row) : row \in FileRows},
               contact : Contact]

ContactObject == [loaded : ContactRow, edited : ContactRow]

Tables == [contacts : Seq(ContactRow),
           batches : Seq([tally : Tally, file : Files, after : Nat]),
           ran : Seq(Nat), served : SUBSET Nat]

SessionOK(s) ==
    /\ s.at \in Places
    /\ s.file \in Files \cup {<<>>} /\ s.row \in 1..(Len(s.file) + 1)
    /\ s.seen \subseteq {FingerprintOf(row) : row \in FileRows}
    /\ s.tally \in Tally /\ s.after \in Nat /\ s.contact \in Nat
    /\ \A i \in DOMAIN s.objects : s.objects[i] \in ContactObject

TypeOK ==
    /\ db \in Tables /\ txn \in Tables
    /\ lock \in Procs \cup {NoProc}
    /\ \A p \in Procs : SessionOK(session[p])
    /\ imports \in Nat

-----------------------------------------------------------------------------
(* Properties *)

(* The indices of database/models.py: a number has one contact, whoever    *)
(* looks it up, however many imports run at a time.                        *)
UniqueNumbers ==
    \A i, j \in DOMAIN db.contacts :
        IsValid(db.contacts[i]) /\ db.contacts[i].number = db.contacts[j].number => i = j

(* import_file keeps the columns and the fingerprint of a contact in step, *)
(* though updates change the former and never the latter: by which the     *)
(* next import finds it.  A name that was missing is missing in the        *)
(* fingerprint.                                                            *)
FingerprintsAgree ==
    \A i \in DOMAIN db.contacts :
        LET c == db.contacts[i]
        IN  c.fingerprint \in {fingerprint_for(name, c.phone, c.number) :
                                name \in {c.name} \cup IF c.name = NoName THEN {<<>>} ELSE {}}

(* An import is committed as a whole: each row of its file is a contact    *)
(* from then on, though rows are looked up, inserted and skipped one by    *)
(* one and others import at the same time.                                 *)
ImportsAreWhole ==
    \A b \in DOMAIN db.batches : \A k \in DOMAIN db.batches[b].file :
        get_by_fingerprint(db.contacts, FingerprintOf(db.batches[b].file[k])) # {}

(* How many contacts the first n imports on record have created *)
Created(batches, n) ==
    SumFunctionOnSet([b \in DOMAIN batches |-> batches[b].tally.created], 1..n)

(* Each contact was created by one of the imports on record, and no import *)
(* that was rolled back has left any.                                      *)
ContactsAreAccountedFor == Len(db.contacts) = Created(db.batches, Len(db.batches))

(* What an import reports adds up: a row is created or a duplicate, and    *)
(* valid or invalid or a duplicate within the file.                        *)
TalliesAddUp ==
    \A b \in DOMAIN db.batches :
        LET t == db.batches[b].tally
        IN  /\ t.total = t.created + t.duplicate
            /\ t.valid + t.invalid = t.created + t.updated

(* cli.py:88: an import is repeatable.  A file that was imported before,   *)
(* by a process that had committed, creates no contact.                    *)
ReimportCreatesNothing ==
    \A b \in DOMAIN db.batches : \A a \in 1..db.batches[b].after :
        db.batches[a].file = db.batches[b].file => db.batches[b].tally.created = 0

(* A report reads while others commit: it misses none of the contacts it   *)
(* counted, and counts those of the import whose duplicates it shows.      *)
ReportAddsUp ==
    \A p \in Procs : At(p, "printed") =>
        LET t == session[p].tally
        IN  /\ t.total <= t.valid + t.invalid
            /\ t.total >= Created(db.batches, session[p].after)

(* attempt_count is loaded, added to and written back: with imports and    *)
(* workers in any number, none of the attempts is overwritten; only the    *)
(* bot overwrites some, and none is ever made up.                          *)
AttemptsAreCounted ==
    \A i \in DOMAIN db.contacts :
        /\ db.contacts[i].contact.attempts <= db.ran[i]
        /\ i \notin db.served => db.contacts[i].contact.attempts = db.ran[i]

(* An invitation that succeeded stays recorded as such through all that    *)
(* imports and workers write to its contact at the same time.              *)
SuccessLasts ==
    [][\A i \in DOMAIN db.contacts \ db'.served :
        db.contacts[i].contact.direct = "SUCCESS" => db'.contacts[i].contact.direct = "SUCCESS"]_vars

-----------------------------------------------------------------------------
(* What the code does not keep *)

(* tests/test_status.py:34: an invitation that succeeded is never recorded *)
(* as anything else.                                                       *)
SuccessIsTerminal ==
    [][\A i \in DOMAIN db.contacts :
        db.contacts[i].contact.direct = "SUCCESS" => db'.contacts[i].contact.direct = "SUCCESS"]_vars
=============================================================================
