------------------------------ MODULE BotRuntime ------------------------------
(***************************************************************************)
(* The bot's inbound messages (services/bot_runtime.py) read over the Bale *)
(* Bot API (adapters/http.py), by run-bot or sync-bot-updates.             *)
(*                                                                         *)
(* One iteration is one transaction: the updates from the stored offset on *)
(* are fetched, handled one after the other, and committed together with   *)
(* the next offset.  An exception a handler lets through rolls all of it   *)
(* back and ends the command, to be started again by hand; what the        *)
(* messenger did in the meantime stays done.  run-bot's worker goes on in  *)
(* the same transaction with the jobs that the handlers enqueued.          *)
(***************************************************************************)
EXTENDS ContactHandlers, Sequences

CONSTANTS
    Contacts,       \* contacts of the table; they have accounts
    Stranger,       \* somebody who is not in the table
    Environments,   \* [group, link, auto, strategy]: what .env may say
    MaxUpdates,     \* bound: updates that arrive
    MaxOffset,      \* bound: polls stop at this offset
    MaxAborts       \* bound: transactions rolled back

People == Contacts \cup {Stranger}

ASSUME BotRuntimeAssumption ==
    /\ Stranger \notin Contacts
    /\ Environments \subseteq [group : BOOLEAN, link : BOOLEAN, auto : BOOLEAN,
                                strategy : {"auto", "direct", "link"}]
    /\ MaxUpdates \in Nat /\ MaxOffset \in Nat /\ MaxAborts \in Nat

(* A /start, a shared contact, and everything else: other texts, and       *)
(* messages in groups.                                                     *)
Update == [kind : {"start", "contact", "other"}, from : People]

VARIABLES
    env,        \* the settings: whether GROUP_ID, INVITE_LINK and AUTO_INVITE_ON_START
                \* are set, and INVITE_STRATEGY
    db,         \* committed: contacts, waiting follow-up jobs, cached link
    offset,     \* committed: app_state["bale_get_updates_offset"], 0 when unset
    inbox,      \* the messenger: the updates so far, the n-th with update_id n
    pc,         \* "idle" between two transactions, or "handling"
    batch,      \* the updates fetched and not yet handled
    next,       \* next_offset
    session,    \* the transaction's db, and the contacts a query by id finds
    members,    \* the world: people who are in the group now
    been,       \* history: people who ever were
    greeted,    \* history: replies to the n-th update
    taken,      \* history: updates handled in this transaction ...
    handled,    \* ... and in those committed
    aborts      \* history: transactions rolled back

progress == <<pc, batch, next, session, taken>>
stored   == <<db, offset, handled>>
world    == <<members, been, greeted>>
vars     == <<env, progress, stored, world, inbox, aborts>>

Found(contact) == {c \in Contacts : contact[c].known}

Stored(s) == [contact |-> s.contact, jobs |-> s.jobs, link |-> s.link]

Opened(d) == [contact |-> d.contact, jobs |-> d.jobs, link |-> d.link, found |-> Found(d.contact)]

Init ==
    /\ env \in Environments
    /\ db = [contact |-> [c \in Contacts |-> NewContact], jobs |-> {}, link |-> FALSE]
    /\ offset = 0 /\ inbox = <<>>
    /\ pc = "idle" /\ batch = <<>> /\ next = 0 /\ session = Opened(db) /\ taken = {}
    /\ members \in SUBSET People /\ been = members
    /\ greeted = [n \in 1 .. MaxUpdates |-> 0]
    /\ handled = {} /\ aborts = 0

-----------------------------------------------------------------------------
(* What the handlers do to the session *)

(* A flush: queries find what was changed before it (autoflush is off).    *)
Flushed(s) == [s EXCEPT !.found = Found(s.contact)]

(* The contact and the follow-up jobs of an outcome; adding a job flushes. *)
Took(s, c, out) ==
    LET left == [s EXCEPT !.contact[c] = out.contact]
        jobs == {<<t, c>> : t \in out.follow} \ s.jobs
    IN  IF jobs = {} THEN left ELSE Flushed([left EXCEPT !.jobs = @ \cup jobs])

(* ensure_invite_link: the sessions it may return with, and those in which *)
(* it raises.                                                              *)
LinkFound(s) ==
    CASE env.link \/ s.link               -> {s}
      [] ~env.link /\ ~s.link /\ env.group  -> {Flushed([s EXCEPT !.link = TRUE])}
      [] ~env.link /\ ~s.link /\ ~env.group -> {}

LinkRaises(s) == ~env.link /\ ~s.link

(* The sender's id is not stored. *)
Fault_Matched(s, c) ==
    [s EXCEPT !.contact[c] = record_attempt(set_bale_account_status(@, "HAS_ACCOUNT"))]

(* The session, once it has matched a shared contact *)
Matched(s, c) ==
    [s EXCEPT !.contact[c] = shared_contact(@)]

-----------------------------------------------------------------------------
(* The messenger's answers, and whether it did what it was asked to *)

InviteAnswers(p) ==
    {Reply("FAILED", FALSE), Reply("timeout", FALSE)}
        \cup (IF p \in members THEN {Reply("SUCCESS", FALSE)}
                               ELSE {Reply("SUCCESS", TRUE), Reply("timeout", TRUE)})

(* Without a group nobody is asked, and without AUTO_INVITE_ON_START       *)
(* nobody who has no record.                                               *)
Invitations(p) == IF env.group THEN InviteAnswers(p) ELSE {Reply("SKIPPED", FALSE)}

StrangersInvitations(p) ==
    IF env.auto THEN Invitations(p) ELSE {Reply("SKIPPED", FALSE)}

Added(p, a) ==
    /\ members' = IF a.done THEN members \cup {p} ELSE members
    /\ been' = IF a.done THEN been \cup {p} ELSE been

SendAnswers == {"SENT", "FAILED", "timeout"}

-----------------------------------------------------------------------------
(* One iteration *)

(* The id of the last update is taken for the next offset. *)
Fault_next_offset(ns) ==
    IF ns = {} THEN offset ELSE CHOOSE n \in ns : \A m \in ns : m <= n

(* fetch_inbound_messages: the greatest of the ids and the offset it asked *)
(* for, plus one.                                                          *)
next_offset(ns) ==
    CASE offset = 0 /\ ns = {} -> 0
      [] ns # {}               -> (CHOOSE n \in ns : \A m \in ns : m <= n) + 1
      [] offset > 0 /\ ns = {} -> offset + 1

(* getUpdates gives the updates from the offset on, in order.              *)
Fetch ==
    /\ pc = "idle" /\ offset <= MaxOffset
    /\ LET first == IF offset = 0 THEN 1 ELSE offset
           size  == IF first <= Len(inbox) THEN Len(inbox) + 1 - first ELSE 0
       IN  /\ batch' = [i \in 1 .. size |-> first + i - 1]
           /\ next' = next_offset(first .. Len(inbox))
    /\ pc' = "handling" /\ session' = Opened(db) /\ taken' = {}
    /\ UNCHANGED <<env, stored, world, inbox, aborts>>

Item == inbox[Head(batch)]

Handling(kind) == pc = "handling" /\ batch # <<>> /\ Item.kind = kind

(* _handle returns. *)
Return(s) ==
    /\ session' = s
    /\ batch' = Tail(batch) /\ taken' = taken \cup {Head(batch)}
    /\ UNCHANGED <<env, pc, next, stored, inbox, aborts>>

(* An update whose handling raises is passed over. *)
Fault_RollBack ==
    /\ aborts < MaxAborts /\ batch # <<>>
    /\ aborts' = aborts + 1
    /\ batch' = Tail(batch) /\ taken' = taken \cup {Head(batch)}
    /\ UNCHANGED <<env, pc, next, session, stored, inbox>>

(* session_scope's rollback and the command's end.  It is started again,   *)
(* possibly with other settings.                                           *)
RollBack ==
    /\ aborts < MaxAborts
    /\ aborts' = aborts + 1
    /\ pc' = "idle" /\ batch' = <<>> /\ next' = 0 /\ session' = Opened(db) /\ taken' = {}
    /\ env' \in Environments
    /\ UNCHANGED <<stored, inbox>>

(* A handler that ends in some way, with the session it leaves *)
End(ends, s) == IF ends = "done" THEN Return(s) ELSE RollBack

Greet == greeted' = [greeted EXCEPT ![Head(batch)] = @ + 1]

(* _handle_start: a link that cannot be had is left out of the reply.  A   *)
(* person the table knows by id is invited as that contact, ...            *)
HandleStart ==
    /\ Handling("start")
    /\ \E s \in LinkFound(session) \cup (IF LinkRaises(session) THEN {session} ELSE {}) :
        /\ Item.from \in s.found
        /\ \E a \in Invitations(Item.from) :
            LET out == process_direct_invite(s.contact[Item.from], a.answer, env.group, env.strategy)
            IN  End(out.ends, Took(s, Item.from, out)) /\ Added(Item.from, a)
    /\ Greet

(* ... and anybody else, without a record, if they are to be invited.      *)
HandleStartOfStranger ==
    /\ Handling("start")
    /\ \E s \in LinkFound(session) \cup (IF LinkRaises(session) THEN {session} ELSE {}) :
        /\ Item.from \notin s.found
        /\ \E a \in StrangersInvitations(Item.from) :
            End(Ends(a.answer), s) /\ Added(Item.from, a)
    /\ Greet

(* send_text raises: the person has blocked the bot, or the call timed out *)
(* with the reply on its way.                                              *)
GreetingFails ==
    /\ Handling("start")
    /\ RollBack
    /\ Greet \/ UNCHANGED greeted
    /\ UNCHANGED <<members, been>>

(* _handle_shared_contact: the contact is matched and invited, and sent    *)
(* the link in the same transaction where that does not succeed.           *)
HandleContact ==
    LET c == Item.from
    IN  /\ Handling("contact")
        /\ c \in Contacts
        /\ \E a \in Invitations(c) :
            LET matched == Matched(session, c)
                invited == process_direct_invite(matched.contact[c], a.answer, env.group, env.strategy)
                s       == Took(matched, c, invited)
            IN  /\ Added(c, a)
                /\ \/ invited.ends # "done" /\ RollBack
                   \/ /\ invited.ends = "done" /\ s.contact[c].direct = "SUCCESS"
                      /\ Return(s)
                   \/ /\ invited.ends = "done" /\ s.contact[c].direct # "SUCCESS"
                      /\ \/ LinkRaises(s) /\ RollBack
                         \/ \E l \in LinkFound(s), answer \in SendAnswers :
                                LET sent == process_invite_link(l.contact[c], answer)
                                IN  End(sent.ends, Took(l, c, sent))
        /\ UNCHANGED greeted

HandleStrangersContact ==
    /\ Handling("contact")
    /\ Item.from = Stranger
    /\ \E a \in StrangersInvitations(Stranger) :
        End(Ends(a.answer), session) /\ Added(Stranger, a)
    /\ UNCHANGED greeted

HandleOther ==
    /\ Handling("other")
    /\ Return(session)
    /\ UNCHANGED world

(* The offset stored is one behind. *)
Fault_Commit ==
    /\ pc = "handling" /\ batch = <<>>
    /\ db' = Stored(session)
    /\ offset' = next - 1
    /\ handled' = handled \cup taken
    /\ pc' = "idle" /\ next' = 0 /\ taken' = {} /\ session' = Opened(db')
    /\ UNCHANGED <<env, batch, world, inbox, aborts>>

(* process_inbound stores the offset, if there is one, and session_scope   *)
(* commits.                                                                *)
Commit ==
    /\ pc = "handling" /\ batch = <<>>
    /\ db' = Stored(session)
    /\ offset' = IF next = 0 THEN offset ELSE next
    /\ handled' = handled \cup taken
    /\ pc' = "idle" /\ next' = 0 /\ taken' = {} /\ session' = Opened(db')
    /\ UNCHANGED <<env, batch, world, inbox, aborts>>

(* Ctrl+C, or getUpdates or the database fails *)
Interrupt ==
    /\ pc = "handling"
    /\ RollBack
    /\ UNCHANGED world

-----------------------------------------------------------------------------
(* Others *)

Arrive(u) ==
    /\ Len(inbox) < MaxUpdates
    /\ inbox' = Append(inbox, u)
    /\ UNCHANGED <<env, progress, stored, world, aborts>>

(* run-bot's worker does a follow-up job, for good: the attempts before    *)
(* the last are left out.  It finds in the database what process_inbound   *)
(* has just flushed, and commits with it or later.                         *)
Worked(k, s) ==
    /\ db' = Stored([s EXCEPT !.jobs = @ \ {k}])
    /\ session' = Opened(db')
    /\ UNCHANGED <<env, pc, batch, next, taken, offset, handled, world, inbox, aborts>>

JoinAnswers(c) ==
    IF env.group THEN {"UNKNOWN", "timeout", IF c \in members THEN "JOINED" ELSE "NOT_JOINED"}
                 ELSE {"UNKNOWN"}

SendsLink(c) ==
    LET k == <<"SEND_INVITE_LINK", c>>
    IN  /\ pc = "idle" /\ k \in db.jobs
        /\ \/ LinkRaises(session) /\ Worked(k, session)
           \/ \E s \in LinkFound(session), answer \in SendAnswers :
                Worked(k, Took(s, c, process_invite_link(s.contact[c], answer)))

ChecksJoin(c) ==
    LET k == <<"CHECK_JOIN_STATUS", c>>
    IN  /\ pc = "idle" /\ k \in db.jobs
        /\ \E answer \in JoinAnswers(c) :
            Worked(k, Took(session, c, process_join_check(db.contact[c], answer)))

LeaveGroup(p) ==
    /\ p \in members
    /\ members' = members \ {p}
    /\ UNCHANGED <<env, progress, stored, been, greeted, inbox, aborts>>

Next ==
    \/ Fetch
    \/ HandleStart \/ HandleStartOfStranger \/ GreetingFails
    \/ HandleContact \/ HandleStrangersContact \/ HandleOther
    \/ Commit \/ Interrupt
    \/ \E u \in Update : Arrive(u)
    \/ \E c \in Contacts : SendsLink(c) \/ ChecksJoin(c)
    \/ \E p \in People : LeaveGroup(p)

Spec == Init /\ [][Next]_vars

-----------------------------------------------------------------------------
(* Properties *)

TypeOK ==
    /\ env \in Environments
    /\ db \in [contact : [Contacts -> Contact], jobs : SUBSET (JobType \X Contacts), link : BOOLEAN]
    /\ session \in [contact : [Contacts -> Contact], jobs : SUBSET (JobType \X Contacts),
                    link : BOOLEAN, found : SUBSET Contacts]
    /\ offset \in Nat /\ next \in Nat
    /\ inbox \in Seq(Update) /\ batch \in Seq(DOMAIN inbox)
    /\ pc \in {"idle", "handling"}
    /\ taken \subseteq DOMAIN inbox /\ handled \subseteq DOMAIN inbox
    /\ members \subseteq been /\ been \subseteq People
    /\ greeted \in [1 .. MaxUpdates -> Nat]
    /\ aborts \in Nat

(* What a committed transaction made of an update is never done again: the *)
(* offset is committed with it, and getUpdates starts from there.          *)
HandledOnlyOnce ==
    /\ \A i \in DOMAIN batch : batch[i] \notin handled
    /\ taken \cap handled = {}

(* A /start that was handled in a committed transaction was answered; it   *)
(* was answered more than once only where a transaction was rolled back    *)
(* after the reply.                                                        *)
StartsAreAnswered ==
    \A n \in DOMAIN inbox :
        /\ n \in handled /\ inbox[n].kind = "start" => greeted[n] > 0
        /\ greeted[n] <= 1 + aborts

(* Whoever shared their contact, in an update that was handled in a        *)
(* committed transaction, is matched, and has got an invitation that went  *)
(* through or the link, or its failure is on record.                       *)
SharersAreServed ==
    \A n \in handled :
        inbox[n].kind = "contact" /\ inbox[n].from \in Contacts =>
            LET r == db.contact[inbox[n].from]
            IN  r.known /\ (r.direct = "SUCCESS" \/ r.link # "NOT_SENT")

(* Who is recorded as invited or joined has been in the group, whatever    *)
(* was rolled back in between.                                             *)
InvitedWasThere ==
    \A c \in Contacts :
        db.contact[c].direct = "SUCCESS" \/ db.contact[c].join = "JOINED" => c \in been

-----------------------------------------------------------------------------
(* What the code does not keep *)

(* The adapter port and its fake (adapters/fake.py:78-85): no next offset  *)
(* comes from an empty poll.  So the offset passes an update only if it    *)
(* was handled.                                                            *)
NoUpdateSkipped ==
    \A n \in DOMAIN inbox : n < offset => n \in handled
=============================================================================
