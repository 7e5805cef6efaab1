----------------------------- MODULE InviteRuns -----------------------------
(***************************************************************************)
(* The commands that contact people (cli.py: run-invites, worker, enqueue- *)
(* account-checks, enqueue-invites, enqueue-join-checks, prepare-group),   *)
(* run one after the other over a Telegram user session                    *)
(* (adapters/telegram.py).                                                 *)
(*                                                                         *)
(* A step is one transaction.  What it makes the messenger do is not       *)
(* undone when Ctrl+C rolls the transaction back.                          *)
(*                                                                         *)
(* The job queue is what JobLedger promises of it: at most one active job  *)
(* per type and contact, so that only the latest one matters.  The order   *)
(* in which due jobs are claimed is left open, and so is the time after    *)
(* which a delayed job becomes due.                                        *)
(***************************************************************************)
EXTENDS ContactHandlers, Sequences

CONSTANTS
    Contacts,       \* the imported contacts with a valid phone number
    Environments,   \* [group, link, strategy]: what .env may say when a command starts
    Commands,       \* [phases, adapter, strategy, errors]: the commands that are run
    MaxRetries,     \* Settings.max_retries
    MaxCommands,    \* bound: how many commands are run
    MaxLost,        \* bound: how often a message goes out and is rolled back
    ImportsAnyTime  \* bound: whether files are imported while a command runs

(* A command queues jobs, works off those that are due, or, as the worker, *)
(* waits for more of them; prepare-group just looks for the group's link.  *)
Phases == {"check", "invite", "join", "drain", "work", "prepare"}

(* The messenger in earnest; in a dry run that may look up accounts, one   *)
(* that may not, and one that has no credentials either.                   *)
Adapters == {"telegram", "dry", "dry_no_checks", "dry_fake"}

Strategies == {"auto", "direct", "link"}

ASSUME InviteRunsAssumption ==
    /\ Environments \subseteq [group : BOOLEAN, link : BOOLEAN, strategy : Strategies]
    /\ \A cmd \in Commands :
        cmd \in [phases : Seq(Phases), adapter : Adapters,
                 strategy : Strategies \cup {"configured"}, errors : BOOLEAN]
    /\ MaxRetries \in Nat /\ MaxCommands \in Nat /\ MaxLost \in Nat
    /\ ImportsAnyTime \in BOOLEAN

VARIABLES
    contact,    \* the contacts table
    job,        \* the latest job of each type and contact
    link,       \* app_state["group_invite_link"]: "none", "real" or "fake"
    env,        \* the settings of the command that runs
    command,    \* that command, with the phases still ahead
    commands,   \* history: how many were started
    accounts,   \* the world: contacts whose number has a Telegram account
    given,      \* history: contacts that a file brought an id for
    members,    \* the world: those that are in the group now
    been,       \* history: those that ever were
    invites,    \* history: how often each contact was put into the group,
    dms,        \* ... how often each was sent a message with a link,
    got,        \* ... those among them that were sent the group's link,
    unheard,    \* ... how many messages to each left no SENT behind,
    lost        \* ... and how often a message or invitation was rolled back

db    == <<contact, job, link>>
run   == <<env, command, commands>>
world == <<accounts, given, members, been, invites, dms, got, unheard>>
vars  == <<db, run, world, lost>>

Keys == JobType \X Contacts

(* "due" is PENDING, and DELAYED and RETRYING once the time has come.      *)
JobState == {"none", "due", "later", "COMPLETED", "FAILED"}
Job == [state : JobState, attempts : Nat]

Idle == command.phases = <<>>

Phase == Head(command.phases)

NoCommand == [phases |-> <<>>, adapter |-> "telegram", strategy |-> "configured", errors |-> FALSE]

(* Whoever the contact's number, or the id in its file, leads to *)
Addressees == accounts \cup given

Init ==
    /\ given \in SUBSET Contacts
    /\ contact = [c \in Contacts |-> [NewContact EXCEPT !.known = c \in given]]
    /\ job = [k \in Keys |-> [state |-> "none", attempts |-> 0]]
    /\ link = "none"
    /\ env \in Environments
    /\ command = NoCommand /\ commands = 0
    /\ accounts \in SUBSET Contacts /\ members \in SUBSET Addressees /\ been = members
    /\ invites = [c \in Contacts |-> 0] /\ dms = [c \in Contacts |-> 0]
    /\ got = {} /\ unheard = [c \in Contacts |-> 0] /\ lost = 0

-----------------------------------------------------------------------------
(* What the messenger answers, and whether it did what it was asked to.    *)
(* An answer that gets lost on the way is FAILED.  An id that is known is  *)
(* taken at its word: it answers the check, wherever it is from.           *)

CheckAnswers(c) ==
    IF contact[c].known
    THEN {"HAS_ACCOUNT"}
    ELSE {"NO_ACCOUNT", "flood", "config", "error"}
            \cup (IF c \in accounts THEN {"HAS_ACCOUNT"} ELSE {})

InviteAnswers(c) ==
    {Reply("FAILED", FALSE), Reply("flood", FALSE)} \cup
        (IF c \in members THEN {Reply("SUCCESS", FALSE)}
                          ELSE {Reply("SUCCESS", TRUE), Reply("FAILED", TRUE)})

SendAnswers(c) ==
    IF contact[c].known
    THEN {Reply("SENT", TRUE), Reply("FAILED", TRUE),
          Reply("FAILED", FALSE), Reply("flood", FALSE)}
    ELSE {Reply("FAILED", FALSE)}

JoinAnswers(c) ==
    IF env.group
    THEN {"UNKNOWN", "flood", "config", "error",
          IF c \in members THEN "JOINED" ELSE "NOT_JOINED"}
    ELSE {"UNKNOWN"}

(* export_invite_link: a dry run asks for the link in earnest, and without *)
(* credentials it asks a fake messenger.                                   *)
Exported == IF command.adapter = "dry_fake" THEN "fake" ELSE "real"

(* The link in a message: INVITE_LINK, the cached one, or a new one.       *)
LinkInMessage ==
    CASE env.link                      -> "real"
      [] ~env.link /\ link # "none"    -> link
      [] ~env.link /\ link = "none"    -> Exported

(* The messenger puts c into the group, or delivers a message to c, and    *)
(* the answer SENT is heard and committed, or it is not.                   *)
Added(c) ==
    /\ invites' = [invites EXCEPT ![c] = @ + 1]
    /\ members' = members \cup {c} /\ been' = been \cup {c}
    /\ UNCHANGED <<accounts, given, dms, got, unheard>>

Delivered(c, heard) ==
    /\ dms' = [dms EXCEPT ![c] = @ + 1]
    /\ got' = IF LinkInMessage = "real" THEN got \cup {c} ELSE got
    /\ unheard' = IF heard THEN unheard ELSE [unheard EXCEPT ![c] = @ + 1]
    /\ UNCHANGED <<accounts, given, members, been, invites>>

-----------------------------------------------------------------------------
(* Queueing *)

Waiting(state) == state \in {"due", "later"}

(* enqueue_for_contact of each key, with DuplicateJobError swallowed *)
Enqueued(q, ks, state) ==
    [k \in Keys |-> IF k \in ks /\ ~Waiting(q[k].state)
                    THEN [state |-> state, attempts |-> 0] ELSE q[k]]

JobsOf(type, cs) == {<<type, c>> : c \in cs}

(* What a phase queues: enqueue_pending of the account checks (errors:     *)
(* --include-errors), enqueue_pending of the invitations, with the         *)
(* --strategy of the command or the configured one, enqueue_join_checks.   *)
Queued(phase) ==
    LET mode == IF command.strategy = "configured" THEN env.strategy ELSE command.strategy
        statuses == IF command.errors THEN {"UNKNOWN", "ERROR"} ELSE {"UNKNOWN"}
    IN  CASE phase = "check" ->
                JobsOf("CHECK_BALE_ACCOUNT",
                       {c \in Contacts : list_valid_for_account_check(contact[c], statuses)})
          [] phase = "invite" /\ mode # "link" ->
                JobsOf("DIRECT_INVITE", {c \in Contacts : list_for_direct_invite(contact[c])})
          [] phase = "invite" /\ mode = "link" ->
                JobsOf("SEND_INVITE_LINK", {c \in Contacts : list_for_invite_link(contact[c])})
          [] phase = "join" ->
                JobsOf("CHECK_JOIN_STATUS", {c \in Contacts : list_for_join_check(contact[c])})

(* A command is started by hand, possibly with other settings in .env.     *)
Start ==
    /\ Idle
    /\ commands < MaxCommands
    /\ command' \in Commands
    /\ env' \in Environments
    /\ commands' = commands + 1
    /\ UNCHANGED <<db, world, lost>>

QueuePhase ==
    /\ ~Idle
    /\ Phase \in {"check", "invite", "join"}
    /\ job' = Enqueued(job, Queued(Phase), "due")
    /\ command' = [command EXCEPT !.phases = Tail(@)]
    /\ UNCHANGED <<contact, link, env, commands, world, lost>>

-----------------------------------------------------------------------------
(* The worker's iterations *)

Due(k) == ~Idle /\ Phase \in {"drain", "work"} /\ job[k].state = "due"

(* mark_success, or mark_failure with no delay after a flood wait, with    *)
(* the default delay after any other exception, and without a retry after  *)
(* BaleConfigError, for a job that has been tried n times.                 *)
Verdict(n, ends) ==
    CASE ends = "done"                                                -> "COMPLETED"
      [] ends = "config"                                              -> "FAILED"
      [] ends \notin {"done", "config"} /\ n >= MaxRetries            -> "FAILED"
      [] ends = "flood" /\ n < MaxRetries                             -> "due"
      [] ends \notin {"done", "config", "flood"} /\ n < MaxRetries    -> "later"

(* An exception that the handler leaves no trace of is not counted. *)
Fault_Settled(k, ends) ==
    LET n == job[k].attempts + (IF k[1] = "CHECK_JOIN_STATUS" /\ ends # "done" THEN 0 ELSE 1)
    IN  [state |-> Verdict(n, ends), attempts |-> n]

(* A job after one more attempt *)
Settled(k, ends) ==
    LET n == job[k].attempts + 1
    IN  [state |-> Verdict(n, ends), attempts |-> n]

(* The follow-up jobs are forgotten. *)
Fault_Finish(k, out) ==
    /\ contact' = [contact EXCEPT ![k[2]] = out.contact]
    /\ job' = [job EXCEPT ![k] = Settled(k, out.ends)]
    /\ UNCHANGED <<run, lost>>

(* process_one commits: the contact, the jobs the handler enqueued for it, *)
(* of which the join check waits for invite_interval, and the job itself.  *)
Finish(k, out) ==
    LET c      == k[2]
        linked == Enqueued(job, JobsOf("SEND_INVITE_LINK",
                                       {d \in {c} : "SEND_INVITE_LINK" \in out.follow}), "due")
        joined == Enqueued(linked, JobsOf("CHECK_JOIN_STATUS",
                                          {d \in {c} : "CHECK_JOIN_STATUS" \in out.follow}), "later")
    IN  /\ contact' = [contact EXCEPT ![c] = out.contact]
        /\ job' = [joined EXCEPT ![k] = Settled(k, out.ends)]
        /\ UNCHANGED <<run, lost>>

CheckAccount(c) ==
    LET k == <<"CHECK_BALE_ACCOUNT", c>>
    IN  /\ Due(k)
        /\ \/ /\ command.adapter \in {"telegram", "dry"}
              /\ \E answer \in CheckAnswers(c) : Finish(k, process_contact(contact[c], answer))
           \/ /\ command.adapter \in {"dry_no_checks", "dry_fake"}
              /\ Finish(k, DryOutcome(contact[c]))
        /\ UNCHANGED <<link, world>>

(* Without an id or a group the handler does not ask the adapter.          *)
CanInvite(c) == contact[c].known /\ env.group

(* The dry run's adapter is left out. *)
Fault_DirectInvite(c) ==
    LET k == <<"DIRECT_INVITE", c>>
        Result(answer) == process_direct_invite(contact[c], answer, env.group, env.strategy)
    IN  /\ Due(k)
        /\ \/ /\ ~CanInvite(c)
              /\ Finish(k, Result("SKIPPED"))
              /\ UNCHANGED world
           \/ /\ CanInvite(c)
              /\ \E a \in InviteAnswers(c) :
                    /\ Finish(k, Result(a.answer))
                    /\ IF a.done THEN Added(c) ELSE UNCHANGED world
        /\ UNCHANGED link

DirectInvite(c) ==
    LET k == <<"DIRECT_INVITE", c>>
        Result(answer) == process_direct_invite(contact[c], answer, env.group, env.strategy)
    IN  /\ Due(k)
        /\ \/ /\ ~CanInvite(c)
              /\ Finish(k, Result("SKIPPED"))
              /\ UNCHANGED world
           \/ /\ CanInvite(c) /\ command.adapter = "telegram"
              /\ \E a \in InviteAnswers(c) :
                    /\ Finish(k, Result(a.answer))
                    /\ IF a.done THEN Added(c) ELSE UNCHANGED world
           \/ /\ CanInvite(c) /\ command.adapter # "telegram"
              /\ Finish(k, DryOutcome(contact[c]))
              /\ UNCHANGED world
        /\ UNCHANGED link

(* ensure_invite_link asks the messenger. *)
NeedsLink(c) == contact[c].known /\ ~env.link /\ link = "none"

ExportErrors ==
    CASE ~env.group                                    -> {"config"}
      [] env.group /\ command.adapter = "dry_fake"     -> {}
      [] env.group /\ command.adapter # "dry_fake"     -> {"flood", "config", "error"}

PrepareGroup ==
    /\ ~Idle /\ Phase = "prepare"
    /\ link' = IF env.group /\ ~env.link /\ link = "none" THEN Exported ELSE link
    /\ command' = [command EXCEPT !.phases = Tail(@)]
    /\ UNCHANGED <<contact, job, env, commands, world, lost>>

(* It raises, and the contact is left as it is. *)
LinkMissing(c) ==
    LET k == <<"SEND_INVITE_LINK", c>>
    IN  /\ Due(k)
        /\ NeedsLink(c)
        /\ \E e \in ExportErrors : Finish(k, Outcome(contact[c], {}, e))
        /\ UNCHANGED <<link, world>>

SendInviteLink(c) ==
    LET k == <<"SEND_INVITE_LINK", c>>
    IN  /\ Due(k)
        /\ NeedsLink(c) => env.group
        /\ link' = IF NeedsLink(c) THEN Exported ELSE link
        /\ \/ /\ command.adapter = "telegram" \/ ~contact[c].known
              /\ \E a \in SendAnswers(c) :
                    /\ Finish(k, process_invite_link(contact[c], a.answer))
                    /\ IF a.done THEN Delivered(c, a.answer = "SENT") ELSE UNCHANGED world
           \/ /\ command.adapter # "telegram" /\ contact[c].known
              /\ Finish(k, DryOutcome(contact[c]))
              /\ UNCHANGED world

CheckJoin(c) ==
    LET k == <<"CHECK_JOIN_STATUS", c>>
    IN  /\ Due(k)
        /\ \/ /\ command.adapter = "telegram"
              /\ \E answer \in JoinAnswers(c) : Finish(k, process_join_check(contact[c], answer))
           \/ /\ command.adapter # "telegram"
              /\ Finish(k, DryOutcome(contact[c]))
        /\ UNCHANGED <<link, world>>

(* _drain_jobs returns when nothing is due, even if retries are waiting.   *)
Drained ==
    /\ ~Idle /\ Phase = "drain"
    /\ \A k \in Keys : job[k].state # "due"
    /\ command' = [command EXCEPT !.phases = Tail(@)]
    /\ UNCHANGED <<db, env, commands, world, lost>>

-----------------------------------------------------------------------------
(* Interruptions and the world *)

(* Ctrl+C, or an exception nobody catches, between two transactions or in  *)
(* one that did nothing yet outside the database ...                       *)
Interrupt ==
    /\ ~Idle
    /\ command' = NoCommand
    /\ UNCHANGED <<db, env, commands, world, lost>>

(* ... and after the messenger did what a job's handler asked it for.      *)
InterruptAfter(c) ==
    /\ lost < MaxLost
    /\ command.adapter = "telegram"
    /\ \/ Due(<<"DIRECT_INVITE", c>>) /\ CanInvite(c) /\ c \notin members /\ Added(c)
       \/ /\ Due(<<"SEND_INVITE_LINK", c>>) /\ contact[c].known
          /\ NeedsLink(c) => env.group
          /\ Delivered(c, FALSE)
    /\ lost' = lost + 1
    /\ command' = NoCommand
    /\ UNCHANGED <<db, env, commands>>

(* The time of a delayed job comes. *)
Ripen(k) ==
    /\ job[k].state = "later"
    /\ job' = [job EXCEPT ![k].state = "due"]
    /\ UNCHANGED <<contact, link, run, world, lost>>

(* import-contacts, in a process of its own: a file has an id for c, which *)
(* is not compared with the number or with the statuses.  Whether the one  *)
(* it leads to is in the group is left to Join and LeaveGroup.             *)
Import(c) ==
    /\ ImportsAnyTime \/ Idle
    /\ contact' = [contact EXCEPT ![c].known = TRUE]
    /\ given' = given \cup {c}
    /\ UNCHANGED <<job, link, run, accounts, members, been, invites, dms, got, unheard, lost>>

(* People join the group and leave it. *)
Join(c) ==
    /\ c \in Addressees \ members
    /\ members' = members \cup {c} /\ been' = been \cup {c}
    /\ UNCHANGED <<db, run, accounts, given, invites, dms, got, unheard, lost>>

LeaveGroup(c) ==
    /\ c \in members
    /\ members' = members \ {c}
    /\ UNCHANGED <<db, run, accounts, given, been, invites, dms, got, unheard, lost>>

-----------------------------------------------------------------------------

Work(c) ==
    \/ CheckAccount(c)
    \/ DirectInvite(c)
    \/ LinkMissing(c)
    \/ SendInviteLink(c)
    \/ CheckJoin(c)

Next ==
    \/ Start
    \/ QueuePhase
    \/ PrepareGroup
    \/ \E c \in Contacts : Work(c)
    \/ Drained
    \/ Interrupt
    \/ \E c \in Contacts : InterruptAfter(c)
    \/ \E k \in Keys : Ripen(k)
    \/ \E c \in Contacts : Import(c) \/ Join(c) \/ LeaveGroup(c)

Spec == Init /\ [][Next]_vars

(* A command goes on once it is started: its transactions end, and its     *)
(* loops turn.                                                             *)
FairSpec == Spec /\ WF_vars(QueuePhase \/ PrepareGroup \/ (\E c \in Contacts : Work(c)) \/ Drained)

-----------------------------------------------------------------------------
(* Type invariant *)

TypeOK ==
    /\ contact \in [Contacts -> Contact]
    /\ job \in [Keys -> Job]
    /\ link \in {"none", "real", "fake"}
    /\ env \in Environments
    /\ command \in [phases : Seq(Phases), adapter : Adapters,
                    strategy : Strategies \cup {"configured"}, errors : BOOLEAN]
    /\ commands \in Nat /\ lost \in Nat
    /\ accounts \subseteq Contacts /\ given \subseteq Contacts
    /\ members \subseteq Addressees /\ been \subseteq Addressees /\ got \subseteq Contacts
    /\ invites \in [Contacts -> Nat] /\ dms \in [Contacts -> Nat] /\ unheard \in [Contacts -> Nat]

-----------------------------------------------------------------------------
(* Properties *)

(* README.md:40: who has no Telegram account is neither invited nor sent   *)
(* a message, whatever the checks failed with and whatever was rolled      *)
(* back.  An id in an imported file counts as an account without a lookup: *)
(* a contact that a file gave one is none of these strangers.              *)
StrangersLeftAlone ==
    \A c \in Contacts \ Addressees : invites[c] = 0 /\ dms[c] = 0

(* What the table reports as achieved has happened: who is recorded as     *)
(* invited or joined has been in the group, and who is recorded as SENT    *)
(* was sent the group's link, or else a fake messenger's link that a dry   *)
(* run without credentials has left in app_state.  A rollback never turns  *)
(* that around.                                                            *)
RecordedIsReal ==
    \A c \in Contacts :
        /\ contact[c].direct = "SUCCESS" => c \in been
        /\ contact[c].join = "JOINED" => c \in been
        /\ contact[c].link = "SENT" => dms[c] > 0 /\ (c \in got \/ link = "fake")

(* attempt_count covers every message that went out, but for those whose   *)
(* transaction was rolled back.                                            *)
SendsAreRecorded ==
    \A c \in Contacts : invites[c] + dms[c] <= contact[c].attempts + lost

(* Whoever is recorded as invited is not put into the group again, in this *)
(* run or a later one: not even a person who has left since.               *)
InvitedOnlyOnce ==
    [][\A c \in Contacts : invites'[c] # invites[c] => contact[c].direct # "SUCCESS"]_vars

(* process_direct_invite commits the SUCCESS together with the job that    *)
(* checks the membership, so that no interruption separates them.          *)
SuccessIsFollowedUp ==
    \A c \in Contacts :
        contact[c].direct = "SUCCESS" => job[<<"CHECK_JOIN_STATUS", c>>].state # "none"

(* cli.py:194 and README.md:34: a dry run sends nothing to anybody, not    *)
(* even what an earlier command had left in the queue.                     *)
DryRunIsSilent ==
    [][command.adapter # "telegram" => UNCHANGED <<invites, dms>>]_vars

(* A dry run leaves the statuses of an invitation as they are, except that *)
(* it may give up on somebody for good: without GROUP_ID the handler       *)
(* records SKIPPED before it asks the adapter, in a dry run as in any      *)
(* other, even for somebody whose earlier invitation failed.               *)
DryRunOnlySkips ==
    [][\A c \in Contacts : command.adapter # "telegram" =>
        /\ contact'[c].link = contact[c].link /\ contact'[c].join = contact[c].join
        /\ contact'[c].direct # contact[c].direct =>
                ~env.group /\ contact'[c].direct = "SKIPPED"]_vars

(* Until an invitation in person has been tried, the link is sent again    *)
(* only to whom nobody knows to have it: each message but one lost its     *)
(* answer or was rolled back, in repeated runs that only send links, in    *)
(* retries, and whatever was left in the queue.                            *)
RepeatedOnlyIfUnheard ==
    \A c \in Contacts : contact[c].direct = "NOT_STARTED" => dms[c] <= 1 + unheard[c]

(* run-invites comes to an end, although the jobs it works off queue       *)
(* others: retries are limited and follow-ups do not go round in circles.  *)
RunEnds ==
    (~Idle /\ Phase # "work") ~> Idle

-----------------------------------------------------------------------------
(* What the code does not keep *)

(* cli.py:187: a dry run does not change the status of an invitation.      *)
DryRunKeepsStatuses ==
    [][\A c \in Contacts : command.adapter # "telegram" =>
        /\ contact'[c].direct = contact[c].direct
        /\ contact'[c].link = contact[c].link /\ contact'[c].join = contact[c].join]_vars

(* README.md:32: where the direct invitation is stuck, the group's link is *)
(* sent.  An invitation that FAILED and is not tried any more has got the  *)
(* job that sends it.                                                      *)
StuckIsSentTheLink ==
    \A c \in Contacts :
        contact[c].direct = "FAILED" /\ ~Waiting(job[<<"DIRECT_INVITE", c>>].state)
            => job[<<"SEND_INVITE_LINK", c>>].state # "none"
=============================================================================
