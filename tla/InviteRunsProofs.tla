-------------------------- MODULE InviteRunsProofs --------------------------
(***************************************************************************)
(* What the commands of InviteRuns guarantee, for any contacts, commands,  *)
(* settings and limits.                                                    *)
(*                                                                         *)
(* What is recorded of a contact is compared with what happened to it.  A  *)
(* handler's outcome (CheckFits, InviteCounts, LinkFits, JoinFits) keeps the *)
(* two in step on values, Finish carries that over to the tables, and the  *)
(* actions are then taken one by one.  A second invariant (Listed) says    *)
(* for whom there may be jobs.                                             *)
(***************************************************************************)
EXTENDS InviteRuns, TLAPS

(* What r records of contact c has happened, where A are the people with   *)
(* an account, B those who have been in the group, and c has been put into *)
(* it i times and sent the link d times, n messages being rolled back.     *)
Fits(r, c, A, B, i, d, n) ==
    /\ r.known => c \in A
    /\ r.direct = "SUCCESS" => c \in B
    /\ r.join = "JOINED" => c \in B
    /\ r.link = "SENT" => d > 0
    /\ i + d <= r.attempts + n
    /\ c \notin A => i = 0 /\ d = 0

(* An invitation that succeeded is not in the queue any more, the check of *)
(* the membership has been in it.                                          *)
Followed(r, c, q) ==
    r.direct = "SUCCESS" => /\ ~Waiting(q[<<"DIRECT_INVITE", c>>].state)
                            /\ q[<<"CHECK_JOIN_STATUS", c>>].state # "none"

(* The inductive invariant *)
IInv ==
    /\ TypeOK
    /\ members \subseteq been
    /\ \A c \in Contacts :
        /\ Fits(contact[c], c, Addressees, been, invites[c], dms[c], lost)
        /\ Followed(contact[c], c, job)

-----------------------------------------------------------------------------
(* Handlers *)

(* record_attempt counts, and changes nothing else. *)
LEMMA Attempted ==
    ASSUME NEW r \in Contact
    PROVE  /\ record_attempt(r) \in Contact /\ record_attempt(r).attempts = r.attempts + 1
           /\ record_attempt(r).known = r.known /\ record_attempt(r).account = r.account
           /\ record_attempt(r).direct = r.direct /\ record_attempt(r).link = r.link
           /\ record_attempt(r).join = r.join
<1>1. r.attempts + 1 \in Nat
    BY DEF Contact
<1> QED BY <1>1 DEF record_attempt, Contact

(* An account check leaves alone what it does not look up. *)
LEMMA CheckFits ==
    ASSUME NEW r \in Contact, NEW c, NEW A, NEW B, NEW i \in Nat, NEW d \in Nat, NEW n \in Nat,
           NEW answer \in {"HAS_ACCOUNT", "NO_ACCOUNT", "flood", "config", "error"},
           answer = "HAS_ACCOUNT" => c \in A,
           Fits(r, c, A, B, i, d, n)
    PROVE  /\ process_contact(r, answer).contact \in Contact
           /\ process_contact(r, answer).contact.direct = r.direct
           /\ Fits(process_contact(r, answer).contact, c, A, B, i, d, n)
<1> DEFINE status == IF answer \in Raised THEN "ERROR" ELSE answer
           found  == [record_attempt(r) EXCEPT !.known = @ \/ answer = "HAS_ACCOUNT"]
           after  == set_bale_account_status(found, status)
<1>1. process_contact(r, answer).contact = after
    BY DEF process_contact, Outcome
<1>2. /\ found \in Contact /\ found.attempts = r.attempts + 1
      /\ found.known => c \in A
      /\ found.direct = r.direct /\ found.join = r.join /\ found.link = r.link
    <2>1. found = [record_attempt(r) EXCEPT !.known = r.known \/ answer = "HAS_ACCOUNT"]
        BY Attempted
    <2>2. (r.known \/ answer = "HAS_ACCOUNT") \in BOOLEAN
        OBVIOUS
    <2>3. (r.known \/ answer = "HAS_ACCOUNT") => c \in A
        BY DEF Fits
    <2> HIDE DEF found
    <2> QED BY <2>1, <2>2, <2>3, Attempted DEF Contact
<1>3. status \in BaleAccountStatus
    BY DEF Raised, BaleAccountStatus
<1>4. /\ after \in Contact /\ after.attempts = found.attempts /\ after.known = found.known
      /\ after.direct = found.direct /\ after.join = found.join /\ after.link = found.link
    BY <1>2, <1>3 DEF Contact, set_bale_account_status
<1>5. r.attempts \in Nat
    BY DEF Contact
<1> QED BY <1>1, <1>2, <1>4, <1>5 DEF Fits

(* An invitation of r is counted as an attempt, whatever comes of it, and  *)
(* only an answer makes it a success, which is followed up.                *)
Counted(r, answer, out) ==
    /\ out.contact \in Contact /\ out.contact.attempts = r.attempts + 1
    /\ out.contact.known = r.known
    /\ out.contact.join = r.join /\ out.contact.link = r.link
    /\ out.contact.direct = "SUCCESS" =>
        answer = "SUCCESS" /\ out.ends = "done" /\ "CHECK_JOIN_STATUS" \in out.follow

LEMMA InviteCounts ==
    ASSUME NEW r \in Contact, r.direct # "SUCCESS", NEW hasGroup, NEW strategy,
           NEW answer \in {"SUCCESS", "FAILED", "SKIPPED", "flood"}
    PROVE  Counted(r, answer, process_direct_invite(r, answer, hasGroup, strategy))
<1> DEFINE asked  == r.known /\ hasGroup
           status == CASE ~asked                         -> "SKIPPED"
                       [] asked /\ answer \in Raised     -> "FAILED"
                       [] asked /\ answer \notin Raised  -> answer
           moved  == set_direct_invite_status(record_attempt(r), status)
           out    == process_direct_invite(r, answer, hasGroup, strategy)
<1>1. /\ status \in DirectInviteStatus
      /\ status = "SUCCESS" => asked /\ answer = "SUCCESS"
    BY DEF Raised, DirectInviteStatus
<1>2. status \in DIRECT_INVITE_TRANSITIONS(r.direct)
    BY <1>1 DEF DIRECT_INVITE_TRANSITIONS
<1>3. /\ moved \in Contact /\ moved.attempts = r.attempts + 1 /\ moved.known = r.known
      /\ moved.direct = status /\ moved.join = r.join /\ moved.link = r.link
    BY <1>1, <1>2, Attempted DEF Contact, set_direct_invite_status
<1>4. /\ out.contact = moved
      /\ out.ends = IF asked THEN Ends(answer) ELSE "done"
      /\ asked /\ answer = "SUCCESS" => "CHECK_JOIN_STATUS" \in out.follow
    BY <1>2 DEF process_direct_invite, Outcome, JobType
<1>5. answer = "SUCCESS" => Ends(answer) = "done"
    BY DEF Ends, Raised
<1> QED BY <1>1, <1>3, <1>4, <1>5 DEF Counted

(* A link that goes out is counted, and what is SENT has been delivered.   *)
LEMMA LinkFits ==
    ASSUME NEW r \in Contact, NEW c, NEW A, NEW B, NEW i \in Nat, NEW d \in Nat, NEW n \in Nat,
           NEW answer \in {"SENT", "FAILED", "flood"}, NEW e \in {d, d + 1},
           answer = "SENT" => e = d + 1, e # d => r.known,
           Fits(r, c, A, B, i, d, n)
    PROVE  /\ process_invite_link(r, answer).contact \in Contact
           /\ process_invite_link(r, answer).contact.direct = r.direct
           /\ Fits(process_invite_link(r, answer).contact, c, A, B, i, e, n)
<1> DEFINE status == IF ~r.known \/ answer \in Raised THEN "FAILED" ELSE answer
           after  == set_invite_link_status(record_attempt(r), status)
<1>1. process_invite_link(r, answer).contact = after
    BY DEF process_invite_link, Outcome
<1>2. status \in InviteLinkStatus /\ (status = "SENT" => answer = "SENT")
    BY DEF Raised, InviteLinkStatus
<1>3. /\ after \in Contact /\ after.attempts = r.attempts + 1 /\ after.known = r.known
      /\ after.direct = r.direct /\ after.join = r.join
      /\ after.link \in {r.link, status}
    BY <1>2, Attempted DEF Contact, set_invite_link_status
<1>4. r.attempts \in Nat
    BY DEF Contact
<1> QED BY <1>1, <1>2, <1>3, <1>4 DEF Fits

(* Who is found in the group has been there. *)
LEMMA JoinFits ==
    ASSUME NEW r \in Contact, NEW c, NEW A, NEW B, NEW i \in Nat, NEW d \in Nat, NEW n \in Nat,
           NEW answer \in JoinStatus \cup {"flood", "config", "error"},
           answer = "JOINED" => c \in B,
           Fits(r, c, A, B, i, d, n)
    PROVE  /\ process_join_check(r, answer).contact \in Contact
           /\ process_join_check(r, answer).contact.direct = r.direct
           /\ Fits(process_join_check(r, answer).contact, c, A, B, i, d, n)
<1> DEFINE after == set_join_status(record_attempt(r), answer)
<1>1. CASE answer \in Raised
    BY <1>1 DEF process_join_check, Outcome
<1>2. CASE answer \notin Raised
    <2>1. process_join_check(r, answer).contact = after
        BY <1>2 DEF process_join_check, Outcome
    <2>2. answer \in JoinStatus
        BY <1>2 DEF Raised
    <2>3. /\ after \in Contact /\ after.attempts = r.attempts + 1 /\ after.known = r.known
          /\ after.direct = r.direct /\ after.link = r.link
          /\ after.join \in {r.join, answer}
        BY <2>2, Attempted DEF Contact, set_join_status
    <2>4. r.attempts \in Nat
        BY DEF Contact
    <2> QED BY <2>1, <2>3, <2>4 DEF Fits
<1> QED BY <1>1, <1>2

-----------------------------------------------------------------------------
(* The queue *)

(* enqueue adds jobs and touches no active one. *)
LEMMA EnqueuedJobs ==
    ASSUME NEW q \in [Keys -> Job], NEW ks, NEW state \in {"due", "later"}
    PROVE  /\ Enqueued(q, ks, state) \in [Keys -> Job]
           /\ \A k \in Keys :
                /\ k \notin ks => Enqueued(q, ks, state)[k] = q[k]
                /\ k \in ks => Enqueued(q, ks, state)[k].state # "none"
                /\ q[k].state # "none" => Enqueued(q, ks, state)[k].state # "none"
<1>1. [state |-> state, attempts |-> 0] \in Job
    BY DEF Job, JobState
<1> QED BY <1>1 DEF Enqueued, Waiting, Job

(* A job is settled in a state it can be in, and a success for good.       *)
LEMMA SettledJob ==
    ASSUME job \in [Keys -> Job], NEW k \in Keys, NEW ends
    PROVE  /\ Settled(k, ends) \in Job
           /\ Settled(k, ends).state # "none"
           /\ ends = "done" => ~Waiting(Settled(k, ends).state)
<1>1. job[k].attempts + 1 \in Nat /\ MaxRetries \in Nat
    BY InviteRunsAssumption DEF Job
<1>2. Verdict(job[k].attempts + 1, ends) \in {"due", "later", "COMPLETED", "FAILED"}
    BY <1>1 DEF Verdict
<1>3. ends = "done" => Verdict(job[k].attempts + 1, ends) = "COMPLETED"
    BY DEF Verdict
<1> QED BY <1>1, <1>2, <1>3 DEF Settled, Waiting, Job, JobState

(* What the transaction of a job leaves of the queue. *)
LEMMA FinishJobs ==
    ASSUME job \in [Keys -> Job], NEW t \in JobType, NEW c \in Contacts, NEW out,
           Finish(<<t, c>>, out)
    PROVE  /\ job' \in [Keys -> Job]
           /\ out.ends = "done" => ~Waiting(job'[<<t, c>>].state)
           /\ "CHECK_JOIN_STATUS" \in out.follow => job'[<<"CHECK_JOIN_STATUS", c>>].state # "none"
           /\ \A k \in Keys :
                /\ job[k].state # "none" => job'[k].state # "none"
                /\ k # <<t, c>> /\ k[1] = "DIRECT_INVITE" => job'[k] = job[k]
<1> DEFINE k      == <<t, c>>
           links  == JobsOf("SEND_INVITE_LINK", {d \in {c} : "SEND_INVITE_LINK" \in out.follow})
           joins  == JobsOf("CHECK_JOIN_STATUS", {d \in {c} : "CHECK_JOIN_STATUS" \in out.follow})
           linked == Enqueued(job, links, "due")
           joined == Enqueued(linked, joins, "later")
<1>1. k \in Keys /\ <<"CHECK_JOIN_STATUS", c>> \in Keys
    BY DEF Keys, JobType
<1>2. job' = [joined EXCEPT ![k] = Settled(k, out.ends)]
    BY DEF Finish
<1>3. /\ \A j \in links \cup joins : j[1] # "DIRECT_INVITE"
      /\ "CHECK_JOIN_STATUS" \in out.follow => <<"CHECK_JOIN_STATUS", c>> \in joins
    BY DEF JobsOf
<1>4. /\ linked \in [Keys -> Job]
      /\ \A j \in Keys : /\ j \notin links => linked[j] = job[j]
                         /\ job[j].state # "none" => linked[j].state # "none"
    <2> HIDE DEF links
    <2> QED BY EnqueuedJobs
<1>5. /\ joined \in [Keys -> Job]
      /\ \A j \in Keys : /\ j \notin joins => joined[j] = linked[j]
                         /\ j \in joins => joined[j].state # "none"
                         /\ linked[j].state # "none" => joined[j].state # "none"
    <2> HIDE DEF linked, joins
    <2> QED BY <1>4, EnqueuedJobs
<1>6. /\ Settled(k, out.ends) \in Job /\ Settled(k, out.ends).state # "none"
      /\ out.ends = "done" => ~Waiting(Settled(k, out.ends).state)
    BY <1>1, SettledJob
<1> HIDE DEF k, links, joins, linked, joined
<1> QED BY <1>1, <1>2, <1>3, <1>4, <1>5, <1>6 DEF k

-----------------------------------------------------------------------------
(* The world *)

(* What people have been through stays, and it happens to nobody but c. *)
WorldMoves(c) ==
    /\ UNCHANGED <<accounts, given, Addressees>>
    /\ members' \subseteq Addressees /\ been' \subseteq Addressees /\ got' \subseteq Contacts
    /\ members' \subseteq been' /\ been \subseteq been'
    /\ invites' \in [Contacts -> Nat] /\ dms' \in [Contacts -> Nat] /\ unheard' \in [Contacts -> Nat]
    /\ \A d \in Contacts \ {c} : invites'[d] = invites[d] /\ dms'[d] = dms[d]

LEMMA WorldUnchanged ==
    ASSUME IInv, NEW c \in Contacts, UNCHANGED world
    PROVE  WorldMoves(c) /\ invites' = invites /\ dms' = dms /\ been' = been
BY DEF IInv, TypeOK, world, WorldMoves, Addressees

LEMMA AddedMoves ==
    ASSUME IInv, NEW c \in Contacts, c \in Addressees, Added(c)
    PROVE  /\ WorldMoves(c) /\ dms' = dms
           /\ invites'[c] = invites[c] + 1 /\ c \in been'
BY DEF IInv, TypeOK, Added, WorldMoves, Addressees

LEMMA DeliveredMoves ==
    ASSUME IInv, NEW c \in Contacts, NEW heard, Delivered(c, heard)
    PROVE  /\ WorldMoves(c) /\ invites' = invites /\ been' = been
           /\ dms'[c] = dms[c] + 1
BY DEF IInv, TypeOK, Delivered, WorldMoves, Addressees

-----------------------------------------------------------------------------
(* Steps *)

(* The invariant, of one contact *)
LEMMA OneContact ==
    ASSUME IInv, NEW c \in Contacts
    PROVE  /\ contact[c] \in Contact
           /\ invites[c] \in Nat /\ dms[c] \in Nat /\ lost \in Nat
           /\ Fits(contact[c], c, Addressees, been, invites[c], dms[c], lost)
           /\ Followed(contact[c], c, job)
BY DEF IInv, TypeOK

(* A contact that nothing happens to fits as before. *)
LEMMA OthersKept ==
    ASSUME IInv, NEW c \in Contacts, WorldMoves(c), NEW d \in Contacts, d # c, lost' = lost,
           contact'[d] = contact[d]
    PROVE  Fits(contact[d], d, Addressees, been, invites[d], dms[d], lost)'
BY OneContact DEF WorldMoves, Fits

(* The transaction of a job: what its handler makes of the contact has to  *)
(* fit to what it did in the world, and a success has to be followed up.   *)
LEMMA FinishKeeps ==
    ASSUME IInv, NEW t \in JobType, NEW c \in Contacts, NEW out,
           Due(<<t, c>>), Finish(<<t, c>>, out), link' \in {"none", "real", "fake"},
           WorldMoves(c), out.contact \in Contact,
           Fits(out.contact, c, Addressees, been', invites'[c], dms'[c], lost),
           out.contact.direct = "SUCCESS" =>
               \/ contact[c].direct = "SUCCESS"
               \/ t = "DIRECT_INVITE" /\ out.ends = "done" /\ "CHECK_JOIN_STATUS" \in out.follow
    PROVE  IInv'
<1>1. /\ contact' = [contact EXCEPT ![c] = out.contact]
      /\ UNCHANGED <<run, lost>>
    BY DEF Finish
<1>2. /\ job' \in [Keys -> Job]
      /\ out.ends = "done" => ~Waiting(job'[<<t, c>>].state)
      /\ "CHECK_JOIN_STATUS" \in out.follow => job'[<<"CHECK_JOIN_STATUS", c>>].state # "none"
      /\ \A k \in Keys :
            /\ job[k].state # "none" => job'[k].state # "none"
            /\ k # <<t, c>> /\ k[1] = "DIRECT_INVITE" => job'[k] = job[k]
    <2>1. job \in [Keys -> Job]
        BY DEF IInv, TypeOK
    <2> QED BY <2>1, FinishJobs
<1>3. TypeOK' /\ (members \subseteq been)'
    BY <1>1, <1>2 DEF IInv, TypeOK, run, WorldMoves
<1>4. ASSUME NEW d \in Contacts
      PROVE  Fits(contact[d], d, Addressees, been, invites[d], dms[d], lost)'
    <2>1. CASE d = c
        <3>1. contact'[c] = out.contact /\ lost' = lost /\ Addressees' = Addressees
            BY <1>1 DEF IInv, TypeOK, WorldMoves
        <3> QED BY <2>1, <3>1 DEF Fits
    <2>2. CASE d # c
        BY <1>1, <2>2, OthersKept DEF IInv, TypeOK
    <2> QED BY <2>1, <2>2
<1>5. ASSUME NEW d \in Contacts
      PROVE  Followed(contact[d], d, job)'
    <2>1. <<"DIRECT_INVITE", d>> \in Keys /\ <<"CHECK_JOIN_STATUS", d>> \in Keys
        BY DEF Keys, JobType
    <2>2. CASE contact[d].direct = "SUCCESS"
        <3>1. /\ ~Waiting(job[<<"DIRECT_INVITE", d>>].state)
              /\ job[<<"CHECK_JOIN_STATUS", d>>].state # "none"
            BY <2>2, OneContact DEF Followed
        <3>2. <<"DIRECT_INVITE", d>> # <<t, c>>
            BY <3>1 DEF Due, Waiting
        <3> QED BY <1>2, <2>1, <3>1, <3>2 DEF Followed
    <2>3. CASE contact[d].direct # "SUCCESS" /\ d # c
        BY <1>1, <2>3 DEF Followed, IInv, TypeOK
    <2>4. CASE contact[d].direct # "SUCCESS" /\ d = c
        <3>1. contact'[d] = out.contact
            BY <1>1, <2>4 DEF IInv, TypeOK
        <3> QED BY <1>2, <2>4, <3>1 DEF Followed
    <2> QED BY <2>2, <2>3, <2>4
<1> QED BY <1>3, <1>4, <1>5 DEF IInv

(* A dry run, or an exception before the handler did anything *)
LEMMA LeftAsItIs ==
    ASSUME IInv, NEW t \in JobType, NEW c \in Contacts, NEW e,
           Due(<<t, c>>), Finish(<<t, c>>, Outcome(contact[c], {}, e)),
           link' \in {"none", "real", "fake"}, UNCHANGED world
    PROVE  IInv'
<1> PICK out : out = Outcome(contact[c], {}, e)
    OBVIOUS
<1>1. Finish(<<t, c>>, out) /\ out.contact = contact[c]
    BY DEF Outcome
<1> QED BY <1>1, OneContact, WorldUnchanged, FinishKeeps

LEMMA CheckAccountKeeps ==
    ASSUME IInv, NEW c \in Contacts, CheckAccount(c)
    PROVE  IInv'
<1> DEFINE t == "CHECK_BALE_ACCOUNT"
<1>1. t \in JobType /\ Due(<<t, c>>) /\ UNCHANGED world /\ link' \in {"none", "real", "fake"}
    BY DEF CheckAccount, JobType, IInv, TypeOK
<1>2. ASSUME NEW answer \in CheckAnswers(c), Finish(<<t, c>>, process_contact(contact[c], answer))
      PROVE  IInv'
    <2>1. /\ answer \in {"HAS_ACCOUNT", "NO_ACCOUNT", "flood", "config", "error"}
          /\ answer = "HAS_ACCOUNT" => c \in Addressees
        BY OneContact DEF CheckAnswers, Fits, Addressees
    <2> PICK out : out = process_contact(contact[c], answer)
        OBVIOUS
    <2>2. /\ out.contact \in Contact /\ out.contact.direct = contact[c].direct
          /\ Fits(out.contact, c, Addressees, been, invites[c], dms[c], lost)
        BY <2>1, OneContact, CheckFits
    <2> QED BY <1>1, <1>2, <2>2, WorldUnchanged, FinishKeeps
<1>3. CASE Finish(<<t, c>>, DryOutcome(contact[c]))
    BY <1>1, <1>3, LeftAsItIs DEF DryOutcome
<1> QED BY <1>2, <1>3 DEF CheckAccount

(* The transaction of an invitation, as far as the messenger has done what *)
(* the answer says.                                                        *)
LEMMA InvitationKeeps ==
    ASSUME IInv, NEW c \in Contacts, Due(<<"DIRECT_INVITE", c>>), link' = link,
           NEW answer, NEW out, Counted(contact[c], answer, out),
           Finish(<<"DIRECT_INVITE", c>>, out), WorldMoves(c), dms'[c] = dms[c],
           invites'[c] = invites[c] \/ (c \in Addressees /\ invites'[c] = invites[c] + 1),
           answer = "SUCCESS" => c \in been'
    PROVE  IInv'
<1>1. contact[c].attempts \in Nat
    BY OneContact DEF Contact
<1>2. Fits(out.contact, c, Addressees, been', invites'[c], dms'[c], lost)
    BY <1>1, OneContact DEF Fits, WorldMoves, Counted
<1>3. "DIRECT_INVITE" \in JobType /\ link' \in {"none", "real", "fake"}
    BY DEF JobType, IInv, TypeOK
<1> QED BY <1>2, <1>3, FinishKeeps DEF Counted

LEMMA DirectInviteKeeps ==
    ASSUME IInv, NEW c \in Contacts, DirectInvite(c)
    PROVE  IInv'
<1> DEFINE Result(answer) == process_direct_invite(contact[c], answer, env.group, env.strategy)
<1>1. "DIRECT_INVITE" \in JobType /\ Due(<<"DIRECT_INVITE", c>>) /\ link' = link /\ link' \in {"none", "real", "fake"}
    BY DEF DirectInvite, JobType, IInv, TypeOK
<1>2. contact[c].direct # "SUCCESS"
    BY <1>1, OneContact DEF Due, Waiting, Followed
<1>3. CASE ~CanInvite(c) /\ Finish(<<"DIRECT_INVITE", c>>, Result("SKIPPED")) /\ UNCHANGED world
    <2>1. "SKIPPED" \in {"SUCCESS", "FAILED", "SKIPPED", "flood"}
        OBVIOUS
    <2>2. /\ WorldMoves(c) /\ dms'[c] = dms[c]
          /\ invites'[c] = invites[c] \/ (c \in Addressees /\ invites'[c] = invites[c] + 1)
          /\ "SKIPPED" = "SUCCESS" => c \in been'
        BY <1>3, WorldUnchanged
    <2>3. PICK out : Counted(contact[c], "SKIPPED", out) /\ Finish(<<"DIRECT_INVITE", c>>, out)
        <3>1. Counted(contact[c], "SKIPPED", Result("SKIPPED"))
            BY <1>2, <2>1, OneContact, InviteCounts
        <3> QED BY <1>3, <3>1
    <2> QED BY <1>1, <2>2, <2>3, InvitationKeeps
<1>4. ASSUME CanInvite(c), NEW a \in InviteAnswers(c), Finish(<<"DIRECT_INVITE", c>>, Result(a.answer)),
             IF a.done THEN Added(c) ELSE UNCHANGED world
      PROVE  IInv'
    <2>1. c \in Addressees
        BY <1>4, OneContact DEF CanInvite, Fits
    <2>2. /\ a.answer \in {"SUCCESS", "FAILED", "SKIPPED", "flood"}
          /\ a.answer = "SUCCESS" /\ ~a.done => c \in been
        BY DEF InviteAnswers, Reply, IInv
    <2>3. /\ WorldMoves(c) /\ dms'[c] = dms[c]
          /\ invites'[c] = invites[c] \/ (c \in Addressees /\ invites'[c] = invites[c] + 1)
          /\ a.answer = "SUCCESS" => c \in been'
        <3>1. CASE a.done
            BY <1>4, <2>1, <3>1, AddedMoves
        <3>2. CASE ~a.done
            BY <1>4, <2>2, <3>2, WorldUnchanged
        <3> QED BY <3>1, <3>2
    <2>4. PICK out : Counted(contact[c], a.answer, out) /\ Finish(<<"DIRECT_INVITE", c>>, out)
        <3>1. Counted(contact[c], a.answer, Result(a.answer))
            BY <1>2, <2>2, OneContact, InviteCounts
        <3> QED BY <1>4, <3>1
    <2> QED BY <1>1, <2>1, <2>3, <2>4, InvitationKeeps
<1>5. CASE Finish(<<"DIRECT_INVITE", c>>, DryOutcome(contact[c])) /\ UNCHANGED world
    BY <1>1, <1>5, LeftAsItIs DEF DryOutcome
<1> QED BY <1>3, <1>4, <1>5 DEF DirectInvite

LEMMA LinkMissingKeeps ==
    ASSUME IInv, NEW c \in Contacts, LinkMissing(c)
    PROVE  IInv'
<1>1. "SEND_INVITE_LINK" \in JobType /\ link' \in {"none", "real", "fake"} /\ UNCHANGED world
    BY DEF LinkMissing, JobType, IInv, TypeOK
<1> QED BY <1>1, LeftAsItIs DEF LinkMissing

LEMMA SendInviteLinkKeeps ==
    ASSUME IInv, NEW c \in Contacts, SendInviteLink(c)
    PROVE  IInv'
<1> DEFINE t == "SEND_INVITE_LINK"
<1>1. t \in JobType /\ Due(<<t, c>>) /\ link' \in {"none", "real", "fake"}
    BY DEF SendInviteLink, Exported, JobType, IInv, TypeOK
<1>2. ASSUME NEW a \in SendAnswers(c), Finish(<<t, c>>, process_invite_link(contact[c], a.answer)),
             IF a.done THEN Delivered(c, a.answer = "SENT") ELSE UNCHANGED world
      PROVE  IInv'
    <2>1. /\ a.answer \in {"SENT", "FAILED", "flood"}
          /\ a.answer = "SENT" => a.done
          /\ a.done => contact[c].known
        BY DEF SendAnswers, Reply
    <2>2. /\ WorldMoves(c) /\ invites'[c] = invites[c] /\ been' = been
          /\ dms'[c] = IF a.done THEN dms[c] + 1 ELSE dms[c]
        BY <1>2, WorldUnchanged, DeliveredMoves
    <2> PICK out : out = process_invite_link(contact[c], a.answer)
        OBVIOUS
    <2>3. /\ out.contact \in Contact /\ out.contact.direct = contact[c].direct
          /\ Fits(out.contact, c, Addressees, been, invites[c], dms'[c], lost)
        BY <2>1, <2>2, OneContact, LinkFits
    <2> QED BY <1>1, <1>2, <2>2, <2>3, FinishKeeps
<1>3. CASE Finish(<<t, c>>, DryOutcome(contact[c])) /\ UNCHANGED world
    BY <1>1, <1>3, LeftAsItIs DEF DryOutcome
<1> QED BY <1>2, <1>3 DEF SendInviteLink

LEMMA CheckJoinKeeps ==
    ASSUME IInv, NEW c \in Contacts, CheckJoin(c)
    PROVE  IInv'
<1> DEFINE t == "CHECK_JOIN_STATUS"
<1>1. t \in JobType /\ Due(<<t, c>>) /\ UNCHANGED world /\ link' \in {"none", "real", "fake"}
    BY DEF CheckJoin, JobType, IInv, TypeOK
<1>2. ASSUME NEW answer \in JoinAnswers(c), Finish(<<t, c>>, process_join_check(contact[c], answer))
      PROVE  IInv'
    <2>1. /\ answer \in JoinStatus \cup {"flood", "config", "error"}
          /\ answer = "JOINED" => c \in been
        BY DEF JoinAnswers, JoinStatus, IInv
    <2> PICK out : out = process_join_check(contact[c], answer)
        OBVIOUS
    <2>2. /\ out.contact \in Contact /\ out.contact.direct = contact[c].direct
          /\ Fits(out.contact, c, Addressees, been, invites[c], dms[c], lost)
        BY <2>1, OneContact, JoinFits
    <2> QED BY <1>1, <1>2, <2>2, WorldUnchanged, FinishKeeps
<1>3. CASE Finish(<<t, c>>, DryOutcome(contact[c]))
    BY <1>1, <1>3, LeftAsItIs DEF DryOutcome
<1> QED BY <1>2, <1>3 DEF CheckJoin

(* A step that does nothing to a contact outside the queue *)
LEMMA QueueStepKeeps ==
    ASSUME IInv, TypeOK', UNCHANGED <<contact, world, lost>>,
           \A c \in Contacts : contact[c].direct = "SUCCESS" =>
               /\ job'[<<"DIRECT_INVITE", c>>].state = job[<<"DIRECT_INVITE", c>>].state
               /\ job[<<"CHECK_JOIN_STATUS", c>>].state # "none" =>
                    job'[<<"CHECK_JOIN_STATUS", c>>].state # "none"
    PROVE  IInv'
<1>1. (members \subseteq been)'
    BY DEF IInv, world
<1>2. ASSUME NEW c \in Contacts
      PROVE  Fits(contact[c], c, Addressees, been, invites[c], dms[c], lost)'
    BY OneContact DEF Fits, world, Addressees
<1>3. ASSUME NEW c \in Contacts
      PROVE  Followed(contact[c], c, job)'
    BY OneContact DEF Followed
<1> QED BY <1>1, <1>2, <1>3 DEF IInv

(* A command goes on to its next phase. *)
LEMMA PhaseEnds ==
    ASSUME IInv, ~Idle, command' = [command EXCEPT !.phases = Tail(@)]
    PROVE  command' \in [phases : Seq(Phases), adapter : Adapters,
                         strategy : Strategies \cup {"configured"}, errors : BOOLEAN]
<1>1. command.phases \in Seq(Phases) /\ command.phases # <<>>
    BY DEF Idle, IInv, TypeOK
<1> DEFINE ps == command.phases
           rest == Tail(ps)
<1>2. rest \in Seq(Phases)
    <2> HIDE DEF ps
    <2> QED BY <1>1 DEF ps
<1>3. command' = [command EXCEPT !.phases = rest]
    OBVIOUS
<1> HIDE DEF rest
<1> QED BY <1>2, <1>3 DEF IInv, TypeOK

(* An invitation is queued for nobody whose invitation succeeded. *)
LEMMA QueuePhaseKeeps ==
    ASSUME IInv, QueuePhase
    PROVE  IInv'
<1>1. job \in [Keys -> Job] /\ job' = Enqueued(job, Queued(Phase), "due")
    BY DEF QueuePhase, IInv, TypeOK
<1>2. /\ job' \in [Keys -> Job]
      /\ \A k \in Keys : /\ k \notin Queued(Phase) => job'[k] = job[k]
                         /\ job[k].state # "none" => job'[k].state # "none"
    BY <1>1, EnqueuedJobs
<1>3. command' \in [phases : Seq(Phases), adapter : Adapters,
                    strategy : Strategies \cup {"configured"}, errors : BOOLEAN]
    BY PhaseEnds DEF QueuePhase
<1>4. TypeOK' /\ UNCHANGED <<contact, world, lost>>
    BY <1>2, <1>3 DEF QueuePhase, IInv, TypeOK, world, Addressees
<1>5. ASSUME NEW c \in Contacts, contact[c].direct = "SUCCESS"
      PROVE  <<"DIRECT_INVITE", c>> \notin Queued(Phase)
    BY <1>5 DEF Queued, QueuePhase, JobsOf, list_for_direct_invite
<1>6. \A c \in Contacts : <<"DIRECT_INVITE", c>> \in Keys /\ <<"CHECK_JOIN_STATUS", c>> \in Keys
    BY DEF Keys, JobType
<1> QED BY <1>2, <1>4, <1>5, <1>6, QueueStepKeeps

LEMMA CommandStepKeeps ==
    ASSUME IInv, Start \/ PrepareGroup \/ Drained \/ Interrupt
    PROVE  IInv'
<1>1. UNCHANGED <<contact, job, world, lost>>
    BY DEF Start, PrepareGroup, Drained, Interrupt, db, world
<1>2. command' \in [phases : Seq(Phases), adapter : Adapters,
                    strategy : Strategies \cup {"configured"}, errors : BOOLEAN]
    <2>1. CASE Start
        BY <2>1, InviteRunsAssumption DEF Start
    <2>2. CASE PrepareGroup \/ Drained
        BY <2>2, PhaseEnds DEF PrepareGroup, Drained
    <2>3. CASE Interrupt
        BY <2>3 DEF Interrupt, NoCommand, Adapters
    <2> QED BY <2>1, <2>2, <2>3
<1>3. env' \in Environments /\ commands' \in Nat /\ link' \in {"none", "real", "fake"}
    BY DEF Start, PrepareGroup, Drained, Interrupt, Exported, db, IInv, TypeOK
<1>4. TypeOK'
    BY <1>1, <1>2, <1>3 DEF IInv, TypeOK, world, Addressees
<1> QED BY <1>1, <1>4, QueueStepKeeps

LEMMA RipenKeeps ==
    ASSUME IInv, NEW k \in Keys, Ripen(k)
    PROVE  IInv'
<1>1. UNCHANGED <<contact, world, lost>> /\ TypeOK'
    BY DEF Ripen, run, world, IInv, TypeOK, Job, JobState, Addressees
<1>2. ASSUME NEW c \in Contacts, contact[c].direct = "SUCCESS"
      PROVE  <<"DIRECT_INVITE", c>> # k
    BY <1>2, OneContact DEF Followed, Waiting, Ripen
<1>3. \A c \in Contacts : <<"DIRECT_INVITE", c>> \in Keys /\ <<"CHECK_JOIN_STATUS", c>> \in Keys
    BY DEF Keys, JobType
<1>4. ASSUME NEW c \in Contacts, contact[c].direct = "SUCCESS"
      PROVE  /\ job'[<<"DIRECT_INVITE", c>>].state = job[<<"DIRECT_INVITE", c>>].state
             /\ job[<<"CHECK_JOIN_STATUS", c>>].state # "none" =>
                    job'[<<"CHECK_JOIN_STATUS", c>>].state # "none"
    <2>1. <<"DIRECT_INVITE", c>> # k
        BY <1>2, <1>4
    <2>2. job'[<<"DIRECT_INVITE", c>>] = job[<<"DIRECT_INVITE", c>>]
        BY <1>3, <2>1 DEF Ripen, IInv, TypeOK
    <2>3. job[<<"CHECK_JOIN_STATUS", c>>].state # "none" =>
            job'[<<"CHECK_JOIN_STATUS", c>>].state # "none"
        BY <1>3 DEF Ripen, IInv, TypeOK, Job
    <2> QED BY <2>2, <2>3
<1> QED BY <1>1, <1>4, QueueStepKeeps

(* What is rolled back is counted as lost. *)
LEMMA InterruptAfterKeeps ==
    ASSUME IInv, NEW c \in Contacts, InterruptAfter(c)
    PROVE  IInv'
<1>1. contact' = contact /\ job' = job /\ link' = link /\ lost' = lost + 1
    BY DEF InterruptAfter, db
<1>2. c \in Addressees
    BY OneContact DEF InterruptAfter, CanInvite, Fits
<1>3. /\ WorldMoves(c)
      /\ invites'[c] + dms'[c] = invites[c] + dms[c] + 1 /\ dms'[c] >= dms[c]
    <2>1. CASE Added(c)
        BY <1>2, <2>1, AddedMoves, OneContact
    <2>2. CASE Delivered(c, FALSE)
        <3> PICK heard : heard = FALSE
            OBVIOUS
        <3>1. Delivered(c, heard)
            BY <2>2
        <3>2. WorldMoves(c) /\ invites' = invites /\ dms'[c] = dms[c] + 1
            BY <3>1, DeliveredMoves
        <3> QED BY <3>2, OneContact
    <2> QED BY <2>1, <2>2 DEF InterruptAfter
<1>4. TypeOK' /\ (members \subseteq been)'
    BY <1>1, <1>3 DEF InterruptAfter, NoCommand, Adapters, WorldMoves, IInv, TypeOK
<1>5. ASSUME NEW d \in Contacts
      PROVE  Fits(contact[d], d, Addressees, been, invites[d], dms[d], lost)'
    <2>1. contact[d].attempts \in Nat
        BY OneContact DEF Contact
    <2>2. invites'[d] \in Nat /\ dms'[d] \in Nat
        BY <1>3 DEF WorldMoves
    <2>3. CASE d = c
        BY <1>1, <1>2, <1>3, <2>1, <2>2, <2>3, OneContact DEF Fits, WorldMoves
    <2>4. CASE d # c
        BY <1>1, <1>3, <2>1, <2>4, OneContact DEF Fits, WorldMoves
    <2> QED BY <2>3, <2>4
<1>6. ASSUME NEW d \in Contacts
      PROVE  Followed(contact[d], d, job)'
    BY <1>1, OneContact DEF Followed
<1> QED BY <1>4, <1>5, <1>6 DEF IInv

LEMMA WorldStepKeeps ==
    ASSUME IInv, NEW c \in Contacts, Join(c) \/ LeaveGroup(c)
    PROVE  IInv'
<1>1. /\ UNCHANGED <<contact, job, Addressees, invites, dms, lost>>
      /\ been \subseteq been' /\ (members \subseteq been)'
      /\ TypeOK'
    BY DEF Join, LeaveGroup, db, run, IInv, TypeOK, Addressees
<1>2. ASSUME NEW d \in Contacts
      PROVE  /\ Fits(contact[d], d, Addressees, been, invites[d], dms[d], lost)'
             /\ Followed(contact[d], d, job)'
    BY <1>1, OneContact DEF Fits, Followed
<1> QED BY <1>1, <1>2 DEF IInv

(* Whoever is given an id is no stranger. *)
LEMMA ImportKeeps ==
    ASSUME IInv, NEW c \in Contacts, Import(c)
    PROVE  IInv'
<1>1. /\ contact' = [contact EXCEPT ![c].known = TRUE] /\ job' = job
      /\ UNCHANGED <<members, been, invites, dms, lost>>
      /\ Addressees' = Addressees \cup {c}
    BY DEF Import, Addressees
<1>2. /\ contact' \in [Contacts -> Contact]
      /\ \A d \in Contacts :
            /\ contact'[d].known => contact[d].known \/ d = c
            /\ contact'[d].direct = contact[d].direct /\ contact'[d].link = contact[d].link
            /\ contact'[d].join = contact[d].join /\ contact'[d].attempts = contact[d].attempts
    BY <1>1 DEF IInv, TypeOK, Contact
<1>3. TypeOK' /\ (members \subseteq been)'
    BY <1>1, <1>2 DEF Import, run, IInv, TypeOK
<1>4. ASSUME NEW d \in Contacts
      PROVE  /\ Fits(contact[d], d, Addressees, been, invites[d], dms[d], lost)'
             /\ Followed(contact[d], d, job)'
    BY <1>1, <1>2, OneContact DEF Fits, Followed
<1> QED BY <1>3, <1>4 DEF IInv

-----------------------------------------------------------------------------
(* The invariant *)

LEMMA InitFits == Init => IInv
<1> SUFFICES ASSUME Init PROVE IInv
    OBVIOUS
<1>1. \A known \in BOOLEAN : [NewContact EXCEPT !.known = known] \in Contact
    BY DEF NewContact, Contact, BaleAccountStatus, DirectInviteStatus, InviteLinkStatus, JoinStatus
<1>2. NoCommand \in [phases : Seq(Phases), adapter : Adapters,
                     strategy : Strategies \cup {"configured"}, errors : BOOLEAN]
    BY DEF NoCommand, Adapters
<1>3. TypeOK
    <2>1. contact \in [Contacts -> Contact]
        <3>1. \A c \in Contacts : (c \in given) \in BOOLEAN
            OBVIOUS
        <3>2. \A c \in Contacts : [NewContact EXCEPT !.known = c \in given] \in Contact
            BY ONLY <1>1, <3>1, Zenon
        <3> QED BY <3>2, Zenon DEF Init
    <2>2. job \in [Keys -> Job] /\ env \in Environments /\ link \in {"none", "real", "fake"}
        BY DEF Init, Job, JobState
    <2>3. /\ accounts \subseteq Contacts /\ given \subseteq Contacts
          /\ members \subseteq Addressees /\ been \subseteq Addressees /\ got \subseteq Contacts
        BY DEF Init, Addressees
    <2> QED BY <1>2, <2>1, <2>2, <2>3 DEF Init, TypeOK
<1>4. ASSUME NEW c \in Contacts
      PROVE  /\ Fits(contact[c], c, Addressees, been, invites[c], dms[c], lost)
             /\ Followed(contact[c], c, job)
    <2>1. /\ contact[c].direct = "NOT_STARTED" /\ contact[c].join = "UNKNOWN"
          /\ contact[c].link = "NOT_SENT" /\ contact[c].attempts = 0
          /\ contact[c].known <=> c \in given
        BY DEF Init, NewContact
    <2> QED BY <2>1 DEF Init, Fits, Followed, Addressees
<1> QED BY <1>3, <1>4 DEF Init, IInv

LEMMA StepFits == IInv /\ [Next]_vars => IInv'
<1> SUFFICES ASSUME IInv, [Next]_vars PROVE IInv'
    OBVIOUS
<1>1. CASE Start \/ PrepareGroup \/ Drained \/ Interrupt
    BY <1>1, CommandStepKeeps
<1>2. CASE QueuePhase
    BY <1>2, QueuePhaseKeeps
<1>3. ASSUME NEW c \in Contacts, Work(c)
      PROVE  IInv'
    BY <1>3, CheckAccountKeeps, DirectInviteKeeps, LinkMissingKeeps, SendInviteLinkKeeps,
       CheckJoinKeeps DEF Work
<1>4. ASSUME NEW c \in Contacts, InterruptAfter(c)
      PROVE  IInv'
    BY <1>4, InterruptAfterKeeps
<1>5. ASSUME NEW k \in Keys, Ripen(k)
      PROVE  IInv'
    BY <1>5, RipenKeeps
<1>6. ASSUME NEW c \in Contacts, Import(c) \/ Join(c) \/ LeaveGroup(c)
      PROVE  IInv'
    BY <1>6, ImportKeeps, WorldStepKeeps
<1>7. CASE UNCHANGED vars
    BY <1>7 DEF vars, db, run, world, IInv, TypeOK, Fits, Followed, Addressees
<1> QED BY <1>1, <1>2, <1>3, <1>4, <1>5, <1>6, <1>7 DEF Next

LEMMA Inductive == Spec => []IInv
BY InitFits, StepFits, PTL DEF Spec

-----------------------------------------------------------------------------
(* Whom jobs are for *)

(* An invitation or the link is queued only for those with an id, and the  *)
(* link again only where an invitation in person has been tried.           *)
Listed(r, c, q) ==
    /\ q[<<"DIRECT_INVITE", c>>].state # "none" => r.known
    /\ q[<<"SEND_INVITE_LINK", c>>].state # "none" => r.known
    /\ Waiting(q[<<"SEND_INVITE_LINK", c>>].state) /\ r.link = "SENT" => r.direct # "NOT_STARTED"

AllListed == \A c \in Contacts : Listed(contact[c], c, job)

(* What the handler of a job of type t may make of r, and queue for it     *)
Suits(r, t, out) ==
    /\ r.known => out.contact.known
    /\ r.direct # "NOT_STARTED" => out.contact.direct # "NOT_STARTED"
    /\ "SEND_INVITE_LINK" \in out.follow => r.known /\ out.contact.direct # "NOT_STARTED"
    /\ out.contact.link = "SENT" => r.link = "SENT" \/ (t = "SEND_INVITE_LINK" /\ out.ends = "done")
    /\ t # "SEND_INVITE_LINK" => out.contact.link = r.link

(* A check touches neither the invitation nor the link nor the membership. *)
LEMMA CheckSuits ==
    ASSUME NEW r \in Contact, NEW answer \in {"HAS_ACCOUNT", "NO_ACCOUNT", "flood", "config", "error"}
    PROVE  LET out == process_contact(r, answer)
           IN  /\ Suits(r, "CHECK_BALE_ACCOUNT", out)
               /\ out.contact.direct = r.direct /\ out.contact.link = r.link
               /\ out.contact.join = r.join
<1> DEFINE status == IF answer \in Raised THEN "ERROR" ELSE answer
           found  == [record_attempt(r) EXCEPT !.known = @ \/ answer = "HAS_ACCOUNT"]
           after  == set_bale_account_status(found, status)
<1>1. process_contact(r, answer).contact = after /\ process_contact(r, answer).follow = {}
    BY DEF process_contact, Outcome
<1>2. /\ r.known => found.known
      /\ found.direct = r.direct /\ found.link = r.link /\ found.join = r.join
    BY Attempted DEF Contact
<1>3. found = [record_attempt(r) EXCEPT !.known = r.known \/ answer = "HAS_ACCOUNT"]
    BY Attempted
<1>4. found \in Contact
    <2>1. (r.known \/ answer = "HAS_ACCOUNT") \in BOOLEAN
        OBVIOUS
    <2> HIDE DEF found
    <2> QED BY <1>3, <2>1, Attempted DEF Contact
<1>5. /\ after.known = found.known
      /\ after.direct = found.direct /\ after.link = found.link /\ after.join = found.join
    <2> HIDE DEF found, status
    <2> QED BY <1>4 DEF Contact, set_bale_account_status
<1> HIDE DEF found, after
<1> QED BY <1>1, <1>2, <1>5 DEF Suits

(* The link is queued for whoever was asked to join and refused. *)
LEMMA InviteSuits ==
    ASSUME NEW r \in Contact, r.direct # "SUCCESS", NEW hasGroup, NEW strategy,
           NEW answer \in {"SUCCESS", "FAILED", "SKIPPED", "flood"}
    PROVE  Suits(r, "DIRECT_INVITE", process_direct_invite(r, answer, hasGroup, strategy))
<1> DEFINE asked  == r.known /\ hasGroup
           status == CASE ~asked                         -> "SKIPPED"
                       [] asked /\ answer \in Raised     -> "FAILED"
                       [] asked /\ answer \notin Raised  -> answer
           moved  == set_direct_invite_status(record_attempt(r), status)
           out    == process_direct_invite(r, answer, hasGroup, strategy)
<1>1. status \in DirectInviteStatus \ {"NOT_STARTED"}
    BY DEF Raised, DirectInviteStatus
<1>2. status \in DIRECT_INVITE_TRANSITIONS(r.direct)
    BY <1>1 DEF DIRECT_INVITE_TRANSITIONS
<1>3. moved.known = r.known /\ moved.direct = status /\ moved.link = r.link
    BY <1>1, <1>2, Attempted DEF Contact, set_direct_invite_status
<1>4. out.contact = moved /\ ("SEND_INVITE_LINK" \in out.follow => asked)
    BY <1>2 DEF process_direct_invite, Outcome, JobType
<1> QED BY <1>1, <1>3, <1>4 DEF Suits

(* Without an id or a group the handler gives up. *)
LEMMA SkippedWithout ==
    ASSUME NEW r \in Contact, r.direct # "SUCCESS", NEW hasGroup, NEW strategy,
           ~(r.known /\ hasGroup)
    PROVE  process_direct_invite(r, "SKIPPED", hasGroup, strategy).contact.direct = "SKIPPED"
<1> DEFINE moved == set_direct_invite_status(record_attempt(r), "SKIPPED")
<1>1. "SKIPPED" \in DIRECT_INVITE_TRANSITIONS(r.direct)
    BY DEF DIRECT_INVITE_TRANSITIONS, DirectInviteStatus
<1>2. process_direct_invite(r, "SKIPPED", hasGroup, strategy).contact = moved
    BY <1>1 DEF process_direct_invite, Outcome
<1>3. moved.direct = "SKIPPED"
    BY <1>1, Attempted DEF Contact, set_direct_invite_status
<1> QED BY <1>2, <1>3

(* A link that is SENT is not in the queue any more. *)
LEMMA LinkSuits ==
    ASSUME NEW r \in Contact, NEW answer \in {"SENT", "FAILED", "flood"}
    PROVE  Suits(r, "SEND_INVITE_LINK", process_invite_link(r, answer))
<1> DEFINE status == IF ~r.known \/ answer \in Raised THEN "FAILED" ELSE answer
           after  == set_invite_link_status(record_attempt(r), status)
           out    == process_invite_link(r, answer)
<1>1. /\ out.contact = after /\ out.follow = {}
      /\ out.ends = IF r.known THEN Ends(answer) ELSE "done"
    BY DEF process_invite_link, Outcome
<1>2. status \in InviteLinkStatus /\ (status = "SENT" => answer = "SENT")
    BY DEF Raised, InviteLinkStatus
<1>3. after.known = r.known /\ after.direct = r.direct /\ after.link \in {r.link, status}
    BY <1>2, Attempted DEF Contact, set_invite_link_status
<1>4. answer = "SENT" => Ends(answer) = "done"
    BY DEF Ends, Raised
<1> QED BY <1>1, <1>2, <1>3, <1>4 DEF Suits

LEMMA JoinSuits ==
    ASSUME NEW r \in Contact, NEW answer \in JoinStatus \cup {"flood", "config", "error"}
    PROVE  Suits(r, "CHECK_JOIN_STATUS", process_join_check(r, answer))
<1> DEFINE after == set_join_status(record_attempt(r), answer)
           out   == process_join_check(r, answer)
<1>1. out.follow = {} /\ out.contact \in {r, after}
    BY DEF process_join_check, Outcome
<1>2. after.known = r.known /\ after.direct = r.direct /\ after.link = r.link
    BY Attempted DEF Contact, set_join_status
<1> QED BY <1>1, <1>2 DEF Suits

LEMMA UntouchedSuits ==
    ASSUME NEW r, NEW t, NEW e
    PROVE  Suits(r, t, Outcome(r, {}, e))
BY DEF Suits, Outcome

(* A job's transaction adds none of these jobs but the link for c. *)
LEMMA FinishAdds ==
    ASSUME job \in [Keys -> Job], NEW t \in JobType, NEW c \in Contacts, NEW out,
           Due(<<t, c>>), Finish(<<t, c>>, out),
           NEW u \in {"DIRECT_INVITE", "SEND_INVITE_LINK"}, NEW d \in Contacts
    PROVE  \/ u = "SEND_INVITE_LINK" /\ d = c /\ "SEND_INVITE_LINK" \in out.follow
           \/ /\ job'[<<u, d>>].state # "none" => job[<<u, d>>].state # "none"
              /\ Waiting(job'[<<u, d>>].state) => Waiting(job[<<u, d>>].state)
<1> DEFINE k      == <<t, c>>
           j      == <<u, d>>
           links  == JobsOf("SEND_INVITE_LINK", {e \in {c} : "SEND_INVITE_LINK" \in out.follow})
           joins  == JobsOf("CHECK_JOIN_STATUS", {e \in {c} : "CHECK_JOIN_STATUS" \in out.follow})
           linked == Enqueued(job, links, "due")
           joined == Enqueued(linked, joins, "later")
<1> SUFFICES ASSUME ~(u = "SEND_INVITE_LINK" /\ d = c /\ "SEND_INVITE_LINK" \in out.follow)
             PROVE  /\ job'[j].state # "none" => job[j].state # "none"
                    /\ Waiting(job'[j].state) => Waiting(job[j].state)
    OBVIOUS
<1>1. k \in Keys /\ j \in Keys
    BY DEF Keys, JobType
<1>2. job' = [joined EXCEPT ![k] = Settled(k, out.ends)]
    BY DEF Finish
<1>3. j \notin links /\ j \notin joins
    BY DEF JobsOf
<1>4. linked \in [Keys -> Job] /\ linked[j] = job[j]
    <2> HIDE DEF links, j
    <2> QED BY <1>1, <1>3, EnqueuedJobs
<1>5. joined \in [Keys -> Job] /\ joined[j] = linked[j]
    <2> HIDE DEF linked, joins, j
    <2> QED BY <1>1, <1>3, <1>4, EnqueuedJobs
<1>6. CASE j # k
    <2> HIDE DEF joined, linked, links, joins, j, k
    <2> QED BY <1>1, <1>2, <1>4, <1>5, <1>6
<1>7. CASE j = k
    <2>1. job[k].state = "due"
        BY DEF Due
    <2> QED BY <1>7, <2>1 DEF Waiting
<1> QED BY <1>6, <1>7

LEMMA FinishKeepsListed ==
    ASSUME IInv, AllListed, NEW t \in JobType, NEW c \in Contacts, NEW out,
           Due(<<t, c>>), Finish(<<t, c>>, out), Suits(contact[c], t, out)
    PROVE  AllListed'
<1>1. job \in [Keys -> Job] /\ contact \in [Contacts -> Contact]
    BY DEF IInv, TypeOK
<1>2. contact' = [contact EXCEPT ![c] = out.contact]
    BY DEF Finish
<1>3. out.ends = "done" => ~Waiting(job'[<<t, c>>].state)
    BY <1>1, FinishJobs
<1>4. ASSUME NEW d \in Contacts
      PROVE  Listed(contact[d], d, job)'
    <2>1. /\ job'[<<"DIRECT_INVITE", d>>].state # "none" => job[<<"DIRECT_INVITE", d>>].state # "none"
          /\ Listed(contact[d], d, job)
        BY <1>1, FinishAdds DEF AllListed
    <2>2. \/ d = c /\ "SEND_INVITE_LINK" \in out.follow
          \/ /\ job'[<<"SEND_INVITE_LINK", d>>].state # "none" => job[<<"SEND_INVITE_LINK", d>>].state # "none"
             /\ Waiting(job'[<<"SEND_INVITE_LINK", d>>].state) => Waiting(job[<<"SEND_INVITE_LINK", d>>].state)
        BY <1>1, FinishAdds
    <2>3. CASE d = c
        <3>1. contact'[d] = out.contact
            BY <1>1, <1>2, <2>3
        <3>2. t = "SEND_INVITE_LINK" /\ out.ends = "done" =>
                ~Waiting(job'[<<"SEND_INVITE_LINK", d>>].state)
            BY <1>3, <2>3
        <3> QED BY <2>1, <2>2, <2>3, <3>1, <3>2 DEF Listed, Suits
    <2>4. CASE d # c
        <3>1. contact'[d] = contact[d]
            BY <1>1, <1>2, <2>4
        <3> QED BY <2>1, <2>2, <2>4, <3>1 DEF Listed
    <2> QED BY <2>3, <2>4
<1> QED BY <1>4 DEF AllListed

(* A job that sends nothing tells nobody anything. *)
Quiet(r, out) ==
    /\ UNCHANGED <<dms, unheard, got>> /\ out.contact.link = r.link
    /\ link = "fake" => link' = "fake"

(* The messenger's answer to a message, and what the message said *)
Answered(c, t, out) ==
    /\ t = "SEND_INVITE_LINK"
    /\ \E a \in SendAnswers(c) :
        /\ out = process_invite_link(contact[c], a.answer)
        /\ IF a.done THEN Delivered(c, a.answer = "SENT") ELSE UNCHANGED world
        /\ a.done => LinkInMessage = "real" \/ link' = "fake"
    /\ link = "fake" => link' = "fake"

(* What a job does to its contact and to the people *)
LEMMA WorkSuits ==
    ASSUME IInv, NEW c \in Contacts, Work(c)
    PROVE  \E t \in JobType : \E out :
                /\ Due(<<t, c>>) /\ Finish(<<t, c>>, out) /\ Suits(contact[c], t, out)
                /\ Quiet(contact[c], out) \/ Answered(c, t, out)
<1> DEFINE Goal(t) == \E out :
                /\ Due(<<t, c>>) /\ Finish(<<t, c>>, out) /\ Suits(contact[c], t, out)
                /\ Quiet(contact[c], out) \/ Answered(c, t, out)
<1>1. CASE CheckAccount(c)
    <2> DEFINE t == "CHECK_BALE_ACCOUNT"
    <2>1. Due(<<t, c>>) /\ UNCHANGED <<dms, unheard, got, link>>
        BY <1>1 DEF CheckAccount, world
    <2>2. PICK out : Finish(<<t, c>>, out) /\ Suits(contact[c], t, out)
        <3>1. \A answer \in CheckAnswers(c) :
                answer \in {"HAS_ACCOUNT", "NO_ACCOUNT", "flood", "config", "error"}
            BY DEF CheckAnswers
        <3> QED BY <1>1, <3>1, OneContact, CheckSuits, UntouchedSuits DEF CheckAccount, DryOutcome
    <2>3. Goal(t)
        BY <2>1, <2>2 DEF Quiet, Suits
    <2> QED BY <2>3 DEF JobType
<1>2. CASE DirectInvite(c)
    <2> DEFINE t == "DIRECT_INVITE"
    <2>1. Due(<<t, c>>) /\ UNCHANGED <<dms, unheard, got, link>>
        BY <1>2 DEF DirectInvite, Added, world
    <2>2. contact[c].direct # "SUCCESS"
        BY <2>1, OneContact DEF Due, Waiting, Followed
    <2>3. PICK out : Finish(<<t, c>>, out) /\ Suits(contact[c], t, out)
        <3>1. \A a \in InviteAnswers(c) : a.answer \in {"SUCCESS", "FAILED", "SKIPPED", "flood"}
            BY DEF InviteAnswers, Reply
        <3> QED BY <1>2, <2>2, <3>1, OneContact, InviteSuits, UntouchedSuits DEF DirectInvite, DryOutcome
    <2>4. Goal(t)
        BY <2>1, <2>3 DEF Quiet, Suits
    <2> QED BY <2>4 DEF JobType
<1>3. CASE LinkMissing(c) \/ SendInviteLink(c)
    <2> DEFINE t == "SEND_INVITE_LINK"
    <2>1. Due(<<t, c>>) /\ (link = "fake" => link' = "fake")
        BY <1>3 DEF LinkMissing, SendInviteLink, NeedsLink
    <2>2. ASSUME NEW e, Finish(<<t, c>>, Outcome(contact[c], {}, e)), UNCHANGED world
          PROVE  Goal(t)
        <3> PICK out : out = Outcome(contact[c], {}, e)
            OBVIOUS
        <3>1. Suits(contact[c], t, out) /\ out.contact = contact[c]
            BY UntouchedSuits DEF Outcome
        <3> QED BY <2>1, <2>2, <3>1 DEF Quiet, world
    <2>3. ASSUME NEW a \in SendAnswers(c), SendInviteLink(c),
                 command.adapter = "telegram" \/ ~contact[c].known,
                 Finish(<<t, c>>, process_invite_link(contact[c], a.answer)),
                 IF a.done THEN Delivered(c, a.answer = "SENT") ELSE UNCHANGED world
          PROVE  Goal(t)
        <3> PICK out : out = process_invite_link(contact[c], a.answer)
            OBVIOUS
        <3>1. a.answer \in {"SENT", "FAILED", "flood"} /\ (a.done => contact[c].known)
            BY DEF SendAnswers, Reply
        <3>2. Suits(contact[c], t, out)
            BY <3>1, OneContact, LinkSuits
        <3>3. a.done => LinkInMessage = "real" \/ link' = "fake"
            <4>1. link \in {"none", "real", "fake"} /\ env.link \in BOOLEAN
                BY InviteRunsAssumption DEF IInv, TypeOK
            <4> QED BY <2>1, <2>3, <3>1, <4>1 DEF LinkInMessage, Exported
        <3>4. Answered(c, t, out)
            BY <2>1, <2>3, <3>3 DEF Answered
        <3> QED BY <2>1, <2>3, <3>2, <3>4
    <2>4. Goal(t)
        BY <1>3, <2>2, <2>3 DEF LinkMissing, SendInviteLink, DryOutcome
    <2> QED BY <2>4 DEF JobType
<1>4. CASE CheckJoin(c)
    <2> DEFINE t == "CHECK_JOIN_STATUS"
    <2>1. Due(<<t, c>>) /\ UNCHANGED <<dms, unheard, got, link>>
        BY <1>4 DEF CheckJoin, world
    <2>2. PICK out : Finish(<<t, c>>, out) /\ Suits(contact[c], t, out)
        <3>1. \A answer \in JoinAnswers(c) : answer \in JoinStatus \cup {"flood", "config", "error"}
            BY DEF JoinAnswers, JoinStatus
        <3> QED BY <1>4, <3>1, OneContact, JoinSuits, UntouchedSuits DEF CheckJoin, DryOutcome
    <2>3. Goal(t)
        BY <2>1, <2>2 DEF Quiet, Suits
    <2> QED BY <2>3 DEF JobType
<1> QED BY <1>1, <1>2, <1>3, <1>4 DEF Work

(* What is left of the contact's job when a handler is done *)
LEMMA WorkKeepsListed ==
    ASSUME IInv, AllListed, NEW c \in Contacts, Work(c)
    PROVE  AllListed'
<1>1. PICK t \in JobType : \E out :
            Due(<<t, c>>) /\ Finish(<<t, c>>, out) /\ Suits(contact[c], t, out)
    BY WorkSuits
<1>2. PICK out : Due(<<t, c>>) /\ Finish(<<t, c>>, out) /\ Suits(contact[c], t, out)
    BY <1>1
<1> QED BY <1>2, FinishKeepsListed

LEMMA QueuePhaseKeepsListed ==
    ASSUME IInv, AllListed, QueuePhase
    PROVE  AllListed'
<1>1. job \in [Keys -> Job] /\ job' = Enqueued(job, Queued(Phase), "due") /\ contact' = contact
    BY DEF QueuePhase, IInv, TypeOK
<1>2. \A k \in Keys : k \notin Queued(Phase) => job'[k] = job[k]
    BY <1>1, EnqueuedJobs
<1>3. ASSUME NEW c \in Contacts
      PROVE  Listed(contact[c], c, job)'
    <2>1. <<"DIRECT_INVITE", c>> \in Keys /\ <<"SEND_INVITE_LINK", c>> \in Keys
        BY DEF Keys, JobType
    <2>2. <<"DIRECT_INVITE", c>> \in Queued(Phase) => contact[c].known
        BY DEF Queued, QueuePhase, JobsOf, list_for_direct_invite
    <2>3. <<"SEND_INVITE_LINK", c>> \in Queued(Phase) => contact[c].known /\ contact[c].link # "SENT"
        BY DEF Queued, QueuePhase, JobsOf, list_for_invite_link
    <2> QED BY <1>1, <1>2, <2>1, <2>2, <2>3 DEF AllListed, Listed
<1> QED BY <1>3 DEF AllListed

LEMMA RipenKeepsListed ==
    ASSUME IInv, AllListed, NEW k \in Keys, Ripen(k)
    PROVE  AllListed'
<1>1. contact' = contact /\ job \in [Keys -> Job]
    BY DEF Ripen, IInv, TypeOK
<1>2. \A j \in Keys : /\ job'[j].state # "none" => job[j].state # "none"
                      /\ Waiting(job'[j].state) => Waiting(job[j].state)
    BY <1>1 DEF Ripen, Waiting, Job
<1>3. ASSUME NEW c \in Contacts
      PROVE  Listed(contact[c], c, job)'
    <2>1. <<"DIRECT_INVITE", c>> \in Keys /\ <<"SEND_INVITE_LINK", c>> \in Keys
        BY DEF Keys, JobType
    <2> QED BY <1>1, <1>2, <2>1 DEF AllListed, Listed
<1> QED BY <1>3 DEF AllListed

LEMMA ImportKeepsListed ==
    ASSUME IInv, AllListed, NEW c \in Contacts, Import(c)
    PROVE  AllListed'
<1>1. /\ job' = job
      /\ \A d \in Contacts :
            /\ contact[d].known => contact'[d].known
            /\ contact'[d].direct = contact[d].direct /\ contact'[d].link = contact[d].link
    BY DEF Import, IInv, TypeOK, Contact
<1> QED BY <1>1 DEF AllListed, Listed

LEMMA ListedFirst == Init => AllListed
BY DEF Init, AllListed, Listed, Waiting, Keys, JobType, NewContact

LEMMA StepKeepsListed == IInv /\ AllListed /\ [Next]_vars => AllListed'
<1> SUFFICES ASSUME IInv, AllListed, [Next]_vars PROVE AllListed'
    OBVIOUS
<1>1. ASSUME UNCHANGED <<contact, job>>
      PROVE  AllListed'
    BY <1>1 DEF AllListed, Listed
<1>2. ASSUME NEW c \in Contacts, InterruptAfter(c) \/ Join(c) \/ LeaveGroup(c)
      PROVE  UNCHANGED <<contact, job>>
    BY <1>2 DEF InterruptAfter, Join, LeaveGroup, db
<1>3. CASE Start \/ PrepareGroup \/ Drained \/ Interrupt \/ UNCHANGED vars
    BY <1>1, <1>3 DEF Start, PrepareGroup, Drained, Interrupt, vars, db
<1> QED BY <1>1, <1>2, <1>3, WorkKeepsListed, QueuePhaseKeepsListed, RipenKeepsListed,
           ImportKeepsListed DEF Next

LEMMA ListedAlways == Spec => [](IInv /\ AllListed)
<1>1. Init => IInv /\ AllListed
    BY InitFits, ListedFirst
<1>2. IInv /\ AllListed /\ [Next]_vars => (IInv /\ AllListed)'
    BY StepFits, StepKeepsListed
<1> QED BY <1>1, <1>2, PTL DEF Spec

-----------------------------------------------------------------------------
(* What people have been told *)

(* Who is SENT the link has the group's, unless the cached one is a fake;  *)
(* and only a message that nobody knows of may have to be repeated, before *)
(* an invitation in person is tried.                                       *)
Told(c) ==
    /\ contact[c].link = "SENT" => link = "fake" \/ c \in got
    /\ contact[c].direct = "NOT_STARTED" =>
            dms[c] <= unheard[c] + (IF contact[c].link = "SENT" THEN 1 ELSE 0)

AllTold == \A c \in Contacts : Told(c)

(* Nothing new for c *)
LEMMA ToldAsBefore ==
    ASSUME NEW c \in Contacts, Told(c), got \subseteq got', link = "fake" => link' = "fake",
           dms'[c] = dms[c], unheard'[c] = unheard[c], contact'[c].link = contact[c].link,
           contact'[c].direct = "NOT_STARTED" => contact[c].direct = "NOT_STARTED"
    PROVE  Told(c)'
BY DEF Told

(* A message goes out only to whom the link is not recorded as SENT, or    *)
(* an invitation has been tried, as Listed has it.                         *)
LEMMA AnsweredTells ==
    ASSUME IInv, AllListed, AllTold, NEW c \in Contacts, NEW t, NEW out,
           Due(<<t, c>>), Answered(c, t, out), contact'[c] = out.contact
    PROVE  Told(c)'
<1>1. PICK a \in SendAnswers(c) :
            /\ out = process_invite_link(contact[c], a.answer)
            /\ IF a.done THEN Delivered(c, a.answer = "SENT") ELSE UNCHANGED world
            /\ a.done => LinkInMessage = "real" \/ link' = "fake"
    BY DEF Answered
<1>2. /\ a.answer \in {"SENT", "FAILED", "flood"}
      /\ a.answer = "SENT" => a.done /\ contact[c].known
    BY DEF SendAnswers, Reply
<1>3. contact[c].direct = "NOT_STARTED" => contact[c].link # "SENT"
    BY DEF Answered, Due, Waiting, AllListed, Listed
<1>4. /\ contact'[c].direct = contact[c].direct
      /\ contact'[c].link = IF a.answer = "SENT" THEN "SENT" ELSE "FAILED"
    <2> DEFINE status == IF ~contact[c].known \/ a.answer \in Raised THEN "FAILED" ELSE a.answer
               after  == set_invite_link_status(record_attempt(contact[c]), status)
    <2>1. contact'[c] = after
        BY <1>1 DEF process_invite_link, Outcome
    <2>2. status = (IF a.answer = "SENT" THEN "SENT" ELSE "FAILED")
        BY <1>2 DEF Raised
    <2>3. /\ status \in INVITE_LINK_TRANSITIONS(record_attempt(contact[c]).link)
        BY <2>2 DEF INVITE_LINK_TRANSITIONS, InviteLinkStatus
    <2>4. after.direct = contact[c].direct /\ after.link = status
        BY <2>3, OneContact, Attempted DEF Contact, set_invite_link_status
    <2> QED BY <2>1, <2>2, <2>4
<1>5. CASE ~a.done
    BY <1>1, <1>2, <1>3, <1>4, <1>5 DEF AllTold, Told, world
<1>6. CASE a.done
    <2>1. /\ dms'[c] = dms[c] + 1
          /\ unheard'[c] = IF a.answer = "SENT" THEN unheard[c] ELSE unheard[c] + 1
          /\ c \in got' \/ link' = "fake"
        BY <1>1, <1>6 DEF Delivered, IInv, TypeOK
    <2>2. dms[c] \in Nat /\ unheard[c] \in Nat
        BY DEF IInv, TypeOK
    <2> QED BY <1>2, <1>3, <1>4, <2>1, <2>2 DEF AllTold, Told
<1> QED BY <1>5, <1>6

LEMMA WorkTells ==
    ASSUME IInv, AllListed, AllTold, NEW c \in Contacts, Work(c)
    PROVE  AllTold'
<1>0. PICK t \in JobType : \E out :
            /\ Due(<<t, c>>) /\ Finish(<<t, c>>, out) /\ Suits(contact[c], t, out)
            /\ Quiet(contact[c], out) \/ Answered(c, t, out)
    BY WorkSuits
<1>1. PICK out :
            /\ Due(<<t, c>>) /\ Finish(<<t, c>>, out) /\ Suits(contact[c], t, out)
            /\ Quiet(contact[c], out) \/ Answered(c, t, out)
    BY <1>0
<1>2. contact \in [Contacts -> Contact] /\ contact' = [contact EXCEPT ![c] = out.contact]
    BY <1>1 DEF Finish, IInv, TypeOK
<1>3. /\ got \subseteq got' /\ (link = "fake" => link' = "fake")
      /\ \A d \in Contacts \ {c} : dms'[d] = dms[d] /\ unheard'[d] = unheard[d]
    BY <1>1 DEF Quiet, Answered, Delivered, world, IInv, TypeOK
<1>4. ASSUME NEW d \in Contacts, d # c
      PROVE  Told(d)'
    BY <1>2, <1>3, <1>4, ToldAsBefore DEF AllTold
<1>5. Told(c)'
    <2>1. contact'[c] = out.contact
        BY <1>2
    <2>2. CASE Quiet(contact[c], out)
        BY <1>1, <1>3, <2>1, <2>2, ToldAsBefore DEF AllTold, Quiet, Suits
    <2>3. CASE Answered(c, t, out)
        BY <1>1, <2>1, <2>3, AnsweredTells
    <2> QED BY <1>1, <2>2, <2>3
<1> QED BY <1>4, <1>5 DEF AllTold

LEMMA InterruptAfterTells ==
    ASSUME IInv, AllTold, NEW c \in Contacts, InterruptAfter(c)
    PROVE  AllTold'
<1>1. UNCHANGED <<contact, link>> /\ (Added(c) \/ Delivered(c, FALSE))
    BY DEF InterruptAfter, db
<1>2. ASSUME NEW d \in Contacts
      PROVE  Told(d)'
    <2>1. dms[d] \in Nat /\ unheard[d] \in Nat
        BY DEF IInv, TypeOK
    <2>2. CASE Added(c)
        BY <1>1, <2>2 DEF Added, AllTold, Told
    <2>3. CASE Delivered(c, FALSE)
        <3>1. /\ got \subseteq got'
              /\ \/ dms'[d] = dms[d] /\ unheard'[d] = unheard[d]
                 \/ dms'[d] = dms[d] + 1 /\ unheard'[d] = unheard[d] + 1
            BY <2>3 DEF Delivered, IInv, TypeOK
        <3> QED BY <1>1, <2>1, <3>1 DEF AllTold, Told
    <2> QED BY <1>1, <2>2, <2>3
<1> QED BY <1>2 DEF AllTold

LEMMA ToldFirst == Init => AllTold
BY DEF Init, AllTold, Told, NewContact

LEMMA StepTells == IInv /\ AllListed /\ AllTold /\ [Next]_vars => AllTold'
<1> SUFFICES ASSUME IInv, AllListed, AllTold, [Next]_vars PROVE AllTold'
    OBVIOUS
<1>1. ASSUME UNCHANGED <<dms, unheard, got>>, link = "fake" => link' = "fake",
             \A c \in Contacts : /\ contact'[c].link = contact[c].link
                                 /\ contact'[c].direct = contact[c].direct
      PROVE  AllTold'
    BY <1>1, ToldAsBefore DEF AllTold
<1>2. CASE Start \/ QueuePhase \/ PrepareGroup \/ Drained \/ Interrupt \/ UNCHANGED vars
    BY <1>1, <1>2 DEF Start, QueuePhase, PrepareGroup, Drained, Interrupt, vars, db, world
<1>3. ASSUME NEW k \in Keys, Ripen(k)
      PROVE  AllTold'
    BY <1>1, <1>3 DEF Ripen, world
<1>4. ASSUME NEW c \in Contacts, Import(c)
      PROVE  AllTold'
    <2>1. \A d \in Contacts : /\ contact'[d].link = contact[d].link
                              /\ contact'[d].direct = contact[d].direct
        BY <1>4 DEF Import, IInv, TypeOK, Contact
    <2> QED BY <1>1, <1>4, <2>1 DEF Import
<1>5. ASSUME NEW c \in Contacts, Join(c) \/ LeaveGroup(c)
      PROVE  AllTold'
    BY <1>1, <1>5 DEF Join, LeaveGroup, db
<1> QED BY <1>2, <1>3, <1>4, <1>5, WorkTells, InterruptAfterTells DEF Next

LEMMA ToldAlways == Spec => [](IInv /\ AllListed /\ AllTold)
<1>1. Init => IInv /\ AllListed /\ AllTold
    BY InitFits, ListedFirst, ToldFirst
<1>2. IInv /\ AllListed /\ AllTold /\ [Next]_vars => (IInv /\ AllListed /\ AllTold)'
    BY StepFits, StepKeepsListed, StepTells
<1> QED BY <1>1, <1>2, PTL DEF Spec

-----------------------------------------------------------------------------
(* Theorems *)

(* The tables and the history keep their types, whichever commands run.    *)
THEOREM TypeCorrect == Spec => []TypeOK
BY Inductive, PTL DEF IInv

(* Nobody is ever invited or sent a message whose number has no account    *)
(* and whom no file gave an id.                                            *)
THEOREM StrangersSafe == Spec => []StrangersLeftAlone
<1>1. IInv => StrangersLeftAlone
    BY DEF IInv, Fits, StrangersLeftAlone
<1> QED BY <1>1, Inductive, PTL

(* Whoever is recorded as invited or joined has been in the group, and     *)
(* whoever is recorded as SENT the link was sent the group's, unless the   *)
(* cached link is a fake messenger's.                                      *)
THEOREM RecordsAreTrue == Spec => []RecordedIsReal
<1>1. IInv /\ AllTold => RecordedIsReal
    BY DEF IInv, Fits, AllTold, Told, RecordedIsReal
<1> QED BY <1>1, ToldAlways, PTL

(* attempt_count covers everything that was sent and not rolled back.      *)
THEOREM SendsAreCounted == Spec => []SendsAreRecorded
<1>1. IInv => SendsAreRecorded
    BY DEF IInv, Fits, SendsAreRecorded
<1> QED BY <1>1, Inductive, PTL

(* A recorded success has its join check, wherever commands are stopped.   *)
THEOREM SuccessHasCheck == Spec => []SuccessIsFollowedUp
<1>1. IInv => SuccessIsFollowedUp
    BY DEF IInv, Followed, SuccessIsFollowedUp
<1> QED BY <1>1, Inductive, PTL

(* Nobody whose invitation succeeded is put into the group again, since it *)
(* is not in the queue any more.                                           *)
THEOREM InvitedOnce == Spec => InvitedOnlyOnce
<1>1. ASSUME IInv, [Next]_vars, NEW c \in Contacts, invites'[c] # invites[c]
      PROVE  contact[c].direct # "SUCCESS"
    <2>1. \A d \in Contacts : Added(d) => d = c
        BY <1>1 DEF Added, IInv, TypeOK
    <2>2. \A d \in Contacts : \A heard : Delivered(d, heard) => invites' = invites
        BY DEF Delivered
    <2>3. ASSUME NEW d \in Contacts, Work(d) \/ InterruptAfter(d)
          PROVE  Due(<<"DIRECT_INVITE", c>>)
        <3>1. CASE DirectInvite(d)
            BY <1>1, <2>1, <3>1 DEF DirectInvite, world
        <3>2. CASE SendInviteLink(d)
            BY <1>1, <2>2, <3>2 DEF SendInviteLink, world
        <3>3. CASE CheckAccount(d) \/ LinkMissing(d) \/ CheckJoin(d)
            BY <1>1, <3>3 DEF CheckAccount, LinkMissing, CheckJoin, world
        <3>4. CASE InterruptAfter(d)
            BY <1>1, <2>1, <2>2, <3>4 DEF InterruptAfter
        <3> QED BY <2>3, <3>1, <3>2, <3>3, <3>4 DEF Work
    <2>4. ASSUME invites' = invites
          PROVE  FALSE
        BY <1>1, <2>4
    <2>5. Due(<<"DIRECT_INVITE", c>>)
        BY <1>1, <2>3, <2>4 DEF Next, Start, QueuePhase, PrepareGroup, Drained, Interrupt, Ripen,
           Import, Join, LeaveGroup, vars, world
    <2> QED BY <1>1, <2>5, OneContact DEF Due, Waiting, Followed
<1>2. IInv /\ [Next]_vars =>
        [\A c \in Contacts : invites'[c] # invites[c] => contact[c].direct # "SUCCESS"]_vars
    BY <1>1
<1> QED BY <1>2, Inductive, PTL DEF Spec, InvitedOnlyOnce

(* A dry run sends nothing, whatever is in the queue. *)
THEOREM DryRunsAreSilent == Spec => DryRunIsSilent
<1>1. ASSUME [Next]_vars, command.adapter # "telegram"
      PROVE  UNCHANGED <<invites, dms>>
    <2>1. ASSUME NEW c \in Contacts, DirectInvite(c)
          PROVE  UNCHANGED <<invites, dms>>
        BY <1>1, <2>1 DEF DirectInvite, world
    <2>2. ASSUME NEW c \in Contacts, SendInviteLink(c)
          PROVE  UNCHANGED <<invites, dms>>
        <3>1. \A a \in SendAnswers(c) : ~contact[c].known => ~a.done
            BY DEF SendAnswers, Reply
        <3> QED BY <1>1, <2>2, <3>1 DEF SendInviteLink, world
    <2>3. ASSUME NEW c \in Contacts, CheckAccount(c) \/ LinkMissing(c) \/ CheckJoin(c)
          PROVE  UNCHANGED <<invites, dms>>
        BY <2>3 DEF CheckAccount, LinkMissing, CheckJoin, world
    <2>4. ASSUME NEW c \in Contacts, InterruptAfter(c)
          PROVE  FALSE
        BY <1>1, <2>4 DEF InterruptAfter
    <2> QED BY <1>1, <2>1, <2>2, <2>3, <2>4 DEF Next, Work, Start, QueuePhase, PrepareGroup,
            Drained, Interrupt, Ripen, Import, Join, LeaveGroup, vars, world
<1>2. [Next]_vars => [command.adapter # "telegram" => UNCHANGED <<invites, dms>>]_vars
    BY <1>1
<1> QED BY <1>2, PTL DEF Spec, DryRunIsSilent

(* A dry run changes no status but to SKIPPED, and only without a group:   *)
(* with one, the handlers get as far as the adapter, as only those with an *)
(* id are in the queue.                                                    *)
THEOREM DryRunsOnlySkip == Spec => DryRunOnlySkips
<1> DEFINE Kept(c) == command.adapter # "telegram" =>
        /\ contact'[c].link = contact[c].link /\ contact'[c].join = contact[c].join
        /\ contact'[c].direct # contact[c].direct =>
                ~env.group /\ contact'[c].direct = "SKIPPED"
<1>1. ASSUME IInv, AllListed, [Next]_vars, command.adapter # "telegram", NEW c \in Contacts
      PROVE  Kept(c)
    <2> USE <1>1
    <2>1. ASSUME contact'[c] = contact[c]
          PROVE  Kept(c)
        BY <2>1
    <2>2. ASSUME NEW t \in JobType, NEW d \in Contacts, NEW out, Finish(<<t, d>>, out)
          PROVE  contact'[c] = IF c = d THEN out.contact ELSE contact[c]
        BY <2>2 DEF Finish, IInv, TypeOK
    <2>3. ASSUME NEW t \in JobType, NEW d \in Contacts, NEW e,
                 Finish(<<t, d>>, Outcome(contact[d], {}, e))
          PROVE  Kept(c)
        <3> PICK out : out = Outcome(contact[d], {}, e)
            OBVIOUS
        <3>1. contact'[c] = IF c = d THEN out.contact ELSE contact[c]
            BY <2>2, <2>3
        <3>2. out.contact = contact[d]
            BY DEF Outcome
        <3> QED BY <2>1, <3>1, <3>2
    <2>4. ASSUME NEW d \in Contacts, CheckAccount(d)
          PROVE  Kept(c)
        <3>1. "CHECK_BALE_ACCOUNT" \in JobType
            BY DEF JobType
        <3>2. ASSUME NEW answer \in CheckAnswers(d),
                     Finish(<<"CHECK_BALE_ACCOUNT", d>>, process_contact(contact[d], answer))
              PROVE  Kept(c)
            <4>1. answer \in {"HAS_ACCOUNT", "NO_ACCOUNT", "flood", "config", "error"}
                BY DEF CheckAnswers
            <4> PICK out : out = process_contact(contact[d], answer)
                OBVIOUS
            <4>2. /\ out.contact.direct = contact[d].direct /\ out.contact.link = contact[d].link
                  /\ out.contact.join = contact[d].join
                BY <4>1, OneContact, CheckSuits
            <4>3. contact'[c] = IF c = d THEN out.contact ELSE contact[c]
                BY <2>2, <3>1, <3>2
            <4> QED BY <4>2, <4>3
        <3> QED BY <2>3, <2>4, <3>1, <3>2 DEF CheckAccount, DryOutcome
    <2>5. ASSUME NEW d \in Contacts, DirectInvite(d)
          PROVE  Kept(c)
        <3>1. "DIRECT_INVITE" \in JobType /\ Due(<<"DIRECT_INVITE", d>>)
            BY <2>5 DEF DirectInvite, JobType
        <3>2. contact[d].known /\ contact[d].direct # "SUCCESS"
            BY <3>1, OneContact DEF Due, Waiting, Followed, AllListed, Listed
        <3>3. ASSUME ~CanInvite(d),
                     Finish(<<"DIRECT_INVITE", d>>,
                            process_direct_invite(contact[d], "SKIPPED", env.group, env.strategy))
              PROVE  Kept(c)
            <4> PICK out : out = process_direct_invite(contact[d], "SKIPPED", env.group, env.strategy)
                OBVIOUS
            <4>1. out.contact.join = contact[d].join /\ out.contact.link = contact[d].link
                BY <3>2, OneContact, InviteCounts DEF Counted
            <4>4. out.contact.direct = "SKIPPED"
                BY <3>2, <3>3, OneContact, SkippedWithout DEF CanInvite
            <4>2. contact'[c] = IF c = d THEN out.contact ELSE contact[c]
                BY <2>2, <3>1, <3>3
            <4>3. ~env.group
                BY <3>2, <3>3 DEF CanInvite
            <4> QED BY <4>1, <4>2, <4>3, <4>4
        <3> QED BY <2>3, <2>5, <3>1, <3>3 DEF DirectInvite, DryOutcome
    <2>6. ASSUME NEW d \in Contacts, LinkMissing(d) \/ SendInviteLink(d)
          PROVE  Kept(c)
        <3>1. "SEND_INVITE_LINK" \in JobType /\ Due(<<"SEND_INVITE_LINK", d>>)
            BY <2>6 DEF LinkMissing, SendInviteLink, JobType
        <3>2. contact[d].known
            BY <3>1 DEF Due, AllListed, Listed
        <3> QED BY <2>3, <2>6, <3>1, <3>2 DEF LinkMissing, SendInviteLink, DryOutcome
    <2>7. ASSUME NEW d \in Contacts, CheckJoin(d)
          PROVE  Kept(c)
        BY <2>3, <2>7 DEF CheckJoin, DryOutcome, JobType
    <2>8. ASSUME NEW d \in Contacts, InterruptAfter(d) \/ Join(d) \/ LeaveGroup(d)
          PROVE  contact' = contact
        BY <2>8 DEF InterruptAfter, Join, LeaveGroup, db
    <2>9. ASSUME NEW k \in Keys, Ripen(k)
          PROVE  contact' = contact
        BY <2>9 DEF Ripen
    <2>10. ASSUME NEW d \in Contacts, Import(d)
          PROVE  Kept(c)
        <3>1. /\ contact'[c].link = contact[c].link /\ contact'[c].join = contact[c].join
              /\ contact'[c].direct = contact[c].direct
            BY <2>10 DEF Import, IInv, TypeOK, Contact
        <3> QED BY <3>1
    <2>11. CASE Start \/ QueuePhase \/ PrepareGroup \/ Drained \/ Interrupt \/ UNCHANGED vars
        BY <2>1, <2>11 DEF Start, QueuePhase, PrepareGroup, Drained, Interrupt, vars, db
    <2> QED BY <2>1, <2>4, <2>5, <2>6, <2>7, <2>8, <2>9, <2>11, <2>10 DEF Next, Work
<1>2. IInv /\ AllListed /\ [Next]_vars => [\A c \in Contacts : Kept(c)]_vars
    BY <1>1
<1> QED BY <1>2, ListedAlways, PTL DEF Spec, DryRunOnlySkips

(* Until an invitation in person has been tried, the link is repeated only *)
(* where a message was rolled back or its answer lost.                     *)
THEOREM OnlyUnheardRepeated == Spec => []RepeatedOnlyIfUnheard
<1>1. IInv /\ AllTold => RepeatedOnlyIfUnheard
    <2> SUFFICES ASSUME IInv, AllTold, NEW c \in Contacts, contact[c].direct = "NOT_STARTED"
                 PROVE  dms[c] <= 1 + unheard[c]
        BY DEF RepeatedOnlyIfUnheard
    <2>1. dms[c] \in Nat /\ unheard[c] \in Nat
        BY DEF IInv, TypeOK
    <2> QED BY <2>1 DEF AllTold, Told
<1> QED BY <1>1, ToldAlways, PTL
=============================================================================
