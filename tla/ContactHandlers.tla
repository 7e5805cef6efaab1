--------------------------- MODULE ContactHandlers ---------------------------
(***************************************************************************)
(* A contact (database/models.py, Contact), the moves its statuses may     *)
(* make (domain/status.py) and what the job handlers (services/            *)
(* account_check.py, services/invite.py) make of an answer of the          *)
(* messenger, as operators on values.                                      *)
(*                                                                         *)
(* An answer is the status an adapter returns or an exception it raises.   *)
(* A handler's outcome is the contact as the handler leaves it, the types  *)
(* of the jobs it enqueues for the contact, and how it ends: "done" or the *)
(* exception the worker gets to see.  A handler that raises has changed    *)
(* the contact all the same: the worker catches the exception and commits. *)
(***************************************************************************)
EXTENDS Naturals

BaleAccountStatus  == {"UNKNOWN", "HAS_ACCOUNT", "NO_ACCOUNT", "ERROR"}
DirectInviteStatus == {"NOT_STARTED", "SUCCESS", "FAILED", "SKIPPED"}
InviteLinkStatus   == {"NOT_SENT", "SENT", "FAILED"}
JoinStatus         == {"UNKNOWN", "JOINED", "NOT_JOINED"}
JobType == {"CHECK_BALE_ACCOUNT", "DIRECT_INVITE", "SEND_INVITE_LINK", "CHECK_JOIN_STATUS"}

(* RetryableBaleError with and without retry_after, BaleConfigError, and   *)
(* any other exception, InvalidStatusTransition among them.                *)
Raised == {"flood", "timeout", "config", "error"}

(* A contact with a valid phone number; the others are never eligible.     *)
(* `known' says whether bale_user_id is set, `attempts' is attempt_count.  *)
Contact == [account : BaleAccountStatus, known : BOOLEAN,
            direct : DirectInviteStatus, link : InviteLinkStatus,
            join : JoinStatus, attempts : Nat]

NewContact == [account |-> "UNKNOWN", known |-> FALSE, direct |-> "NOT_STARTED",
               link |-> "NOT_SENT", join |-> "UNKNOWN", attempts |-> 0]

-----------------------------------------------------------------------------
(* The statuses each status may be changed to *)

BALE_ACCOUNT_TRANSITIONS(s) ==
    IF s \in {"UNKNOWN", "ERROR"} THEN BaleAccountStatus
                                  ELSE BaleAccountStatus \ {"UNKNOWN"}

DIRECT_INVITE_TRANSITIONS(s) ==
    IF s = "SUCCESS" THEN {"SUCCESS"} ELSE DirectInviteStatus

INVITE_LINK_TRANSITIONS(s) ==
    IF s = "SENT" THEN {"SENT", "FAILED"} ELSE InviteLinkStatus

JOIN_STATUS_TRANSITIONS(s) ==
    IF s = "JOINED" THEN {"JOINED"} ELSE JoinStatus

-----------------------------------------------------------------------------
(* Who is eligible *)

list_valid_for_account_check(r, statuses) == r.account \in statuses

(* Everybody who has not joined. *)
Fault_list_for_direct_invite(r) == r.known /\ r.join # "JOINED"

list_for_direct_invite(r) ==
    r.known /\ r.join # "JOINED" /\ r.direct \in {"NOT_STARTED", "FAILED"}

(* Whoever has the link is sent it again. *)
Fault_list_for_invite_link(r) ==
    r.known /\ r.join # "JOINED" /\ r.direct # "SUCCESS"

list_for_invite_link(r) ==
    /\ r.known /\ r.join # "JOINED"
    /\ r.direct # "SUCCESS" /\ r.link \in {"NOT_SENT", "FAILED"}

list_for_join_check(r) ==
    r.known /\ r.join # "JOINED" /\ (r.direct = "SUCCESS" \/ r.link = "SENT")

-----------------------------------------------------------------------------
(* Handlers *)

Outcome(r, follow, ends) == [contact |-> r, follow |-> follow, ends |-> ends]

(* An answer, and whether the messenger did what it was asked to do *)
Reply(answer, done) == [answer |-> answer, done |-> done]

Ends(answer) == IF answer \in Raised THEN answer ELSE "done"

(* The attempt is counted only once it has succeeded. *)
Fault_record_attempt(r) ==
    IF r.direct = "SUCCESS" THEN [r EXCEPT !.attempts = @ + 1] ELSE r

record_attempt(r) == [r EXCEPT !.attempts = @ + 1]

(* A setter of ContactService: transition() raises unless the move is one  *)
(* of the allowed ones, and the status stays.                              *)
set_bale_account_status(r, s) ==
    IF s \in BALE_ACCOUNT_TRANSITIONS(r.account) THEN [r EXCEPT !.account = s] ELSE r
set_direct_invite_status(r, s) ==
    IF s \in DIRECT_INVITE_TRANSITIONS(r.direct) THEN [r EXCEPT !.direct = s] ELSE r
set_invite_link_status(r, s) ==
    IF s \in INVITE_LINK_TRANSITIONS(r.link) THEN [r EXCEPT !.link = s] ELSE r
set_join_status(r, s) ==
    IF s \in JOIN_STATUS_TRANSITIONS(r.join) THEN [r EXCEPT !.join = s] ELSE r

(* Whoever was looked up counts as found. *)
Fault_process_contact(r, answer) ==
    LET status == IF answer \in Raised THEN "ERROR" ELSE answer
    IN  Outcome([set_bale_account_status(record_attempt(r), status) EXCEPT !.known = TRUE],
                {}, Ends(answer))

(* The bot matches a card that somebody shares: set_bale_user_id,          *)
(* HAS_ACCOUNT, record_attempt.                                            *)
shared_contact(r) ==
    record_attempt(set_bale_account_status([r EXCEPT !.known = TRUE], "HAS_ACCOUNT"))

(* Any exception of the adapter is recorded as ERROR and raised again.  An *)
(* account that is found brings its bale_user_id.                          *)
process_contact(r, answer) ==
    LET status == IF answer \in Raised THEN "ERROR" ELSE answer
        found  == [record_attempt(r) EXCEPT !.known = @ \/ answer = "HAS_ACCOUNT"]
    IN  IF answer = "phone_lookup_unsupported"
        THEN Outcome(record_attempt(r), {}, "done")
        ELSE Outcome(set_bale_account_status(found, status), {},
                     IF status \in BALE_ACCOUNT_TRANSITIONS(r.account)
                         THEN Ends(answer) ELSE "error")

(* Whoever did not refuse counts as invited. *)
Fault_process_direct_invite(r, answer, hasGroup, strategy) ==
    Outcome(set_direct_invite_status(record_attempt(r),
                                     IF answer = "FAILED" THEN "FAILED" ELSE "SUCCESS"),
            {}, "done")

(* A retryable failure is recorded as FAILED too, and raised again.  Only  *)
(* an answer leads to a job: the link where the invitation failed, the     *)
(* check of the membership where it succeeded.                             *)
process_direct_invite(r, answer, hasGroup, strategy) ==
    LET asked  == r.known /\ hasGroup
        status == CASE ~asked                         -> "SKIPPED"
                    [] asked /\ answer \in Raised     -> "FAILED"
                    [] asked /\ answer \notin Raised  -> answer
        follow == {t \in JobType :
                    /\ asked
                    /\ \/ t = "CHECK_JOIN_STATUS" /\ answer = "SUCCESS"
                       \/ t = "SEND_INVITE_LINK" /\ answer = "FAILED" /\ strategy = "auto"}
        moved  == set_direct_invite_status(record_attempt(r), status)
    IN  IF status \in DIRECT_INVITE_TRANSITIONS(r.direct)
        THEN Outcome(moved, follow, IF asked THEN Ends(answer) ELSE "done")
        ELSE Outcome(moved, {}, "error")

(* The part after the link has been found; a retryable failure is recorded *)
(* as FAILED, even where an earlier link was SENT.                         *)
process_invite_link(r, answer) ==
    LET status == IF ~r.known \/ answer \in Raised THEN "FAILED" ELSE answer
    IN  Outcome(set_invite_link_status(record_attempt(r), status), {},
                IF r.known THEN Ends(answer) ELSE "done")

(* An exception of the adapter passes through.  An answer is recorded,     *)
(* unless it would take back a membership: then transition() raises.       *)
process_join_check(r, answer) ==
    IF answer \in Raised
    THEN Outcome(r, {}, answer)
    ELSE Outcome(set_join_status(record_attempt(r), answer), {},
                 IF answer \in JOIN_STATUS_TRANSITIONS(r.join) THEN "done" ELSE "error")

(* A dry run records what it would have done. *)
Fault_DryOutcome(r) ==
    Outcome(IF r.known THEN [r EXCEPT !.link = "SENT"] ELSE r, {}, "done")

(* In a dry run the handlers drop the result: nothing is persisted and     *)
(* nothing is enqueued, but the job is over.                               *)
DryOutcome(r) == Outcome(r, {}, "done")
=============================================================================
