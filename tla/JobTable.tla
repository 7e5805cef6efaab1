------------------------------ MODULE JobTable ------------------------------
(***************************************************************************)
(* The jobs table (database/models.py, Job) and what QueueService          *)
(* (queue/service.py) and JobRepository (database/repositories.py) do to   *)
(* it, as operators on a value: a table is the sequence of its rows, and   *)
(* the id of a row is its position, since rows are never deleted.          *)
(*                                                                         *)
(* Here and in the other modules, a definition named Fault_... is a        *)
(* plausible bug in the one that follows it.  No specification uses it: it *)
(* is there to show that the properties notice the bug.                    *)
(***************************************************************************)
EXTENDS Integers, Sequences

CONSTANTS
    Keys,           \* unique_key values, "<JobType>:<contact id>"
    MaxRetries,     \* Settings.max_retries
    RetryDelay      \* Settings.job_retry_delay_seconds, in clock ticks

ASSUME JobTableAssumption ==
    /\ MaxRetries \in Nat
    /\ RetryDelay \in Nat

WAITING_JOB_STATUSES  == {"PENDING", "DELAYED", "RETRYING"}
ACTIVE_JOB_STATUSES   == WAITING_JOB_STATUSES \cup {"RUNNING"}
TERMINAL_JOB_STATUSES == {"COMPLETED", "FAILED", "CANCELLED"}
JobStatus             == ACTIVE_JOB_STATUSES \cup TERMINAL_JOB_STATUSES

(* The columns of a row that the queue reads back: unique_key, status,     *)
(* attempts, max_attempts, delay_seconds and scheduled_at.                 *)
Job == [key : Keys, status : JobStatus, attempts : Nat, max : Nat,
        delay : Nat, at : Nat]

(* Two active rows never share a key. *)
OneActivePerKey(t) ==
    \A i, j \in DOMAIN t :
        /\ t[i].key = t[j].key
        /\ t[i].status \in ACTIVE_JOB_STATUSES
        /\ t[j].status \in ACTIVE_JOB_STATUSES
        => i = j

-----------------------------------------------------------------------------
(* Enqueueing *)

(* A job that waits for a retry is not looked for. *)
Fault_find_active_by_key(t, k) ==
    {i \in DOMAIN t : t[i].key = k /\ t[i].status \in {"PENDING", "RUNNING"}}

find_active_by_key(t, k) ==
    {i \in DOMAIN t : t[i].key = k /\ t[i].status \in ACTIVE_JOB_STATUSES}

(* A negative delay is taken as it comes. *)
Fault_NewJob(r, now) ==
    [key      |-> r.key,
     status   |-> IF r.delay > 0 THEN "DELAYED" ELSE "PENDING",
     attempts |-> 0,
     max      |-> IF r.max # 0 THEN r.max ELSE MaxRetries,
     delay    |-> r.delay,
     at       |-> now + r.delay]

(* The row QueueService.enqueue builds from an EnqueueRequest.  A negative *)
(* delay is raised to 0, and a max_attempts of None or 0 means the         *)
(* configured number of retries.                                           *)
NewJob(r, now) ==
    LET delay == IF r.delay > 0 THEN r.delay ELSE 0
    IN  [key      |-> r.key,
         status   |-> IF delay > 0 THEN "DELAYED" ELSE "PENDING",
         attempts |-> 0,
         max      |-> IF r.max # 0 THEN r.max ELSE MaxRetries,
         delay    |-> delay,
         at       |-> now + delay]

(* enqueue on a table nobody else can write: the check and the insert.     *)
(* DuplicateJobError, which every caller swallows, leaves the table alone. *)
Enqueued(t, r, now) ==
    IF find_active_by_key(t, r.key) = {} THEN Append(t, NewJob(r, now)) ELSE t

-----------------------------------------------------------------------------
(* Claiming *)

(* Any row whose time has come, and only rows never tried. *)
Fault_DueJobs_AnyStatus(t, now) == {i \in DOMAIN t : t[i].at <= now}
Fault_DueJobs_NoRetrying(t, now) ==
    {i \in DOMAIN t : t[i].status \in {"PENDING", "DELAYED"} /\ t[i].at <= now}

DueJobs(t, now) ==
    {i \in DOMAIN t : t[i].status \in WAITING_JOB_STATUSES /\ t[i].at <= now}

(* ORDER BY scheduled_at, id *)
Before(t, i, j) == t[i].at < t[j].at \/ (t[i].at = t[j].at /\ i < j)

(* The job claim_due's SELECT returns: the first that is due. *)
FirstDue(t, now, i) ==
    /\ i \in DueJobs(t, now)
    /\ \A j \in DueJobs(t, now) \ {i} : Before(t, i, j)

(* The attempt is not counted. *)
Fault_Claimed(t, i, loaded) == [t EXCEPT ![i].status = "RUNNING"]

(* claim_due's UPDATE of row i by a session that loaded it with the given  *)
(* number of attempts: the ORM writes the loaded value plus one.           *)
Claimed(t, i, loaded) ==
    [t EXCEPT ![i].status = "RUNNING", ![i].attempts = loaded + 1]

-----------------------------------------------------------------------------
(* Settling *)

mark_success(t, i) == [t EXCEPT ![i].status = "COMPLETED"]

(* One retry too many, and no limit. *)
Fault_RetryAllowed_OffByOne(t, i) == t[i].attempts <= t[i].max
Fault_RetryAllowed_Always(t, i) == t[i].attempts <= 3

RetryAllowed(t, i) == t[i].attempts < t[i].max

(* mark_failure's delay when the caller passes none *)
DefaultDelay(t, i) == IF t[i].delay # 0 THEN t[i].delay ELSE RetryDelay

(* mark_failure with retry=False, or with no attempt left *)
GiveUp(t, i) == [t EXCEPT ![i].status = "FAILED"]

mark_failure(t, i, delay, now) ==
    IF RetryAllowed(t, i)
    THEN [t EXCEPT ![i].status = "RETRYING", ![i].at = now + delay]
    ELSE GiveUp(t, i)
=============================================================================
