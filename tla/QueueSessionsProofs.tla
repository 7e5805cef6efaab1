------------------------ MODULE QueueSessionsProofs ------------------------
(***************************************************************************)
(* Proofs about QueueSessions, for every value of its constants.           *)
(*                                                                         *)
(* The second half is what it guarantees when one process works on the     *)
(* table: the committed table implements JobLedger.  With several          *)
(* processes it does not (the runs queue_dupe and queue_revive).           *)
(***************************************************************************)
EXTENDS QueueSessions, SumFacts

-----------------------------------------------------------------------------
(* What the table operators return *)

(* A new row is a well-formed job that nobody has tried. *)
LEMMA NewJobFresh ==
    ASSUME NEW r \in Requests, NEW n \in Nat
    PROVE  /\ NewJob(r, n) \in Job
           /\ NewJob(r, n).key = r.key
           /\ NewJob(r, n).attempts = 0
           /\ NewJob(r, n).status \in {"PENDING", "DELAYED"}
<1>1. r.key \in Keys /\ r.delay \in Int /\ r.max \in Nat
    BY QueueSessionsAssumption
<1>2. MaxRetries \in Nat
    BY JobTableAssumption
<1> DEFINE d == IF r.delay > 0 THEN r.delay ELSE 0
           s == IF d > 0 THEN "DELAYED" ELSE "PENDING"
           m == IF r.max # 0 THEN r.max ELSE MaxRetries
<1>3. d \in Nat /\ n + d \in Nat /\ m \in Nat
    BY <1>1, <1>2
<1>4. s \in {"PENDING", "DELAYED"} /\ s \in JobStatus
    BY DEF JobStatus, ACTIVE_JOB_STATUSES, WAITING_JOB_STATUSES
<1>5. NewJob(r, n) = [key |-> r.key, status |-> s, attempts |-> 0, max |-> m,
                      delay |-> d, at |-> n + d]
    BY DEF NewJob
<1> HIDE DEF d, s, m
<1> QED BY <1>1, <1>3, <1>4, <1>5 DEF Job

(* A row is added at the end and the others stay. *)
LEMMA AppendRows ==
    ASSUME NEW t \in Seq(Job), NEW row \in Job
    PROVE  /\ Append(t, row) \in Seq(Job)
           /\ Len(Append(t, row)) = Len(t) + 1
           /\ DOMAIN Append(t, row) = DOMAIN t \cup {Len(t) + 1}
           /\ Append(t, row)[Len(t) + 1] = row
           /\ \A i \in DOMAIN t : i # Len(t) + 1 /\ Append(t, row)[i] = t[i]
OBVIOUS

(* What an operation on row i leaves alone: the other rows, and the        *)
(* columns of the row itself that identify and limit the job.              *)
Keeps(t, u, i) ==
    /\ DOMAIN u = DOMAIN t
    /\ Len(u) = Len(t)
    /\ \A j \in DOMAIN t : j # i => u[j] = t[j]
    /\ i \in DOMAIN t =>
        u[i].key = t[i].key /\ u[i].max = t[i].max /\ u[i].delay = t[i].delay

LEMMA RowReplaced ==
    ASSUME NEW t \in Seq(Job), NEW i \in DOMAIN t, NEW row \in Job,
           row.key = t[i].key, row.max = t[i].max, row.delay = t[i].delay,
           NEW u, u = [t EXCEPT ![i] = row]
    PROVE  u \in Seq(Job) /\ Keeps(t, u, i) /\ u[i] = row
BY DEF Keeps

(* Claiming changes the status and the attempts of one row. *)
LEMMA ClaimedRows ==
    ASSUME NEW t \in Seq(Job), NEW i \in DOMAIN t, NEW n \in Nat
    PROVE  /\ Claimed(t, i, n) \in Seq(Job)
           /\ Keeps(t, Claimed(t, i, n), i)
           /\ Claimed(t, i, n)[i].status = "RUNNING"
           /\ Claimed(t, i, n)[i].attempts = n + 1
<1> DEFINE row == [t[i] EXCEPT !.status = "RUNNING", !.attempts = n + 1]
           u   == Claimed(t, i, n)
<1>1. t[i] \in Job /\ "RUNNING" \in JobStatus /\ n + 1 \in Nat
    BY DEF JobStatus, ACTIVE_JOB_STATUSES
<1>2. /\ row \in Job /\ row.status = "RUNNING" /\ row.attempts = n + 1
      /\ row.key = t[i].key /\ row.max = t[i].max /\ row.delay = t[i].delay
    BY <1>1 DEF Job
<1>3. u = [t EXCEPT ![i] = row]
    BY DEF Claimed
<1> HIDE DEF row
<1>4. u \in Seq(Job) /\ Keeps(t, u, i) /\ u[i] = row
    <2> HIDE DEF u
    <2> QED BY <1>2, <1>3, RowReplaced
<1> QED BY <1>2, <1>4

(* Success changes the status of one row. *)
LEMMA SucceededRows ==
    ASSUME NEW t \in Seq(Job), NEW i \in DOMAIN t, NEW u, u = mark_success(t, i)
    PROVE  /\ u \in Seq(Job)
           /\ Keeps(t, u, i)
           /\ u[i].status = "COMPLETED" /\ u[i].attempts = t[i].attempts
<1> DEFINE row == [t[i] EXCEPT !.status = "COMPLETED"]
<1>1. t[i] \in Job /\ "COMPLETED" \in JobStatus
    BY DEF JobStatus, TERMINAL_JOB_STATUSES
<1>2. /\ row \in Job /\ row.status = "COMPLETED" /\ row.attempts = t[i].attempts
      /\ row.key = t[i].key /\ row.max = t[i].max /\ row.delay = t[i].delay
    BY <1>1 DEF Job
<1>3. u = [t EXCEPT ![i] = row]
    BY DEF mark_success
<1> HIDE DEF row
<1> QED BY <1>2, <1>3, RowReplaced

(* Failure reschedules one row while attempts are left and ends it         *)
(* otherwise.                                                              *)
LEMMA FailedRows ==
    ASSUME NEW t \in Seq(Job), NEW i \in DOMAIN t, NEW d \in Nat, NEW n \in Nat, NEW u,
           u = mark_failure(t, i, d, n) \/ u = GiveUp(t, i)
    PROVE  /\ u \in Seq(Job)
           /\ Keeps(t, u, i)
           /\ u[i].attempts = t[i].attempts
           /\ \/ u[i].status = "RETRYING" /\ u[i].attempts < u[i].max
              \/ u[i].status = "FAILED"
<1> DEFINE retried == [t[i] EXCEPT !.status = "RETRYING", !.at = n + d]
           ended   == [t[i] EXCEPT !.status = "FAILED"]
<1>1. t[i] \in Job /\ "RETRYING" \in JobStatus /\ "FAILED" \in JobStatus /\ n + d \in Nat
    BY DEF JobStatus, ACTIVE_JOB_STATUSES, WAITING_JOB_STATUSES, TERMINAL_JOB_STATUSES
<1>2. /\ retried \in Job /\ retried.status = "RETRYING" /\ retried.attempts = t[i].attempts
      /\ retried.key = t[i].key /\ retried.max = t[i].max /\ retried.delay = t[i].delay
    BY <1>1 DEF Job
<1>3. /\ ended \in Job /\ ended.status = "FAILED" /\ ended.attempts = t[i].attempts
      /\ ended.key = t[i].key /\ ended.max = t[i].max /\ ended.delay = t[i].delay
    BY <1>1 DEF Job
<1>4. \/ RetryAllowed(t, i) /\ u = [t EXCEPT ![i] = retried]
      \/ u = [t EXCEPT ![i] = ended]
    BY DEF mark_failure, GiveUp
<1> HIDE DEF retried, ended
<1>5. CASE RetryAllowed(t, i) /\ u = [t EXCEPT ![i] = retried]
    <2>1. u \in Seq(Job) /\ Keeps(t, u, i) /\ u[i] = retried
        BY <1>2, <1>5, RowReplaced
    <2> QED BY <1>1, <1>2, <1>5, <2>1 DEF RetryAllowed
<1>6. CASE u = [t EXCEPT ![i] = ended]
    <2>1. u \in Seq(Job) /\ Keeps(t, u, i) /\ u[i] = ended
        BY <1>3, <1>6, RowReplaced
    <2> QED BY <1>3, <2>1
<1> QED BY <1>4, <1>5, <1>6

-----------------------------------------------------------------------------
(* Type correctness *)

(* TypeOK, strengthened by what each step of a transaction relies on: the  *)
(* request to insert is a request, the selected job is a row the session   *)
(* sees, and `txn' is the committed table unless its session may write.    *)
TypeInv ==
    /\ TypeOK
    /\ \A p \in Procs : pc[p] = "inserting" => want[p] \in Requests
    /\ \A p \in Procs :
        pc[p] \in {"claiming", "handling", "closing"} => job[p] \in DOMAIN View(p)
    /\ Len(db) <= Len(txn)
    /\ lock = NoProc => txn = db
    /\ \A p \in Procs : pc[p] \in {"handling", "closing"} => lock = p
    /\ \A p \in Procs : lock = p => pc[p] # "idle"

LEMMA InitTypeInv == Init => TypeInv
BY QueueSessionsAssumption DEF Init, TypeInv, TypeOK, Steps, View

LEMMA NoProcIsNoProc == \A p \in Procs : p # NoProc
BY QueueSessionsAssumption

LEMMA ViewIsTable ==
    ASSUME TypeInv, NEW p \in Procs
    PROVE  /\ View(p) \in Seq(Job)
           /\ CanWrite(p) => View(p) = txn
           /\ Len(db) <= Len(View(p))
BY NoProcIsNoProc DEF TypeInv, TypeOK, View, CanWrite

(* The bound on rows leaves room for the one that is added. *)
LEMMA RoomLeft ==
    ASSUME RoomForJob, Len(txn) \in Nat PROVE Len(txn) < MaxJobs
<1>1. IsFiniteSet({q \in Procs : pc[q] = "inserting"})
    BY QueueSessionsAssumption, FS_Subset
<1>2. Cardinality({q \in Procs : pc[q] = "inserting"}) \in Nat
    BY <1>1, FS_CardinalityType
<1> QED BY <1>2, QueueSessionsAssumption DEF RoomForJob

LEMMA TickTypeInv == TypeInv /\ Tick => TypeInv'
BY DEF TypeInv, TypeOK, Tick, View

LEMMA OpenTypeInv ==
    ASSUME TypeInv, NEW p \in Procs, Open(p) PROVE TypeInv'
BY NoProcIsNoProc DEF TypeInv, TypeOK, Open, Goto, View, Steps

LEMMA CheckDuplicateTypeInv ==
    ASSUME TypeInv, NEW p \in Procs, NEW r \in Requests, CheckDuplicate(p, r) PROVE TypeInv'
BY NoProcIsNoProc DEF TypeInv, TypeOK, CheckDuplicate, Goto, View, Steps

LEMMA InsertTypeInv ==
    ASSUME TypeInv, NEW p \in Procs, Insert(p) PROVE TypeInv'
<1> DEFINE row == NewJob(want[p], now)
<1>1. row \in Job
    BY NewJobFresh DEF TypeInv, TypeOK, Insert
<1>2. txn' = Append(txn, row) /\ lock' = p
    BY DEF Insert, Write
<1> HIDE DEF row
<1>3. txn' \in Seq(Job) /\ Len(txn') = Len(txn) + 1
    BY <1>1, <1>2, AppendRows DEF TypeInv, TypeOK
<1>4. TypeOK'
    BY <1>2, <1>3 DEF TypeInv, TypeOK, Insert, Goto, Steps
<1> QED
    BY <1>2, <1>3, <1>4, NoProcIsNoProc DEF TypeInv, TypeOK, Insert, Goto, View, CanWrite

LEMMA SelectTypeInv ==
    ASSUME TypeInv, NEW p \in Procs, Select(p) PROVE TypeInv'
<1>1. PICK i \in DOMAIN View(p) :
        job' = [job EXCEPT ![p] = i] /\ loaded' = [loaded EXCEPT ![p] = View(p)[i].attempts]
    BY DEF Select
<1>2. i \in Nat /\ View(p)[i].attempts \in Nat
    <2>1. View(p) \in Seq(Job)
        BY ViewIsTable
    <2>2. View(p)[i] \in Job /\ i \in Nat
        BY <2>1
    <2> QED BY <2>2 DEF Job
<1>3. TypeOK'
    BY <1>1, <1>2 DEF TypeInv, TypeOK, Select, Goto, Steps
<1> QED
    BY <1>1, <1>2, <1>3, NoProcIsNoProc DEF TypeInv, TypeOK, Select, Goto, View

LEMMA ClaimTypeInv ==
    ASSUME TypeInv, NEW p \in Procs, Claim(p) PROVE TypeInv'
<1>1. job[p] \in DOMAIN txn
    BY ViewIsTable DEF TypeInv, Claim
<1>2. txn' = Claimed(txn, job[p], loaded[p]) /\ lock' = p
    BY DEF Claim, Write
<1>3. txn' \in Seq(Job) /\ Keeps(txn, txn', job[p])
    BY <1>1, <1>2, ClaimedRows DEF TypeInv, TypeOK
<1>4. TypeOK'
    BY <1>2, <1>3 DEF TypeInv, TypeOK, Claim, Goto, Steps
<1> QED
    BY <1>1, <1>2, <1>3, <1>4, NoProcIsNoProc
    DEF TypeInv, TypeOK, Claim, Goto, View, CanWrite, Keeps

(* A process that handles a job holds the lock, and its job is in txn. *)
LEMMA HandlingJob ==
    ASSUME TypeInv, NEW p \in Procs, pc[p] \in {"handling", "closing"}
    PROVE  lock = p /\ job[p] \in DOMAIN txn /\ txn \in Seq(Job) /\ txn[job[p]] \in Job
<1>1. lock = p /\ txn \in Seq(Job)
    BY DEF TypeInv, TypeOK
<1>2. job[p] \in DOMAIN txn
    BY <1>1 DEF TypeInv, View
<1> QED BY <1>1, <1>2

(* A follow-up job is added at the end, if its key is free. *)
LEMMA EnqueuedRows ==
    ASSUME NEW t \in Seq(Job), NEW r \in Requests, NEW n \in Nat, NEW u,
           u = Enqueued(t, r, n)
    PROVE  \/ u = t
           \/ /\ find_active_by_key(t, r.key) = {}
              /\ NewJob(r, n) \in Job
              /\ u = Append(t, NewJob(r, n))
BY NewJobFresh DEF Enqueued

(* The table a returning handler leaves: the one it found, with at most    *)
(* one new row, and its own job completed.                                 *)
LEMMA SucceedTable ==
    ASSUME TypeInv, NEW p \in Procs, Succeed(p)
    PROVE  \E u \in Seq(Job) :
            /\ \/ u = txn
               \/ \E r \in Requests :
                    /\ find_active_by_key(txn, r.key) = {}
                    /\ NewJob(r, now) \in Job
                    /\ u = Append(txn, NewJob(r, now))
                    /\ Len(txn) < MaxJobs
            /\ job[p] \in DOMAIN u
            /\ txn' = mark_success(u, job[p])
<1>1. job[p] \in DOMAIN txn /\ txn \in Seq(Job) /\ now \in Nat
    BY HandlingJob DEF Succeed, TypeInv, TypeOK
<1>2. CASE txn' = mark_success(txn, job[p])
    BY <1>1, <1>2
<1>3. CASE \E r \in Requests :
            RoomForJob /\ txn' = mark_success(Enqueued(txn, r, now), job[p])
    <2>1. PICK r \in Requests :
            RoomForJob /\ txn' = mark_success(Enqueued(txn, r, now), job[p])
        BY <1>3
    <2>2. CASE Enqueued(txn, r, now) = txn
        BY <1>1, <2>1, <2>2
    <2>3. CASE /\ find_active_by_key(txn, r.key) = {}
               /\ NewJob(r, now) \in Job
               /\ Enqueued(txn, r, now) = Append(txn, NewJob(r, now))
        <3>1. Append(txn, NewJob(r, now)) \in Seq(Job)
              /\ job[p] \in DOMAIN Append(txn, NewJob(r, now))
            BY <1>1, <2>3, AppendRows
        <3>2. Len(txn) < MaxJobs
            BY <2>1, RoomLeft DEF TypeInv, TypeOK
        <3> QED BY <2>1, <2>3, <3>1, <3>2
    <2>4. \/ Enqueued(txn, r, now) = txn
          \/ /\ find_active_by_key(txn, r.key) = {}
             /\ NewJob(r, now) \in Job
             /\ Enqueued(txn, r, now) = Append(txn, NewJob(r, now))
        BY <1>1, EnqueuedRows
    <2> QED BY <2>2, <2>3, <2>4
<1> QED BY <1>2, <1>3 DEF Succeed

LEMMA RanType ==
    ASSUME runs \in [1 .. MaxJobs -> Nat], NEW i, Ran(i)
    PROVE  runs' \in [1 .. MaxJobs -> Nat]
<1>1. CASE i \in 1 .. MaxJobs
    BY <1>1 DEF Ran
<1>2. CASE i \notin 1 .. MaxJobs
    BY <1>2 DEF Ran
<1> QED BY <1>1, <1>2

LEMMA SucceedTypeInv ==
    ASSUME TypeInv, NEW p \in Procs, Succeed(p) PROVE TypeInv'
<1>1. lock = p /\ job[p] \in DOMAIN txn
    BY HandlingJob DEF Succeed
<1>2. PICK u \in Seq(Job) :
        /\ \/ u = txn
           \/ \E r \in Requests :
                /\ NewJob(r, now) \in Job
                /\ u = Append(txn, NewJob(r, now))
        /\ job[p] \in DOMAIN u
        /\ txn' = mark_success(u, job[p])
    BY SucceedTable
<1>3. Len(txn) <= Len(u)
    BY <1>2, AppendRows DEF TypeInv, TypeOK
<1>4. txn' \in Seq(Job) /\ Keeps(u, txn', job[p])
    BY <1>2, SucceededRows
<1>5. TypeOK'
    <2>1. runs' \in [1 .. MaxJobs -> Nat]
        BY RanType DEF TypeInv, TypeOK, Succeed
    <2> QED BY <1>4, <2>1 DEF TypeInv, TypeOK, Succeed, Goto, Steps
<1>6. Len(db') <= Len(txn') /\ job[p] \in DOMAIN txn'
    <2>1. Len(txn') = Len(u) /\ DOMAIN txn' = DOMAIN u
        BY <1>4 DEF Keeps
    <2>2. db' = db /\ Len(db) <= Len(txn) /\ Len(db) \in Nat /\ Len(txn) \in Nat /\ Len(u) \in Nat
        BY DEF TypeInv, TypeOK, Succeed
    <2> QED BY <1>2, <1>3, <2>1, <2>2
<1> QED
    BY <1>1, <1>5, <1>6, NoProcIsNoProc
    DEF TypeInv, TypeOK, Succeed, Goto, View

(* What a raising handler leaves of its job. *)
LEMMA FailTable ==
    ASSUME TypeInv, NEW p \in Procs, Fail(p)
    PROVE  /\ txn' \in Seq(Job)
           /\ Keeps(txn, txn', job[p])
           /\ txn'[job[p]].attempts = txn[job[p]].attempts
           /\ \/ /\ txn'[job[p]].status = "RETRYING"
                 /\ txn'[job[p]].attempts < txn'[job[p]].max
              \/ txn'[job[p]].status = "FAILED"
<1>1. job[p] \in DOMAIN txn /\ txn \in Seq(Job) /\ now \in Nat /\ txn[job[p]] \in Job
    BY HandlingJob DEF Fail, TypeInv, TypeOK
<1>2. DefaultDelay(txn, job[p]) \in Nat
    BY <1>1, JobTableAssumption DEF DefaultDelay, Job
<1>3. PICK d \in Nat :
        txn' = mark_failure(txn, job[p], d, now) \/ txn' = GiveUp(txn, job[p])
    BY <1>2 DEF Fail
<1> QED BY <1>1, <1>3, FailedRows

LEMMA FailTypeInv ==
    ASSUME TypeInv, NEW p \in Procs, Fail(p) PROVE TypeInv'
<1>1. lock = p /\ job[p] \in DOMAIN txn
    BY HandlingJob DEF Fail
<1>2. txn' \in Seq(Job) /\ Keeps(txn, txn', job[p])
    BY FailTable
<1>3. TypeOK'
    <2>1. runs' \in [1 .. MaxJobs -> Nat]
        BY RanType DEF TypeInv, TypeOK, Fail
    <2> QED BY <1>2, <2>1 DEF TypeInv, TypeOK, Fail, Goto, Steps
<1> QED
    BY <1>1, <1>2, <1>3, NoProcIsNoProc DEF TypeInv, TypeOK, Fail, Goto, View, Keeps

LEMMA CommitTypeInv ==
    ASSUME TypeInv, NEW p \in Procs, Commit(p) PROVE TypeInv'
BY NoProcIsNoProc DEF TypeInv, TypeOK, Commit, Leave, Goto, View, Steps, NoRequest

LEMMA BusyTimeoutTypeInv ==
    ASSUME TypeInv, NEW p \in Procs, BusyTimeout(p) PROVE TypeInv'
BY NoProcIsNoProc DEF TypeInv, TypeOK, BusyTimeout, Leave, Goto, View, Steps, NoRequest, CanWrite

LEMMA KillTypeInv ==
    ASSUME TypeInv, NEW p \in Procs, Kill(p) PROVE TypeInv'
BY NoProcIsNoProc DEF TypeInv, TypeOK, Kill, Leave, Goto, View, Steps, NoRequest

(* TypeInv is inductive, ... *)
LEMMA TypeInvHolds == Spec => []TypeInv
<1>1. TypeInv /\ [Next]_vars => TypeInv'
    <2> SUFFICES ASSUME TypeInv, [Next]_vars PROVE TypeInv'
        OBVIOUS
    <2>1. CASE Tick
        BY <2>1, TickTypeInv
    <2>2. CASE \E p \in Procs : ProcNext(p)
        BY <2>2, OpenTypeInv, CheckDuplicateTypeInv, InsertTypeInv, SelectTypeInv,
           ClaimTypeInv, SucceedTypeInv, FailTypeInv, CommitTypeInv, BusyTimeoutTypeInv,
           KillTypeInv DEF ProcNext
    <2>3. CASE UNCHANGED vars
        BY <2>3 DEF vars, TypeInv, TypeOK, View
    <2> QED BY <2>1, <2>2, <2>3 DEF Next
<1> QED BY <1>1, InitTypeInv, PTL DEF Spec

(* ... so the type invariant holds in every behaviour, ... *)
THEOREM TypeCorrect == Spec => []TypeOK
<1>1. TypeInv => TypeOK
    BY DEF TypeInv
<1> QED BY <1>1, TypeInvHolds, PTL

(* ... and the write lock lets one process at a time execute a handler.    *)
THEOREM OneHandler == Spec => []OneHandlerAtATime
<1>1. TypeInv => OneHandlerAtATime
    BY DEF TypeInv, OneHandlerAtATime
<1> QED BY <1>1, TypeInvHolds, PTL

-----------------------------------------------------------------------------
(* No RUNNING row is ever committed *)

(* Row i is being executed by the session that holds the write lock. *)
Ongoing(i) == lock \in Procs /\ pc[lock] = "handling" /\ job[lock] = i

RunningInv ==
    /\ NoRunningCommitted
    /\ \A i \in DOMAIN txn : txn[i].status = "RUNNING" => Ongoing(i)

(* A session that is not handling a job and may write sees no RUNNING row. *)
LEMMA NoneRunning ==
    ASSUME TypeInv, RunningInv, NEW p \in Procs, CanWrite(p), pc[p] # "handling"
    PROVE  \A i \in DOMAIN txn : txn[i].status # "RUNNING"
BY NoProcIsNoProc DEF TypeInv, RunningInv, Ongoing, CanWrite

LEMMA SucceedRunning ==
    ASSUME TypeInv, RunningInv, NEW p \in Procs, Succeed(p) PROVE RunningInv'
<1>1. lock = p /\ pc[p] = "handling" /\ db' = db
    BY HandlingJob DEF Succeed
<1>2. PICK u \in Seq(Job) :
        /\ \/ u = txn
           \/ \E r \in Requests :
                /\ NewJob(r, now) \in Job
                /\ u = Append(txn, NewJob(r, now))
        /\ job[p] \in DOMAIN u
        /\ txn' = mark_success(u, job[p])
    BY SucceedTable
<1>3. \A i \in DOMAIN txn : i # job[p] => txn[i].status # "RUNNING"
    BY <1>1 DEF RunningInv, Ongoing
<1>4. \A i \in DOMAIN u : i # job[p] => u[i].status # "RUNNING"
    <2>1. CASE u = txn
        BY <1>3, <2>1
    <2>2. CASE \E r \in Requests : NewJob(r, now) \in Job /\ u = Append(txn, NewJob(r, now))
        <3>1. PICK r \in Requests : NewJob(r, now) \in Job /\ u = Append(txn, NewJob(r, now))
            BY <2>2
        <3>2. txn \in Seq(Job) /\ now \in Nat
            BY DEF TypeInv, TypeOK
        <3>3. NewJob(r, now).status # "RUNNING"
            BY <3>2, NewJobFresh
        <3> QED BY <1>3, <3>1, <3>2, <3>3, AppendRows
    <2> QED BY <1>2, <2>1, <2>2
<1>5. \A i \in DOMAIN txn' : txn'[i].status # "RUNNING"
    <2>1. Keeps(u, txn', job[p]) /\ txn'[job[p]].status = "COMPLETED"
        BY <1>2, SucceededRows
    <2> QED BY <1>4, <2>1 DEF Keeps
<1> QED BY <1>1, <1>5 DEF RunningInv, NoRunningCommitted

LEMMA RunningStep ==
    ASSUME TypeInv, RunningInv, [Next]_vars PROVE RunningInv'
<1>1. CASE Tick
    BY <1>1 DEF Tick, RunningInv, NoRunningCommitted, Ongoing
<1>2. ASSUME NEW p \in Procs, Open(p) \/ \E r \in Requests : CheckDuplicate(p, r)
      PROVE  RunningInv'
    BY <1>2 DEF Open, CheckDuplicate, Goto, RunningInv, NoRunningCommitted, Ongoing, TypeInv, TypeOK
<1>3. ASSUME NEW p \in Procs, Insert(p) PROVE RunningInv'
    <2>1. \A i \in DOMAIN txn : txn[i].status # "RUNNING"
        BY <1>3, NoneRunning DEF Insert
    <2>2. want[p] \in Requests /\ now \in Nat /\ txn \in Seq(Job)
        BY <1>3 DEF Insert, TypeInv, TypeOK
    <2>3. \A i \in DOMAIN txn' : txn'[i].status # "RUNNING"
        BY <1>3, <2>1, <2>2, NewJobFresh, AppendRows DEF Insert, Write
    <2> QED BY <1>3, <2>3 DEF Insert, RunningInv, NoRunningCommitted
<1>4. ASSUME NEW p \in Procs, Select(p) PROVE RunningInv'
    BY <1>4 DEF Select, Goto, RunningInv, NoRunningCommitted, Ongoing, TypeInv, TypeOK
<1>5. ASSUME NEW p \in Procs, Claim(p) PROVE RunningInv'
    <2>1. \A i \in DOMAIN txn : txn[i].status # "RUNNING"
        BY <1>5, NoneRunning DEF Claim
    <2>2. job[p] \in DOMAIN txn /\ txn \in Seq(Job) /\ loaded[p] \in Nat
        BY <1>5, ViewIsTable DEF Claim, TypeInv, TypeOK
    <2>3. Keeps(txn, txn', job[p])
        BY <1>5, <2>2, ClaimedRows DEF Claim, Write
    <2>4. \A i \in DOMAIN txn' : txn'[i].status = "RUNNING" => i = job[p]
        BY <2>1, <2>3 DEF Keeps
    <2>5. Ongoing(job[p])'
        BY <1>5 DEF Claim, Write, Goto, Ongoing, TypeInv, TypeOK
    <2> QED BY <1>5, <2>4, <2>5 DEF Claim, RunningInv, NoRunningCommitted, Ongoing
<1>6. ASSUME NEW p \in Procs, Fail(p) PROVE RunningInv'
    <2>1. lock = p /\ db' = db /\ job[p] \in DOMAIN txn
        BY <1>6, HandlingJob DEF Fail
    <2>2. \A i \in DOMAIN txn : i # job[p] => txn[i].status # "RUNNING"
        BY <2>1 DEF RunningInv, Ongoing
    <2>3. \A i \in DOMAIN txn' : txn'[i].status # "RUNNING"
        BY <1>6, <2>1, <2>2, FailTable DEF Keeps
    <2> QED BY <2>1, <2>3 DEF RunningInv, NoRunningCommitted
<1>7. ASSUME NEW p \in Procs, Commit(p) PROVE RunningInv'
    <2>1. CASE lock = p
        <3>1. \A i \in DOMAIN txn : txn[i].status # "RUNNING"
            BY <1>7, <2>1, NoneRunning DEF Commit, CanWrite
        <3> QED BY <1>7, <2>1, <3>1 DEF Commit, View, RunningInv, NoRunningCommitted
    <2>2. CASE lock # p
        BY <1>7, <2>2 DEF Commit, Leave, Goto, View, RunningInv, NoRunningCommitted, Ongoing,
                          TypeInv, TypeOK
    <2> QED BY <2>1, <2>2
<1>8. ASSUME NEW p \in Procs, BusyTimeout(p) PROVE RunningInv'
    BY <1>8 DEF BusyTimeout, CanWrite, Leave, Goto, RunningInv, NoRunningCommitted, Ongoing,
                TypeInv, TypeOK
<1>9. ASSUME NEW p \in Procs, Kill(p) PROVE RunningInv'
    BY <1>9 DEF Kill, Leave, Goto, RunningInv, NoRunningCommitted, Ongoing, TypeInv, TypeOK
<1>10. CASE UNCHANGED vars
    BY <1>10 DEF vars, RunningInv, NoRunningCommitted, Ongoing
<1> QED
    BY <1>1, <1>2, <1>3, <1>4, <1>5, <1>6, <1>7, <1>8, <1>9, <1>10, SucceedRunning
    DEF Next, ProcNext

(* No committed row is RUNNING, however many processes there are and       *)
(* wherever they are interrupted.                                          *)
THEOREM NoRunning == Spec => []NoRunningCommitted
<1>1. Init => RunningInv
    BY DEF Init, RunningInv, NoRunningCommitted
<1>2. RunningInv => NoRunningCommitted
    BY DEF RunningInv
<1> QED BY <1>1, <1>2, RunningStep, TypeInvHolds, PTL DEF Spec

-----------------------------------------------------------------------------
(* The limit on attempts *)

Limit(row) == IF row.max > 1 THEN row.max ELSE 1

WithinLimit(row) ==
    /\ row.attempts <= Limit(row)
    /\ row.status \in WAITING_JOB_STATUSES => row.attempts < Limit(row)

(* A waiting row, and the row a process has selected, has an attempt left; *)
(* the limit of a row does not change while it is selected.                *)
LimitInv ==
    /\ \A i \in DOMAIN db : WithinLimit(db[i]) /\ txn[i].max = db[i].max
    /\ \A i \in DOMAIN txn : WithinLimit(txn[i])
    /\ \A p \in Procs : pc[p] = "claiming" => loaded[p] < Limit(View(p)[job[p]])

(* What every action that writes to the table has to show. *)
LEMMA LimitWrite ==
    ASSUME TypeInv, LimitInv, NEW p \in Procs, CanWrite(p), lock' = p,
           db' = db, job' = job, loaded' = loaded,
           \A q \in Procs : pc'[q] = "claiming" => q # p /\ pc[q] = "claiming",
           \A i \in DOMAIN txn : i \in DOMAIN txn' /\ txn'[i].max = txn[i].max,
           \A i \in DOMAIN txn' : WithinLimit(txn'[i])
    PROVE  LimitInv'
<1>1. \A i \in DOMAIN db : i \in DOMAIN txn
    BY DEF TypeInv, TypeOK
<1>2. \A i \in DOMAIN db' : WithinLimit(db'[i]) /\ txn'[i].max = db'[i].max
    BY <1>1 DEF LimitInv, WithinLimit
<1>3. \A q \in Procs : q # p => View(q) = db /\ View(q)' = db
    BY NoProcIsNoProc DEF CanWrite, View
<1>4. ASSUME NEW q \in Procs, pc'[q] = "claiming"
      PROVE  loaded'[q] < Limit(View(q)'[job'[q]])
    BY <1>3, <1>4 DEF LimitInv
<1> QED BY <1>2, <1>4 DEF LimitInv

LEMMA NewJobWithinLimit ==
    ASSUME NEW r \in Requests, NEW n \in Nat PROVE WithinLimit(NewJob(r, n))
<1>1. NewJob(r, n).max \in Nat /\ NewJob(r, n).attempts = 0
    BY NewJobFresh DEF Job
<1> QED BY <1>1 DEF WithinLimit, Limit

LEMMA InsertLimit ==
    ASSUME TypeInv, LimitInv, NEW p \in Procs, Insert(p) PROVE LimitInv'
<1> DEFINE row == NewJob(want[p], now)
<1>1. txn' = Append(txn, row) /\ txn \in Seq(Job) /\ row \in Job /\ WithinLimit(row)
    BY NewJobFresh, NewJobWithinLimit DEF TypeInv, TypeOK, Insert, Write
<1> HIDE DEF row
<1>2. \A i \in DOMAIN txn : i \in DOMAIN txn' /\ txn'[i] = txn[i]
    BY <1>1, AppendRows
<1>3. \A i \in DOMAIN txn' : WithinLimit(txn'[i])
    BY <1>1, AppendRows DEF LimitInv
<1>4. /\ CanWrite(p) /\ lock' = p /\ db' = db /\ job' = job /\ loaded' = loaded
      /\ \A q \in Procs : pc'[q] = "claiming" => q # p /\ pc[q] = "claiming"
    BY DEF Insert, Write, Goto, TypeInv, TypeOK
<1> QED BY <1>2, <1>3, <1>4, LimitWrite

LEMMA ClaimLimit ==
    ASSUME TypeInv, LimitInv, NEW p \in Procs, Claim(p) PROVE LimitInv'
<1>1. /\ job[p] \in DOMAIN txn /\ txn \in Seq(Job) /\ txn[job[p]] \in Job
      /\ loaded[p] \in Nat /\ loaded[p] < Limit(txn[job[p]])
    BY ViewIsTable DEF Claim, TypeInv, TypeOK, LimitInv
<1>2. /\ txn' \in Seq(Job) /\ Keeps(txn, txn', job[p])
      /\ txn'[job[p]].status = "RUNNING" /\ txn'[job[p]].attempts = loaded[p] + 1
    <2>1. txn' = Claimed(txn, job[p], loaded[p])
        BY DEF Claim, Write
    <2> QED BY <1>1, <2>1, ClaimedRows
<1>3. \A i \in DOMAIN txn : i \in DOMAIN txn' /\ txn'[i].max = txn[i].max
    BY <1>1, <1>2 DEF Keeps
<1>4. WithinLimit(txn'[job[p]])
    <2>1. txn[job[p]].max \in Nat /\ txn'[job[p]].max = txn[job[p]].max
        BY <1>1, <1>2 DEF Job, Keeps
    <2> QED BY <1>1, <1>2, <2>1 DEF WithinLimit, Limit, WAITING_JOB_STATUSES
<1>5. \A i \in DOMAIN txn' : WithinLimit(txn'[i])
    BY <1>2, <1>4 DEF Keeps, LimitInv
<1>6. /\ CanWrite(p) /\ lock' = p /\ db' = db /\ job' = job /\ loaded' = loaded
      /\ \A q \in Procs : pc'[q] = "claiming" => q # p /\ pc[q] = "claiming"
    BY DEF Claim, Write, Goto, TypeInv, TypeOK
<1> QED BY <1>3, <1>5, <1>6, LimitWrite

(* An outcome keeps a row within its limit. *)
LEMMA OutcomeWithinLimit ==
    ASSUME NEW old \in Job, NEW new \in Job, WithinLimit(old),
           new.max = old.max, new.attempts = old.attempts,
           \/ new.status = "RETRYING" /\ new.attempts < new.max
           \/ new.status \in {"COMPLETED", "FAILED"}
    PROVE  WithinLimit(new)
BY DEF WithinLimit, Limit, Job, WAITING_JOB_STATUSES

LEMMA SucceedLimit ==
    ASSUME TypeInv, LimitInv, NEW p \in Procs, Succeed(p) PROVE LimitInv'
<1>1. PICK u \in Seq(Job) :
        /\ \/ u = txn
           \/ \E r \in Requests :
                /\ NewJob(r, now) \in Job
                /\ u = Append(txn, NewJob(r, now))
        /\ job[p] \in DOMAIN u
        /\ txn' = mark_success(u, job[p])
    BY SucceedTable
<1>2. /\ \A i \in DOMAIN txn : i \in DOMAIN u /\ u[i] = txn[i]
      /\ \A i \in DOMAIN u : WithinLimit(u[i])
    <2>1. CASE u = txn
        BY <2>1 DEF LimitInv
    <2>2. ASSUME NEW r \in Requests, NewJob(r, now) \in Job, u = Append(txn, NewJob(r, now))
          PROVE  /\ \A i \in DOMAIN txn : i \in DOMAIN u /\ u[i] = txn[i]
                 /\ \A i \in DOMAIN u : WithinLimit(u[i])
        <3>1. txn \in Seq(Job) /\ now \in Nat
            BY DEF TypeInv, TypeOK
        <3>2. WithinLimit(NewJob(r, now))
            BY <3>1, NewJobWithinLimit
        <3> QED BY <2>2, <3>1, <3>2, AppendRows DEF LimitInv
    <2> QED BY <1>1, <2>1, <2>2
<1>3. /\ txn' \in Seq(Job) /\ Keeps(u, txn', job[p])
      /\ txn'[job[p]].status = "COMPLETED" /\ txn'[job[p]].attempts = u[job[p]].attempts
    BY <1>1, SucceededRows
<1>4. \A i \in DOMAIN txn : i \in DOMAIN txn' /\ txn'[i].max = txn[i].max
    BY <1>2, <1>3 DEF Keeps
<1>5. WithinLimit(txn'[job[p]])
    <2>1. u[job[p]] \in Job /\ txn'[job[p]] \in Job
        BY <1>1, <1>3 DEF Keeps
    <2> QED BY <1>1, <1>2, <1>3, <2>1, OutcomeWithinLimit DEF Keeps
<1>6. \A i \in DOMAIN txn' : WithinLimit(txn'[i])
    BY <1>2, <1>3, <1>5 DEF Keeps
<1>7. /\ CanWrite(p) /\ lock' = p /\ db' = db /\ job' = job /\ loaded' = loaded
      /\ \A q \in Procs : pc'[q] = "claiming" => q # p /\ pc[q] = "claiming"
    BY HandlingJob DEF Succeed, CanWrite, Goto, TypeInv, TypeOK
<1> QED BY <1>4, <1>6, <1>7, LimitWrite

LEMMA FailLimit ==
    ASSUME TypeInv, LimitInv, NEW p \in Procs, Fail(p) PROVE LimitInv'
<1>1. lock = p /\ job[p] \in DOMAIN txn /\ txn \in Seq(Job) /\ txn[job[p]] \in Job
    BY HandlingJob DEF Fail
<1>2. /\ txn' \in Seq(Job) /\ Keeps(txn, txn', job[p])
      /\ txn'[job[p]].attempts = txn[job[p]].attempts
      /\ \/ txn'[job[p]].status = "RETRYING" /\ txn'[job[p]].attempts < txn'[job[p]].max
         \/ txn'[job[p]].status = "FAILED"
    BY FailTable
<1>3. \A i \in DOMAIN txn : i \in DOMAIN txn' /\ txn'[i].max = txn[i].max
    BY <1>2 DEF Keeps
<1>4. WithinLimit(txn'[job[p]])
    <2>1. txn'[job[p]] \in Job /\ WithinLimit(txn[job[p]])
        BY <1>1, <1>2 DEF Keeps, LimitInv
    <2> QED BY <1>1, <1>2, <1>3, <2>1, OutcomeWithinLimit
<1>5. \A i \in DOMAIN txn' : WithinLimit(txn'[i])
    BY <1>2, <1>4 DEF Keeps, LimitInv
<1>6. /\ CanWrite(p) /\ lock' = p /\ db' = db /\ job' = job /\ loaded' = loaded
      /\ \A q \in Procs : pc'[q] = "claiming" => q # p /\ pc[q] = "claiming"
    BY <1>1 DEF Fail, CanWrite, Goto, TypeInv, TypeOK
<1> QED BY <1>3, <1>5, <1>6, LimitWrite

LEMMA SelectLimit ==
    ASSUME TypeInv, LimitInv, NEW p \in Procs, Select(p) PROVE LimitInv'
<1>1. PICK i \in DOMAIN View(p) :
        /\ View(p)[i].status \in WAITING_JOB_STATUSES
        /\ job' = [job EXCEPT ![p] = i]
        /\ loaded' = [loaded EXCEPT ![p] = View(p)[i].attempts]
    BY DEF Select, FirstDue, DueJobs
<1>2. View(p)[i].attempts < Limit(View(p)[i])
    BY <1>1 DEF LimitInv, WithinLimit, View
<1>3. /\ db' = db /\ txn' = txn /\ lock' = lock
      /\ \A q \in Procs : q # p => pc'[q] = pc[q]
    BY DEF Select, Goto, TypeInv, TypeOK
<1> QED BY <1>1, <1>2, <1>3 DEF LimitInv, View, TypeInv, TypeOK

LEMMA CommitLimit ==
    ASSUME TypeInv, LimitInv, NEW p \in Procs, Commit(p) PROVE LimitInv'
<1>1. txn' = txn /\ db' = View(p) /\ \A q \in Procs : q # p => pc'[q] = pc[q]
    BY DEF Commit, Leave, Goto, TypeInv, TypeOK
<1>2. \A i \in DOMAIN db' : WithinLimit(db'[i]) /\ txn'[i].max = db'[i].max
    BY <1>1 DEF LimitInv, View
<1>3. ASSUME NEW q \in Procs, pc'[q] = "claiming"
      PROVE  loaded'[q] < Limit(View(q)'[job'[q]])
    <2>1. q # p /\ pc[q] = "claiming" /\ job'[q] = job[q] /\ loaded'[q] = loaded[q]
        BY <1>3 DEF Commit, Leave, Goto, TypeInv, TypeOK
    <2>2. CASE lock = p
        <3>1. View(q) = db /\ View(q)' = txn /\ job[q] \in DOMAIN db
            BY <1>1, <2>1, <2>2, NoProcIsNoProc DEF View, TypeInv, Commit, Leave
        <3>2. Limit(txn[job[q]]) = Limit(db[job[q]])
            BY <3>1 DEF LimitInv, Limit
        <3> QED BY <2>1, <3>1, <3>2 DEF LimitInv
    <2>3. CASE lock # p
        BY <1>1, <2>1, <2>3 DEF View, Commit, Leave, LimitInv
    <2> QED BY <2>2, <2>3
<1> QED BY <1>1, <1>2, <1>3 DEF LimitInv

LEMMA LimitStep ==
    ASSUME TypeInv, LimitInv, [Next]_vars PROVE LimitInv'
<1>1. CASE Tick
    BY <1>1 DEF Tick, LimitInv, View
<1>2. ASSUME NEW p \in Procs, Open(p) \/ \E r \in Requests : CheckDuplicate(p, r)
      PROVE  LimitInv'
    BY <1>2 DEF Open, CheckDuplicate, Goto, LimitInv, View, TypeInv, TypeOK
<1>3. ASSUME NEW p \in Procs, BusyTimeout(p) PROVE LimitInv'
    BY <1>3 DEF BusyTimeout, CanWrite, Leave, Goto, LimitInv, View, TypeInv, TypeOK
<1>4. ASSUME NEW p \in Procs, Kill(p) PROVE LimitInv'
    <2>1. CASE lock = p
        BY <1>4, <2>1, NoProcIsNoProc DEF Kill, Leave, Goto, LimitInv, View, TypeInv, TypeOK
    <2>2. CASE lock # p
        BY <1>4, <2>2 DEF Kill, Leave, Goto, LimitInv, View, TypeInv, TypeOK
    <2> QED BY <2>1, <2>2
<1>5. CASE UNCHANGED vars
    BY <1>5 DEF vars, LimitInv, View
<1> QED
    BY <1>1, <1>2, <1>3, <1>4, <1>5, InsertLimit, SelectLimit, ClaimLimit, SucceedLimit,
       FailLimit, CommitLimit
    DEF Next, ProcNext

(* No row is committed with more attempts than its limit, not even when    *)
(* several processes execute the same job and overwrite each other's row.  *)
THEOREM AttemptsLimit == Spec => []AttemptsBounded
<1>1. Init => LimitInv
    BY DEF Init, LimitInv
<1>2. LimitInv => AttemptsBounded
    BY DEF LimitInv, WithinLimit, Limit, AttemptsBounded
<1> QED BY <1>1, <1>2, LimitStep, TypeInvHolds, PTL DEF Spec

-----------------------------------------------------------------------------
(* Every attempt on record took place *)

(* The row of the job that is being executed counts the execution that is  *)
(* under way; every other row, and what a process has loaded of the row it *)
(* selected, counts executions that are over.                              *)
RunsInv ==
    /\ Len(txn) <= MaxJobs
    /\ \A i \in DOMAIN db : db[i].attempts <= runs[i]
    /\ \A i \in DOMAIN txn : Ongoing(i) \/ txn[i].attempts <= runs[i]
    /\ \A i \in DOMAIN txn : txn[i].attempts <= runs[i] + 1
    /\ \A p \in Procs : pc[p] = "claiming" => loaded[p] <= runs[job[p]]

LEMMA RowIds ==
    ASSUME TypeInv, RunsInv
    PROVE  /\ DOMAIN txn \subseteq 1 .. MaxJobs /\ DOMAIN db \subseteq DOMAIN txn
           /\ \A i \in 1 .. MaxJobs : runs[i] \in Nat
           /\ \A i \in DOMAIN txn : txn[i].attempts \in Nat
<1>1. txn \in Seq(Job) /\ db \in Seq(Job) /\ Len(db) <= Len(txn) /\ Len(txn) <= MaxJobs
    BY DEF TypeInv, TypeOK, RunsInv
<1>2. \A i \in DOMAIN txn : txn[i] \in Job
    BY <1>1
<1>3. \A i \in 1 .. MaxJobs : runs[i] \in Nat
    BY DEF TypeInv, TypeOK
<1>4. DOMAIN txn \subseteq 1 .. MaxJobs /\ DOMAIN db \subseteq DOMAIN txn
    BY <1>1, QueueSessionsAssumption
<1> QED BY <1>2, <1>3, <1>4 DEF Job

(* A session that is not handling a job sees settled rows only. *)
LEMMA NoneOngoing ==
    ASSUME TypeInv, RunsInv, NEW p \in Procs, CanWrite(p), pc[p] # "handling"
    PROVE  \A i \in DOMAIN txn : ~Ongoing(i) /\ txn[i].attempts <= runs[i]
BY NoProcIsNoProc DEF TypeInv, RunsInv, Ongoing, CanWrite

LEMMA InsertRuns ==
    ASSUME TypeInv, RunsInv, NEW p \in Procs, Insert(p) PROVE RunsInv'
<1> DEFINE row == NewJob(want[p], now)
<1>1. /\ txn' = Append(txn, row) /\ txn \in Seq(Job) /\ row \in Job
      /\ row.attempts = 0 /\ Len(txn) < MaxJobs
    BY NewJobFresh DEF TypeInv, TypeOK, Insert, Write
<1> HIDE DEF row
<1>2. \A i \in DOMAIN txn : txn[i].attempts <= runs[i]
    BY NoneOngoing DEF Insert
<1>3. Len(txn') <= MaxJobs /\ Len(txn) + 1 \in 1 .. MaxJobs
    BY <1>1, AppendRows, QueueSessionsAssumption
<1>4. \A i \in DOMAIN txn' : txn'[i].attempts <= runs[i]
    <2>1. runs[Len(txn) + 1] \in Nat
        BY <1>3, RowIds
    <2> QED BY <1>1, <1>2, <2>1, AppendRows
<1>5. \A i \in DOMAIN txn' : txn'[i].attempts \in Nat /\ runs[i] \in Nat
    <2>1. \A i \in DOMAIN txn' : txn'[i] \in Job
        BY <1>1, AppendRows
    <2>2. \A i \in DOMAIN txn' : i \in 1 .. MaxJobs
        BY <1>1, <1>3, AppendRows, RowIds
    <2> QED BY <2>1, <2>2, RowIds DEF Job
<1>6. /\ db' = db /\ job' = job /\ loaded' = loaded /\ runs' = runs
      /\ \A q \in Procs : pc'[q] = "claiming" => pc[q] = "claiming"
    BY DEF Insert, Goto, TypeInv, TypeOK
<1> QED BY <1>3, <1>4, <1>5, <1>6 DEF RunsInv

LEMMA SelectRuns ==
    ASSUME TypeInv, RunsInv, NEW p \in Procs, Select(p) PROVE RunsInv'
<1>1. PICK i \in DOMAIN View(p) :
        /\ job' = [job EXCEPT ![p] = i]
        /\ loaded' = [loaded EXCEPT ![p] = View(p)[i].attempts]
    BY DEF Select
<1>2. View(p)[i].attempts <= runs[i]
    BY <1>1, NoneOngoing DEF RunsInv, View, CanWrite, Select
<1>3. /\ db' = db /\ txn' = txn /\ lock' = lock /\ runs' = runs
      /\ pc[p] # "handling" /\ \A q \in Procs : q # p => pc'[q] = pc[q]
    BY DEF Select, Goto, TypeInv, TypeOK
<1>4. \A j : Ongoing(j) => Ongoing(j)'
    BY <1>1, <1>3 DEF Ongoing, TypeInv, TypeOK
<1> QED BY <1>1, <1>2, <1>3, <1>4 DEF RunsInv, TypeInv, TypeOK

LEMMA ClaimRuns ==
    ASSUME TypeInv, RunsInv, NEW p \in Procs, Claim(p) PROVE RunsInv'
<1>1. /\ job[p] \in DOMAIN txn /\ txn \in Seq(Job) /\ txn[job[p]] \in Job
      /\ loaded[p] \in Nat /\ loaded[p] <= runs[job[p]]
    BY ViewIsTable DEF Claim, TypeInv, TypeOK, RunsInv
<1>2. /\ txn' \in Seq(Job) /\ Keeps(txn, txn', job[p])
      /\ txn'[job[p]].attempts = loaded[p] + 1
    <2>1. txn' = Claimed(txn, job[p], loaded[p])
        BY DEF Claim, Write
    <2> QED BY <1>1, <2>1, ClaimedRows
<1>3. \A i \in DOMAIN txn : txn[i].attempts <= runs[i]
    BY NoneOngoing DEF Claim
<1>4. /\ db' = db /\ job' = job /\ loaded' = loaded /\ runs' = runs /\ lock' = p
      /\ pc'[p] = "handling" /\ \A q \in Procs : pc'[q] = "claiming" => pc[q] = "claiming"
    BY DEF Claim, Write, Goto, TypeInv, TypeOK
<1>5. Ongoing(job[p])'
    BY <1>4 DEF Ongoing
<1>6. runs[job[p]] \in Nat
    BY <1>1, RowIds
<1>7. \A i \in DOMAIN txn' : i # job[p] => txn'[i].attempts <= runs[i]
    BY <1>2, <1>3 DEF Keeps
<1>8. txn'[job[p]].attempts <= runs[job[p]] + 1
    BY <1>1, <1>2, <1>6
<1>9. \A i \in DOMAIN txn' : i # job[p] => txn'[i].attempts <= runs[i] + 1
    BY <1>2, <1>7, RowIds DEF Keeps
<1> QED BY <1>2, <1>4, <1>5, <1>7, <1>8, <1>9 DEF RunsInv, Keeps

(* One execution more has taken place. *)
LEMMA RanMore ==
    ASSUME TypeInv, NEW i \in 1 .. MaxJobs, Ran(i)
    PROVE  /\ runs'[i] = runs[i] + 1
           /\ \A j \in 1 .. MaxJobs : runs[j] \in Nat /\ runs'[j] \in Nat /\ runs[j] <= runs'[j]
<1>1. runs \in [1 .. MaxJobs -> Nat] /\ runs' = [runs EXCEPT ![i] = runs[i] + 1]
    BY DEF TypeInv, TypeOK, Ran
<1>2. runs'[i] = runs[i] + 1 /\ \A j \in 1 .. MaxJobs : j # i => runs'[j] = runs[j]
    BY <1>1
<1>3. \A j \in 1 .. MaxJobs : runs[j] \in Nat
    BY <1>1
<1> QED BY <1>2, <1>3

LEMMA OutcomeRuns ==
    ASSUME TypeInv, RunsInv, NEW p \in Procs, pc[p] = "handling", Ran(job[p]),
           db' = db, job' = job, loaded' = loaded,
           \A q \in Procs : pc'[q] = "claiming" => pc[q] = "claiming",
           Len(txn') <= MaxJobs, DOMAIN txn' \subseteq 1 .. MaxJobs,
           \A i \in DOMAIN txn' :
                txn'[i].attempts = 0 \/ (i \in DOMAIN txn /\ txn'[i].attempts = txn[i].attempts)
    PROVE  RunsInv'
<1>1. lock = p /\ job[p] \in DOMAIN txn /\ job[p] \in 1 .. MaxJobs
    BY HandlingJob, RowIds
<1>2. /\ runs'[job[p]] = runs[job[p]] + 1
      /\ \A j \in 1 .. MaxJobs : runs[j] \in Nat /\ runs'[j] \in Nat /\ runs[j] <= runs'[j]
    BY <1>1, RanMore
<1>3. \A i \in DOMAIN txn : i # job[p] => txn[i].attempts <= runs[i]
    BY <1>1 DEF RunsInv, Ongoing
<1>4. \A i \in DOMAIN txn : txn[i].attempts <= runs'[i] /\ txn[i].attempts \in Nat
    BY <1>1, <1>2, <1>3, RowIds DEF RunsInv
<1>5. \A i \in DOMAIN txn' : txn'[i].attempts <= runs'[i] /\ txn'[i].attempts <= runs'[i] + 1
    BY <1>2, <1>4
<1>6. \A i \in DOMAIN db : db[i].attempts <= runs'[i]
    <2>1. \A i \in DOMAIN db : i \in 1 .. MaxJobs /\ db[i].attempts \in Nat
        <3>1. \A i \in DOMAIN db : db[i] \in Job /\ i \in 1 .. MaxJobs
            BY RowIds DEF TypeInv, TypeOK
        <3> QED BY <3>1 DEF Job
    <2> QED BY <1>2, <2>1 DEF RunsInv
<1>7. \A q \in Procs : pc[q] = "claiming" => loaded[q] <= runs'[job[q]]
    <2>1. \A q \in Procs : pc[q] = "claiming" => job[q] \in 1 .. MaxJobs /\ loaded[q] \in Nat
        BY RowIds DEF TypeInv, TypeOK, View
    <2> QED BY <1>2, <2>1 DEF RunsInv
<1> QED BY <1>5, <1>6, <1>7 DEF RunsInv

LEMMA SucceedRuns ==
    ASSUME TypeInv, RunsInv, NEW p \in Procs, Succeed(p) PROVE RunsInv'
<1>1. PICK u \in Seq(Job) :
        /\ \/ u = txn
           \/ \E r \in Requests :
                /\ NewJob(r, now) \in Job
                /\ u = Append(txn, NewJob(r, now))
                /\ Len(txn) < MaxJobs
        /\ job[p] \in DOMAIN u
        /\ txn' = mark_success(u, job[p])
    BY SucceedTable
<1>2. txn \in Seq(Job) /\ now \in Nat /\ Len(txn) <= MaxJobs /\ job[p] \in DOMAIN txn
    BY HandlingJob DEF TypeInv, TypeOK, RunsInv, Succeed
<1>3. /\ Len(u) <= MaxJobs
      /\ \A i \in DOMAIN u : u[i].attempts = 0 \/ (i \in DOMAIN txn /\ u[i] = txn[i])
      /\ u[job[p]] = txn[job[p]]
    <2>1. CASE u = txn
        BY <1>2, <2>1
    <2>2. ASSUME NEW r \in Requests, NewJob(r, now) \in Job, u = Append(txn, NewJob(r, now)),
                 Len(txn) < MaxJobs
          PROVE  /\ Len(u) <= MaxJobs
                 /\ \A i \in DOMAIN u : u[i].attempts = 0 \/ (i \in DOMAIN txn /\ u[i] = txn[i])
                 /\ u[job[p]] = txn[job[p]]
        <3>1. NewJob(r, now).attempts = 0
            BY <1>2, NewJobFresh
        <3>2. Len(u) <= MaxJobs
            BY <1>2, <2>2, AppendRows, QueueSessionsAssumption
        <3> QED BY <1>2, <2>2, <3>1, <3>2, AppendRows
    <2> QED BY <1>1, <2>1, <2>2
<1>4. /\ Keeps(u, txn', job[p]) /\ txn' \in Seq(Job)
      /\ txn'[job[p]].attempts = u[job[p]].attempts
    BY <1>1, SucceededRows
<1>5. Len(txn') <= MaxJobs /\ DOMAIN txn' \subseteq 1 .. MaxJobs
    BY <1>3, <1>4, QueueSessionsAssumption DEF Keeps
<1>6. \A i \in DOMAIN txn' :
        txn'[i].attempts = 0 \/ (i \in DOMAIN txn /\ txn'[i].attempts = txn[i].attempts)
    BY <1>2, <1>3, <1>4 DEF Keeps
<1>7. /\ pc[p] = "handling" /\ Ran(job[p]) /\ db' = db /\ job' = job /\ loaded' = loaded
      /\ \A q \in Procs : pc'[q] = "claiming" => pc[q] = "claiming"
    BY DEF Succeed, Goto, TypeInv, TypeOK
<1> QED BY <1>5, <1>6, <1>7, OutcomeRuns

LEMMA FailRuns ==
    ASSUME TypeInv, RunsInv, NEW p \in Procs, Fail(p) PROVE RunsInv'
<1>1. /\ Keeps(txn, txn', job[p]) /\ txn' \in Seq(Job)
      /\ txn'[job[p]].attempts = txn[job[p]].attempts
    BY FailTable
<1>2. Len(txn') <= MaxJobs /\ DOMAIN txn' \subseteq 1 .. MaxJobs
    BY <1>1, RowIds DEF Keeps, RunsInv
<1>3. \A i \in DOMAIN txn' : i \in DOMAIN txn /\ txn'[i].attempts = txn[i].attempts
    BY <1>1 DEF Keeps
<1>4. /\ pc[p] = "handling" /\ Ran(job[p]) /\ db' = db /\ job' = job /\ loaded' = loaded
      /\ \A q \in Procs : pc'[q] = "claiming" => pc[q] = "claiming"
    BY DEF Fail, Goto, TypeInv, TypeOK
<1> QED BY <1>2, <1>3, <1>4, OutcomeRuns

LEMMA CommitRuns ==
    ASSUME TypeInv, RunsInv, NEW p \in Procs, Commit(p) PROVE RunsInv'
<1>1. /\ txn' = txn /\ db' = View(p) /\ runs' = runs
      /\ \A q \in Procs : q # p => /\ pc'[q] = pc[q] /\ job'[q] = job[q]
                                  /\ loaded'[q] = loaded[q]
      /\ pc'[p] = "idle"
    BY DEF Commit, Leave, Goto, TypeInv, TypeOK
<1>2. CASE lock = p
    <2>1. \A i \in DOMAIN txn : txn[i].attempts <= runs[i]
        BY <1>2, NoneOngoing DEF Commit, CanWrite
    <2> QED BY <1>1, <1>2, <2>1 DEF RunsInv, View
<1>3. CASE lock # p
    <2>1. \A i : Ongoing(i) => Ongoing(i)'
        BY <1>1, <1>3 DEF Ongoing, Commit, Leave
    <2> QED BY <1>1, <1>3, <2>1 DEF RunsInv, View
<1> QED BY <1>2, <1>3

LEMMA RunsStep ==
    ASSUME TypeInv, RunsInv, [Next]_vars PROVE RunsInv'
<1>1. CASE Tick
    BY <1>1 DEF Tick, RunsInv, Ongoing
<1>2. ASSUME NEW p \in Procs, Open(p) \/ \E r \in Requests : CheckDuplicate(p, r)
      PROVE  RunsInv'
    BY <1>2 DEF Open, CheckDuplicate, Goto, RunsInv, Ongoing, TypeInv, TypeOK
<1>3. ASSUME NEW p \in Procs, BusyTimeout(p) PROVE RunsInv'
    BY <1>3 DEF BusyTimeout, CanWrite, Leave, Goto, RunsInv, Ongoing, TypeInv, TypeOK
<1>4. ASSUME NEW p \in Procs, Kill(p) PROVE RunsInv'
    <2>1. /\ db' = db /\ runs' = runs /\ pc'[p] = "idle"
          /\ \A q \in Procs : q # p => /\ pc'[q] = pc[q] /\ job'[q] = job[q]
                                      /\ loaded'[q] = loaded[q]
        BY <1>4 DEF Kill, Leave, Goto, TypeInv, TypeOK
    <2>2. CASE lock = p
        <3>1. txn' = db
            BY <1>4, <2>2 DEF Kill
        <3>2. \A i \in DOMAIN db : db[i].attempts <= runs[i] + 1
            <4>1. \A i \in DOMAIN db : runs[i] \in Nat /\ db[i].attempts \in Nat
                <5>1. \A i \in DOMAIN db : db[i] \in Job
                    BY DEF TypeInv, TypeOK
                <5> QED BY <5>1, RowIds DEF Job
            <4> QED BY <4>1 DEF RunsInv
        <3>3. Len(db) <= MaxJobs
            BY QueueSessionsAssumption DEF TypeInv, TypeOK, RunsInv
        <3> QED BY <2>1, <3>1, <3>2, <3>3 DEF RunsInv
    <2>3. CASE lock # p
        <3>1. txn' = txn /\ lock' = lock
            BY <1>4, <2>3 DEF Kill, Leave
        <3>2. \A i : Ongoing(i) => Ongoing(i)'
            BY <2>1, <2>3, <3>1 DEF Ongoing
        <3> QED BY <2>1, <3>1, <3>2 DEF RunsInv
    <2> QED BY <2>2, <2>3
<1>5. CASE UNCHANGED vars
    BY <1>5 DEF vars, RunsInv, Ongoing
<1> QED
    BY <1>1, <1>2, <1>3, <1>4, <1>5, InsertRuns, SelectRuns, ClaimRuns, SucceedRuns, FailRuns,
       CommitRuns
    DEF Next, ProcNext

(* A committed row never counts an attempt whose handler did not run.      *)
THEOREM AttemptsTookPlace == Spec => []AttemptsAreRuns
<1>1. Init => RunsInv
    BY QueueSessionsAssumption DEF Init, RunsInv
<1>2. RunsInv => AttemptsAreRuns
    BY DEF RunsInv, AttemptsAreRuns
<1> QED BY <1>1, <1>2, RunsStep, TypeInvHolds, PTL DEF Spec

-----------------------------------------------------------------------------
(* There is one process. *)
Alone == \A p, q \in Procs : p = q

-----------------------------------------------------------------------------
(* The ledger's definitions, over the tables of QueueSessions *)

(* u is t with new rows nobody has tried, and perhaps another row i. *)
Grown(t, u, i) ==
    /\ Len(t) <= Len(u)
    /\ \A j \in DOMAIN t : j # i => u[j] = t[j]
    /\ \A j \in DOMAIN u : j \notin DOMAIN t /\ j # i => Ledger!Fresh(u[j])

(* Row i was waiting in t, in turn, and has one attempt more in u; a row   *)
(* that t does not have is in its first.                                   *)
Taken(t, u, i) ==
    /\ i \in DOMAIN u
    /\ i \in DOMAIN t =>
        /\ t[i].status \in WAITING_JOB_STATUSES
        /\ u[i].attempts = t[i].attempts + 1
        /\ u[i].key = t[i].key /\ u[i].max = t[i].max /\ u[i].delay = t[i].delay
        /\ Ledger!InTurn(t, i)
    /\ i \notin DOMAIN t => u[i].attempts = 1

HasOutcome(row) ==
    \/ row.status \in {"COMPLETED", "FAILED"}
    \/ row.status = "RETRYING" /\ row.attempts < row.max

(* What the transaction of each step has done so far to the table. *)
AloneInv ==
    /\ OneActivePerKey(txn)
    /\ \A p \in Procs : pc[p] \in {"idle", "filling", "inserting", "claiming"} => Grown(db, txn, 0)
    /\ \A p \in Procs : pc[p] = "inserting" => find_active_by_key(txn, want[p].key) = {}
    /\ \A p \in Procs : pc[p] = "claiming" =>
        /\ txn[job[p]].status \in WAITING_JOB_STATUSES
        /\ loaded[p] = txn[job[p]].attempts
        /\ job[p] \in DOMAIN db => Ledger!InTurn(db, job[p])
    /\ \A p \in Procs : pc[p] \in {"handling", "closing"} =>
        Grown(db, txn, job[p]) /\ Taken(db, txn, job[p])
    /\ \A p \in Procs : pc[p] = "handling" => txn[job[p]].status = "RUNNING"
    /\ \A p \in Procs : pc[p] = "closing" => HasOutcome(txn[job[p]])

LEMMA AloneWrites ==
    ASSUME Alone, TypeInv, NEW p \in Procs
    PROVE  CanWrite(p) /\ View(p) = txn /\ \A q \in Procs : q = p
<1>1. \A q \in Procs : q = p
    BY DEF Alone
<1>2. CanWrite(p)
    BY <1>1 DEF CanWrite, TypeInv, TypeOK
<1> QED BY <1>1, <1>2, ViewIsTable

(* A committed transaction is a step of the ledger. *)
LEMMA SettledEvolves ==
    ASSUME NEW t \in Seq(Job), NEW u \in Seq(Job), NEW i \in DOMAIN u,
           OneActivePerKey(u), Grown(t, u, i), Taken(t, u, i), HasOutcome(u[i])
    PROVE  Ledger!Evolves(t, u)
<1>1. Ledger!OneActivePerKey(u)
    BY DEF OneActivePerKey, Ledger!OneActivePerKey, ACTIVE_JOB_STATUSES, WAITING_JOB_STATUSES,
           Ledger!ACTIVE_JOB_STATUSES, Ledger!WAITING_JOB_STATUSES
<1>2. i \in 0 .. Len(u) /\ u[i] \in Job
    OBVIOUS
<1>3. i \in DOMAIN t => Ledger!Settles(t[i], u[i]) /\ Ledger!InTurn(t, i)
    BY DEF Taken, HasOutcome, Ledger!Settles, WAITING_JOB_STATUSES, Ledger!WAITING_JOB_STATUSES
<1>4. i \in DOMAIN u \ DOMAIN t => Ledger!AddedAndSettled(u[i])
    BY <1>2 DEF Taken, HasOutcome, Ledger!AddedAndSettled, Job
<1>5. /\ Len(t) <= Len(u)
      /\ \A j \in DOMAIN t \ {i} : u[j] = t[j]
      /\ \A j \in DOMAIN u \ (DOMAIN t \cup {i}) : Ledger!Fresh(u[j])
    BY DEF Grown
<1> QED BY <1>1, <1>2, <1>3, <1>4, <1>5 DEF Ledger!Evolves

LEMMA GrownEvolves ==
    ASSUME NEW t \in Seq(Job), NEW u \in Seq(Job), OneActivePerKey(u), Grown(t, u, 0)
    PROVE  Ledger!Evolves(t, u)
<1>1. Ledger!OneActivePerKey(u)
    BY DEF OneActivePerKey, Ledger!OneActivePerKey, ACTIVE_JOB_STATUSES, WAITING_JOB_STATUSES,
           Ledger!ACTIVE_JOB_STATUSES, Ledger!WAITING_JOB_STATUSES
<1>2. 0 \in 0 .. Len(u) /\ 0 \notin DOMAIN t /\ 0 \notin DOMAIN u
    OBVIOUS
<1>3. /\ Len(t) <= Len(u)
      /\ \A j \in DOMAIN t \ {0} : u[j] = t[j]
      /\ \A j \in DOMAIN u \ (DOMAIN t \cup {0}) : Ledger!Fresh(u[j])
    BY DEF Grown
<1> QED BY <1>1, <1>2, <1>3 DEF Ledger!Evolves

-----------------------------------------------------------------------------
(* Keys of active rows stay distinct *)

LEMMA AppendUnique ==
    ASSUME NEW t \in Seq(Job), NEW row \in Job, OneActivePerKey(t),
           find_active_by_key(t, row.key) = {}
    PROVE  OneActivePerKey(Append(t, row))
<1> DEFINE u == Append(t, row)
<1>1. /\ DOMAIN u = DOMAIN t \cup {Len(t) + 1} /\ u[Len(t) + 1] = row
      /\ \A i \in DOMAIN t : i # Len(t) + 1 /\ u[i] = t[i]
    BY AppendRows
<1>2. \A i \in DOMAIN t : ~(t[i].key = row.key /\ t[i].status \in ACTIVE_JOB_STATUSES)
    BY DEF find_active_by_key
<1> HIDE DEF u
<1>3. OneActivePerKey(u)
    BY <1>1, <1>2 DEF OneActivePerKey
<1> QED BY <1>3 DEF u

LEMMA KeepsUnique ==
    ASSUME NEW t \in Seq(Job), NEW u \in Seq(Job), NEW i \in DOMAIN t, Keeps(t, u, i),
           OneActivePerKey(t),
           u[i].status \in ACTIVE_JOB_STATUSES => t[i].status \in ACTIVE_JOB_STATUSES
    PROVE  OneActivePerKey(u)
BY DEF OneActivePerKey, Keeps

-----------------------------------------------------------------------------
(* One step of the process *)

LEMMA InsertAlone ==
    ASSUME Alone, TypeInv, AloneInv, NEW p \in Procs, Insert(p) PROVE AloneInv'
<1> DEFINE row == NewJob(want[p], now)
<1>1. /\ txn' = Append(txn, row) /\ txn \in Seq(Job) /\ row \in Job
      /\ row.key = want[p].key /\ Ledger!Fresh(row)
    BY NewJobFresh DEF TypeInv, TypeOK, Insert, Write, Ledger!Fresh
<1> HIDE DEF row
<1>2. OneActivePerKey(txn')
    BY <1>1, AppendUnique DEF AloneInv, Insert
<1>3. /\ Grown(db, txn, 0) /\ db' = db /\ db \in Seq(Job)
      /\ \A q \in Procs : pc'[q] = "filling"
    BY AloneWrites DEF AloneInv, Insert, Goto, TypeInv, TypeOK
<1>4. Grown(db', txn', 0)
    BY <1>1, <1>3, AppendRows DEF Grown
<1> QED BY <1>2, <1>3, <1>4 DEF AloneInv

LEMMA SelectAlone ==
    ASSUME Alone, TypeInv, AloneInv, NEW p \in Procs, Select(p) PROVE AloneInv'
<1>1. PICK i \in DOMAIN txn :
        /\ FirstDue(txn, now, i)
        /\ job' = [job EXCEPT ![p] = i]
        /\ loaded' = [loaded EXCEPT ![p] = txn[i].attempts]
    BY AloneWrites DEF Select
<1>2. /\ db' = db /\ txn' = txn /\ job'[p] = i /\ loaded'[p] = txn[i].attempts
      /\ Grown(db, txn, 0) /\ \A q \in Procs : q = p /\ pc'[q] = "claiming"
    BY <1>1, AloneWrites DEF Select, Goto, AloneInv, TypeInv, TypeOK
<1>3. txn[i].status \in WAITING_JOB_STATUSES
    BY <1>1 DEF FirstDue, DueJobs
<1>4. ASSUME i \in DOMAIN db PROVE Ledger!InTurn(db, i)
    <2>1. db \in Seq(Job) /\ txn \in Seq(Job) /\ now \in Nat /\ i \in Nat
        BY DEF TypeInv, TypeOK
    <2>2. \A j \in DOMAIN db : j \in DOMAIN txn /\ txn[j] = db[j] /\ db[j].at \in Nat
        <3>1. \A j \in DOMAIN db : j \in DOMAIN txn /\ j # 0 /\ db[j] \in Job
            BY <2>1, <1>2 DEF Grown
        <3> QED BY <1>2, <3>1 DEF Grown, Job
    <2>3. db[i].at <= now
        BY <1>1, <1>4, <2>2 DEF FirstDue, DueJobs
    <2>4. ASSUME NEW j \in DOMAIN db \ {i}, db[j].status \in WAITING_JOB_STATUSES
          PROVE  Ledger!Before(db, i, j)
        <3>1. CASE db[j].at <= now
            <4>1. j \in DueJobs(txn, now) \ {i}
                BY <2>2, <2>4, <3>1 DEF DueJobs
            <4>2. Before(txn, i, j)
                BY <1>1, <4>1 DEF FirstDue
            <4> QED BY <1>4, <2>2, <4>2 DEF Before, Ledger!Before
        <3>2. CASE ~(db[j].at <= now)
            <4>1. db[i].at \in Nat /\ db[j].at \in Nat
                BY <1>4, <2>2
            <4> QED BY <2>1, <2>3, <3>2, <4>1 DEF Ledger!Before
        <3> QED BY <3>1, <3>2
    <2> QED BY <2>4 DEF Ledger!InTurn, Ledger!WAITING_JOB_STATUSES, WAITING_JOB_STATUSES
<1> QED BY <1>2, <1>3, <1>4 DEF AloneInv

LEMMA ClaimAlone ==
    ASSUME Alone, TypeInv, AloneInv, NEW p \in Procs, Claim(p) PROVE AloneInv'
<1>1. /\ txn \in Seq(Job) /\ db \in Seq(Job) /\ loaded[p] \in Nat /\ job[p] \in DOMAIN txn
    BY AloneWrites DEF Claim, TypeInv, TypeOK
<1>2. /\ Grown(db, txn, 0) /\ txn[job[p]].status \in WAITING_JOB_STATUSES
      /\ loaded[p] = txn[job[p]].attempts
      /\ job[p] \in DOMAIN db => Ledger!InTurn(db, job[p])
    BY DEF Claim, AloneInv
<1>3. /\ txn' \in Seq(Job) /\ Keeps(txn, txn', job[p])
      /\ txn'[job[p]].status = "RUNNING" /\ txn'[job[p]].attempts = loaded[p] + 1
    <2>1. txn' = Claimed(txn, job[p], loaded[p])
        BY DEF Claim, Write
    <2> QED BY <1>1, <2>1, ClaimedRows
<1>4. OneActivePerKey(txn')
    BY <1>1, <1>2, <1>3, KeepsUnique DEF AloneInv, ACTIVE_JOB_STATUSES
<1>5. Grown(db, txn', job[p])
    BY <1>1, <1>2, <1>3 DEF Grown, Keeps
<1>6. Taken(db, txn', job[p])
    <2>1. CASE job[p] \in DOMAIN db
        <3>1. db[job[p]] = txn[job[p]]
            BY <1>1, <1>2, <2>1 DEF Grown
        <3> QED BY <1>1, <1>2, <1>3, <2>1, <3>1 DEF Taken, Keeps
    <2>2. CASE job[p] \notin DOMAIN db
        <3>1. txn[job[p]].attempts = 0
            BY <1>1, <1>2, <2>2 DEF Grown, Ledger!Fresh
        <3> QED BY <1>1, <1>2, <1>3, <2>2, <3>1 DEF Taken, Keeps
    <2> QED BY <2>1, <2>2
<1>7. db' = db /\ job' = job /\ \A q \in Procs : q = p /\ pc'[q] = "handling"
    BY AloneWrites DEF Claim, Goto, TypeInv, TypeOK
<1> QED BY <1>3, <1>4, <1>5, <1>6, <1>7 DEF AloneInv

(* An outcome, written to the job's row, keeps what the transaction did.   *)
LEMMA OutcomeAlone ==
    ASSUME Alone, TypeInv, AloneInv, NEW p \in Procs, pc[p] = "handling",
           NEW u \in Seq(Job), txn' \in Seq(Job),
           OneActivePerKey(u), Grown(db, u, job[p]), job[p] \in DOMAIN txn, job[p] \in DOMAIN u,
           u[job[p]] = txn[job[p]],
           Keeps(u, txn', job[p]), txn'[job[p]].attempts = u[job[p]].attempts,
           HasOutcome(txn'[job[p]]),
           db' = db, job' = job, \A q \in Procs : pc'[q] = "closing"
    PROVE  AloneInv'
<1>1. /\ Taken(db, txn, job[p]) /\ txn[job[p]].status = "RUNNING"
      /\ \A q \in Procs : q = p
    BY AloneWrites DEF AloneInv
<1>2. OneActivePerKey(txn')
    BY <1>1, KeepsUnique DEF ACTIVE_JOB_STATUSES
<1>3. Grown(db, txn', job[p])
    BY DEF Grown, Keeps
<1>4. Taken(db, txn', job[p])
    BY <1>1 DEF Taken, Keeps
<1> QED BY <1>1, <1>2, <1>3, <1>4 DEF AloneInv

LEMMA SucceedAlone ==
    ASSUME Alone, TypeInv, AloneInv, NEW p \in Procs, Succeed(p) PROVE AloneInv'
<1>1. /\ txn \in Seq(Job) /\ db \in Seq(Job) /\ now \in Nat
      /\ job[p] \in DOMAIN txn /\ pc[p] = "handling"
      /\ OneActivePerKey(txn) /\ Grown(db, txn, job[p])
    BY HandlingJob DEF Succeed, TypeInv, TypeOK, AloneInv
<1>2. PICK u \in Seq(Job) :
        /\ \/ u = txn
           \/ \E r \in Requests :
                /\ find_active_by_key(txn, r.key) = {}
                /\ NewJob(r, now) \in Job
                /\ u = Append(txn, NewJob(r, now))
        /\ job[p] \in DOMAIN u
        /\ txn' = mark_success(u, job[p])
    BY SucceedTable
<1>3. OneActivePerKey(u) /\ Grown(db, u, job[p]) /\ u[job[p]] = txn[job[p]]
    <2>1. CASE u = txn
        BY <1>1, <2>1
    <2>2. ASSUME NEW r \in Requests, find_active_by_key(txn, r.key) = {},
                 NewJob(r, now) \in Job, u = Append(txn, NewJob(r, now))
          PROVE  OneActivePerKey(u) /\ Grown(db, u, job[p]) /\ u[job[p]] = txn[job[p]]
        <3>1. NewJob(r, now).key = r.key /\ Ledger!Fresh(NewJob(r, now))
            BY <1>1, NewJobFresh DEF Ledger!Fresh
        <3>2. OneActivePerKey(u)
            BY <1>1, <2>2, <3>1, AppendUnique
        <3>3. Grown(db, u, job[p])
            BY <1>1, <2>2, <3>1, AppendRows DEF Grown
        <3> QED BY <1>1, <2>2, <3>2, <3>3, AppendRows
    <2> QED BY <1>2, <2>1, <2>2
<1>4. /\ Keeps(u, txn', job[p]) /\ txn' \in Seq(Job) /\ HasOutcome(txn'[job[p]])
      /\ txn'[job[p]].attempts = u[job[p]].attempts
    BY <1>2, SucceededRows DEF HasOutcome
<1>5. db' = db /\ job' = job /\ \A q \in Procs : pc'[q] = "closing"
    BY AloneWrites DEF Succeed, Goto, TypeInv, TypeOK
<1> QED BY <1>1, <1>2, <1>3, <1>4, <1>5, OutcomeAlone

LEMMA FailAlone ==
    ASSUME Alone, TypeInv, AloneInv, NEW p \in Procs, Fail(p) PROVE AloneInv'
<1>1. /\ txn \in Seq(Job) /\ job[p] \in DOMAIN txn /\ pc[p] = "handling"
      /\ OneActivePerKey(txn) /\ Grown(db, txn, job[p])
    BY HandlingJob DEF Fail, AloneInv
<1>2. /\ Keeps(txn, txn', job[p]) /\ txn' \in Seq(Job) /\ HasOutcome(txn'[job[p]])
      /\ txn'[job[p]].attempts = txn[job[p]].attempts
    BY FailTable DEF HasOutcome
<1>3. db' = db /\ job' = job /\ \A q \in Procs : pc'[q] = "closing"
    BY AloneWrites DEF Fail, Goto, TypeInv, TypeOK
<1> QED BY <1>1, <1>2, <1>3, OutcomeAlone

LEMMA GrownItself ==
    ASSUME NEW t \in Seq(Job) PROVE Grown(t, t, 0)
BY DEF Grown

LEMMA CommitAlone ==
    ASSUME Alone, TypeInv, AloneInv, NEW p \in Procs, Commit(p) PROVE AloneInv'
<1>1. txn' = txn /\ db' = txn /\ txn \in Seq(Job) /\ \A q \in Procs : pc'[q] = "idle"
    BY AloneWrites DEF Commit, Leave, Goto, TypeInv, TypeOK
<1> QED BY <1>1, GrownItself DEF AloneInv

LEMMA KillAlone ==
    ASSUME Alone, TypeInv, AloneInv, NEW p \in Procs, Kill(p), OneActivePerKey(db)
    PROVE  AloneInv'
<1>1. txn' = db /\ db' = db /\ db \in Seq(Job) /\ \A q \in Procs : pc'[q] = "idle"
    BY AloneWrites DEF Kill, Leave, Goto, TypeInv, TypeOK, CanWrite
<1> QED BY <1>1, GrownItself DEF AloneInv

LEMMA AloneStep ==
    ASSUME Alone, TypeInv, AloneInv, OneActivePerKey(db), [Next]_vars
    PROVE  AloneInv' /\ OneActivePerKey(db')
<1>1. CASE Tick
    BY <1>1 DEF Tick, AloneInv
<1>2. ASSUME NEW p \in Procs, Open(p) PROVE AloneInv'
    BY <1>2, AloneWrites DEF Open, Goto, AloneInv, TypeInv, TypeOK
<1>3. ASSUME NEW p \in Procs, NEW r \in Requests, CheckDuplicate(p, r) PROVE AloneInv'
    BY <1>3, AloneWrites DEF CheckDuplicate, Goto, AloneInv, TypeInv, TypeOK
<1>4. ASSUME NEW p \in Procs, BusyTimeout(p) PROVE FALSE
    BY <1>4, AloneWrites DEF BusyTimeout
<1>5. CASE UNCHANGED vars
    BY <1>5 DEF vars, AloneInv
<1>6. AloneInv'
    BY <1>1, <1>2, <1>3, <1>4, <1>5, InsertAlone, SelectAlone, ClaimAlone, SucceedAlone,
       FailAlone, CommitAlone, KillAlone
    DEF Next, ProcNext
<1>7. db' = db \/ \E p \in Procs : Commit(p)
    BY DEF Next, ProcNext, Tick, Open, CheckDuplicate, Insert, Select, Claim, Succeed, Fail,
           BusyTimeout, Kill, vars
<1>8. ASSUME NEW p \in Procs, Commit(p) PROVE db' = txn
    BY <1>8, AloneWrites DEF Commit
<1> QED BY <1>6, <1>7, <1>8 DEF AloneInv

(* A step of the process is a step of the ledger or leaves the table.      *)
LEMMA LedgerStep ==
    ASSUME Alone, TypeInv, AloneInv, [Next]_vars
    PROVE  [Ledger!Evolves(db, db')]_db
<1>1. db' = db \/ \E p \in Procs : Commit(p)
    BY DEF Next, ProcNext, Tick, Open, CheckDuplicate, Insert, Select, Claim, Succeed, Fail,
           BusyTimeout, Kill, vars
<1>2. ASSUME NEW p \in Procs, Commit(p) PROVE Ledger!Evolves(db, db')
    <2>1. db' = txn /\ txn \in Seq(Job) /\ db \in Seq(Job)
        BY <1>2, AloneWrites DEF Commit, TypeInv, TypeOK
    <2>2. CASE pc[p] = "closing"
        BY <2>1, <2>2, HandlingJob, SettledEvolves DEF AloneInv
    <2>3. CASE pc[p] = "filling"
        BY <2>1, <2>3, GrownEvolves DEF AloneInv
    <2> QED BY <1>2, <2>2, <2>3 DEF Commit
<1> QED BY <1>1, <1>2

(* A finished row is neither settled nor dropped by a step of the ledger.  *)
LEMMA EvolvesKeepsFinished ==
    ASSUME NEW t \in Seq(Job), NEW u \in Seq(Job), Ledger!Evolves(t, u),
           NEW i \in DOMAIN t, t[i].status \in TERMINAL_JOB_STATUSES
    PROVE  i \in DOMAIN u /\ u[i] = t[i]
<1>1. PICK k \in 0 .. Len(u) :
        /\ \A j \in DOMAIN t \ {k} : u[j] = t[j]
        /\ k \in DOMAIN t => Ledger!Settles(t[k], u[k])
    BY DEF Ledger!Evolves
<1>2. i # k
    BY <1>1 DEF Ledger!Settles, TERMINAL_JOB_STATUSES, Ledger!WAITING_JOB_STATUSES
<1>3. Len(t) <= Len(u)
    BY DEF Ledger!Evolves
<1> QED BY <1>1, <1>2, <1>3

LEMMA InitAlone == Init => AloneInv /\ OneActivePerKey(db) /\ Ledger!Init
BY DEF Init, AloneInv, OneActivePerKey, Grown, Ledger!Init

LEMMA AloneHolds ==
    ASSUME Alone PROVE Spec => [](AloneInv /\ OneActivePerKey(db))
<1>1. ASSUME TypeInv, AloneInv /\ OneActivePerKey(db), [Next]_vars
      PROVE  (AloneInv /\ OneActivePerKey(db))'
    <2>1. OneActivePerKey(db') => OneActivePerKey(db)'
        BY DEF OneActivePerKey
    <2> QED BY <1>1, <2>1, AloneStep
<1> QED BY <1>1, InitAlone, TypeInvHolds, PTL DEF Spec

-----------------------------------------------------------------------------
(* With one process at work, enqueue's check of the committed table is     *)
(* enough: no two committed active jobs share a unique_key                 *)
(* (queue/service.py, enqueue).                                            *)
THEOREM UniqueActiveAlone ==
    ASSUME Alone PROVE Spec => []UniqueActive
<1>1. OneActivePerKey(db) => UniqueActive
    BY DEF UniqueActive
<1> QED BY <1>1, AloneHolds, PTL

(* With one process at work, the committed table implements JobLedger:     *)
(* every transaction adds fresh jobs with free keys and settles at most    *)
(* the one job in turn (database/session.py, cli.py's session_scope).      *)
THEOREM LedgerImplemented ==
    ASSUME Alone PROVE Spec => ImplementsLedger
<1>1. ASSUME TypeInv, AloneInv /\ OneActivePerKey(db), [Next]_vars
      PROVE  [Ledger!Next]_db
    BY <1>1, LedgerStep DEF Ledger!Next
<1> QED BY <1>1, InitAlone, AloneHolds, TypeInvHolds, PTL
    DEF Spec, ImplementsLedger, Ledger!Spec

(* With one process at work, a committed job that has ended is never       *)
(* changed again (database/repositories.py, claim_due).                    *)
THEOREM TerminalForeverAlone ==
    ASSUME Alone PROVE Spec => TerminalForever
<1>1. ASSUME TypeInv, TypeInv', AloneInv /\ OneActivePerKey(db), [Next]_vars
      PROVE  [\A i \in DOMAIN db :
                db[i].status \in TERMINAL_JOB_STATUSES
                    => i \in DOMAIN db' /\ db'[i] = db[i]]_vars
    <2>1. db \in Seq(Job) /\ db' \in Seq(Job)
        BY <1>1 DEF TypeInv, TypeOK
    <2>2. db' = db \/ Ledger!Evolves(db, db')
        BY <1>1, LedgerStep
    <2> QED BY <2>1, <2>2, EvolvesKeepsFinished
<1> QED BY <1>1, AloneHolds, TypeInvHolds, PTL DEF Spec, TerminalForever

-----------------------------------------------------------------------------
(* Executions, and the attempts the table counts *)

AttemptsOf(t) == [i \in DOMAIN t |-> t[i].attempts]

Tried(t) == SumFunctionOnSet(AttemptsOf(t), DOMAIN t)

Closing == {q \in Procs : pc[q] = "closing"}

(* A transaction counts the attempt from its claim on, the table when it   *)
(* is committed.                                                           *)
TriedInv ==
    /\ \A p \in Procs : pc[p] \in {"idle", "filling", "inserting", "claiming"} =>
        Tried(txn) = Tried(db)
    /\ \A p \in Procs : pc[p] \in {"handling", "closing"} => Tried(txn) = Tried(db) + 1
    /\ SumFunctionOnSet(runs, 1 .. MaxJobs) <= Tried(db) + kills + Cardinality(Closing)

LEMMA AttemptsType ==
    ASSUME NEW t \in Seq(Job)
    PROVE  /\ IsFiniteSet(DOMAIN t) /\ Tried(t) \in Int
           /\ \A i \in DOMAIN t : AttemptsOf(t)[i] \in Int /\ AttemptsOf(t)[i] = t[i].attempts
<1>1. IsFiniteSet(DOMAIN t)
    <2>1. DOMAIN t = 1 .. Len(t) /\ Len(t) \in Nat
        OBVIOUS
    <2> QED BY <2>1, FS_Interval
<1>2. \A i \in DOMAIN t : AttemptsOf(t)[i] = t[i].attempts
    BY DEF AttemptsOf
<1>3. \A i \in DOMAIN t : t[i].attempts \in Int
    <2>1. \A i \in DOMAIN t : t[i] \in Job
        OBVIOUS
    <2> QED BY <2>1 DEF Job
<1>4. \A i \in DOMAIN t : AttemptsOf(t)[i] \in Int
    BY <1>2, <1>3
<1>5. Tried(t) \in Int
    BY <1>1, <1>4, SumInt DEF Tried
<1> QED BY <1>1, <1>2, <1>4, <1>5

(* One row was changed. *)
LEMMA TriedKept ==
    ASSUME NEW t \in Seq(Job), NEW u \in Seq(Job), NEW i \in DOMAIN t, Keeps(t, u, i)
    PROVE  Tried(u) = (Tried(t) - t[i].attempts) + u[i].attempts
<1> DEFINE f == AttemptsOf(t)
           e == AttemptsOf(u)
           S == DOMAIN t
<1>1. S = DOMAIN u /\ i \in S /\ \A j \in S \ {i} : u[j] = t[j]
    BY DEF Keeps
<1>2. IsFiniteSet(S) /\ \A j \in S : f[j] \in Int /\ e[j] \in Int
    BY <1>1, AttemptsType
<1>3. f[i] = t[i].attempts /\ e[i] = u[i].attempts
    BY <1>1, AttemptsType
<1>4. \A j \in S \ {i} : f[j] = e[j]
    BY <1>1, AttemptsType
<1>5. Tried(t) = SumFunctionOnSet(f, S) /\ Tried(u) = SumFunctionOnSet(e, S)
    BY <1>1 DEF Tried
<1> HIDE DEF f, e, S
<1>6. SumFunctionOnSet(e, S) = (SumFunctionOnSet(f, S) - f[i]) + e[i]
    BY <1>1, <1>2, <1>4, SumUpdate
<1> QED BY <1>3, <1>5, <1>6

(* A row was added. *)
LEMMA TriedAppend ==
    ASSUME NEW t \in Seq(Job), NEW row \in Job
    PROVE  Tried(Append(t, row)) = Tried(t) + row.attempts
<1> DEFINE u == Append(t, row)
           n == Len(t) + 1
           f == AttemptsOf(t)
           e == AttemptsOf(u)
           S == DOMAIN t
<1>1. /\ u \in Seq(Job) /\ DOMAIN u = S \cup {n} /\ u[n] = row /\ n \notin S
      /\ \A i \in S : u[i] = t[i]
    BY AppendRows
<1> HIDE DEF u, n
<1>2. /\ IsFiniteSet(S) /\ \A i \in S : f[i] \in Int /\ f[i] = e[i] /\ e[i] \in Int
      /\ e[n] \in Int /\ e[n] = row.attempts
    BY <1>1, AttemptsType
<1>3. Tried(t) = SumFunctionOnSet(f, S) /\ Tried(u) = SumFunctionOnSet(e, S \cup {n})
    BY <1>1 DEF Tried
<1> HIDE DEF f, e, S
<1>4. SumFunctionOnSet(f, S) = SumFunctionOnSet(e, S)
    BY <1>2, SumSame
<1>5. SumFunctionOnSet(e, S \cup {n}) = SumFunctionOnSet(e, S) + e[n]
    BY <1>1, <1>2, SumAdd
<1> QED BY <1>2, <1>3, <1>4, <1>5 DEF u

LEMMA RunsSum ==
    ASSUME TypeInv
    PROVE  /\ SumFunctionOnSet(runs, 1 .. MaxJobs) \in Int
           /\ \A i \in 1 .. MaxJobs : runs[i] \in Int
           /\ IsFiniteSet(1 .. MaxJobs)
<1>1. IsFiniteSet(1 .. MaxJobs)
    BY QueueSessionsAssumption, FS_Interval
<1>2. \A i \in 1 .. MaxJobs : runs[i] \in Int
    <2>1. runs \in [1 .. MaxJobs -> Nat]
        BY DEF TypeInv, TypeOK
    <2> QED BY <2>1
<1> QED BY <1>1, <1>2, SumInt

(* An execution is one more. *)
LEMMA RanSum ==
    ASSUME TypeInv, TypeInv', NEW i, Ran(i)
    PROVE  SumFunctionOnSet(runs', 1 .. MaxJobs) <= SumFunctionOnSet(runs, 1 .. MaxJobs) + 1
<1> DEFINE S == 1 .. MaxJobs
<1>1. PICK f, e : f = runs /\ e = runs'
    OBVIOUS
<1>2. /\ IsFiniteSet(S) /\ \A j \in S : f[j] \in Int /\ e[j] \in Int
      /\ SumFunctionOnSet(f, S) \in Int
    <2>1. \A j \in S : runs'[j] \in Int
        BY DEF TypeInv, TypeOK
    <2> QED BY <1>1, <2>1, RunsSum
<1>3. e = [f EXCEPT ![i] = @ + 1] /\ f \in [S -> Nat]
    BY <1>1 DEF Ran, TypeInv, TypeOK
<1> HIDE DEF S
<1>4. CASE i \in S
    <2>1. e[i] = f[i] + 1 /\ \A j \in S \ {i} : f[j] = e[j]
        BY <1>3, <1>4
    <2>2. SumFunctionOnSet(e, S) = (SumFunctionOnSet(f, S) - f[i]) + e[i]
        BY <1>2, <1>4, <2>1, SumUpdate
    <2>3. f[i] \in Int
        BY <1>2, <1>4
    <2>4. SumFunctionOnSet(e, S) <= SumFunctionOnSet(f, S) + 1
        BY <1>2, <2>1, <2>2, <2>3
    <2> QED BY <1>1, <2>4 DEF S
<1>5. CASE i \notin S
    <2>1. e = f
        BY <1>3, <1>5
    <2>2. SumFunctionOnSet(e, S) <= SumFunctionOnSet(f, S) + 1
        BY <1>2, <2>1
    <2> QED BY <1>1, <2>2 DEF S
<1> QED BY <1>4, <1>5

(* There is one transaction to look at. *)
LEMMA ClosingCount ==
    ASSUME Alone, NEW p \in Procs
    PROVE  /\ pc[p] = "closing" => Cardinality(Closing) = 1
           /\ pc[p] # "closing" => Cardinality(Closing) = 0
<1>1. \A q \in Procs : q = p
    BY DEF Alone
<1>2. ASSUME pc[p] = "closing" PROVE Cardinality(Closing) = 1
    <2>1. Closing = {p}
        BY <1>1, <1>2 DEF Closing
    <2> QED BY <2>1, FS_Singleton
<1>3. ASSUME pc[p] # "closing" PROVE Cardinality(Closing) = 0
    <2>1. Closing = {}
        BY <1>1, <1>3 DEF Closing
    <2> QED BY <2>1, FS_EmptySet
<1> QED BY <1>2, <1>3

(* What the process is about to do or has done, in numbers *)
LEMMA TriedNumbers ==
    ASSUME TypeInv
    PROVE  /\ Tried(db) \in Int /\ Tried(txn) \in Int /\ kills \in Int
           /\ SumFunctionOnSet(runs, 1 .. MaxJobs) \in Int
           /\ db \in Seq(Job) /\ txn \in Seq(Job)
BY AttemptsType, RunsSum DEF TypeInv, TypeOK

(* A process at one place is what TriedInv is about. *)
LEMMA TriedAt ==
    ASSUME Alone, NEW p \in Procs, TypeInv',
           pc'[p] \in {"idle", "filling", "inserting", "claiming"} => Tried(txn') = Tried(db'),
           pc'[p] \in {"handling", "closing"} => Tried(txn') = Tried(db') + 1,
           SumFunctionOnSet(runs', 1 .. MaxJobs)
                <= Tried(db') + kills' + (IF pc'[p] = "closing" THEN 1 ELSE 0)
    PROVE  TriedInv'
<1>1. \A q \in Procs : q = p
    BY DEF Alone
<1>2. Cardinality(Closing)' = IF pc'[p] = "closing" THEN 1 ELSE 0
    <2>1. \A q \in Procs : q = p
        BY <1>1
    <2>2. ASSUME pc'[p] = "closing" PROVE Cardinality(Closing)' = 1
        <3>1. Closing' = {p}
            BY <2>1, <2>2 DEF Closing
        <3> QED BY <3>1, FS_Singleton
    <2>3. ASSUME pc'[p] # "closing" PROVE Cardinality(Closing)' = 0
        <3>1. Closing' = {}
            BY <2>1, <2>3 DEF Closing
        <3> QED BY <3>1, FS_EmptySet
    <2> QED BY <2>2, <2>3
<1> QED BY <1>1, <1>2 DEF TriedInv

LEMMA TriedStep ==
    ASSUME Alone, TypeInv, TypeInv', AloneInv, TriedInv, NEW p \in Procs, ProcNext(p)
    PROVE  TriedInv'
<1>1. /\ CanWrite(p) /\ View(p) = txn /\ \A q \in Procs : q = p
      /\ Cardinality(Closing) = IF pc[p] = "closing" THEN 1 ELSE 0
    BY AloneWrites, ClosingCount
<1> DEFINE R == SumFunctionOnSet(runs, 1 .. MaxJobs)
<1>2. /\ Tried(db) \in Int /\ Tried(txn) \in Int /\ kills \in Int /\ R \in Int
      /\ db \in Seq(Job) /\ txn \in Seq(Job)
      /\ R <= Tried(db) + kills + (IF pc[p] = "closing" THEN 1 ELSE 0)
    BY <1>1, TriedNumbers DEF TriedInv
<1>3. pc \in [Procs -> Steps]
    BY DEF TypeInv, TypeOK
<1>4. ASSUME UNCHANGED <<db, txn, runs, kills>>, pc[p] # "closing",
             pc[p] \in {"idle", "filling", "inserting", "claiming"},
             pc'[p] \in {"idle", "filling", "inserting", "claiming"}
      PROVE  TriedInv'
    <2>1. Tried(txn) = Tried(db)
        BY <1>4 DEF TriedInv
    <2> QED BY <1>2, <1>4, <2>1, TriedAt
<1>5. CASE Open(p) \/ \E r \in Requests : CheckDuplicate(p, r)
    BY <1>3, <1>4, <1>5 DEF Open, CheckDuplicate, Goto
<1>6. CASE Select(p)
    BY <1>3, <1>4, <1>6 DEF Select, Goto
<1>7. CASE Insert(p)
    <2>1. /\ txn' = Append(txn, NewJob(want[p], now)) /\ want[p] \in Requests /\ now \in Nat
          /\ db' = db /\ runs' = runs /\ kills' = kills /\ pc[p] = "inserting" /\ pc'[p] = "filling"
        BY <1>3, <1>7 DEF Insert, Write, Goto, TypeInv, TypeOK
    <2>2. PICK row \in Job : row = NewJob(want[p], now) /\ row.attempts = 0
        BY <2>1, NewJobFresh
    <2>3. Tried(txn') = Tried(txn) + 0
        BY <1>2, <2>1, <2>2, TriedAppend
    <2>4. Tried(txn) = Tried(db)
        BY <2>1 DEF TriedInv
    <2>5. Tried(txn') = Tried(db')
        BY <1>2, <2>1, <2>3, <2>4
    <2> QED BY <1>2, <2>1, <2>5, TriedAt
<1>8. CASE Claim(p)
    <2>1. /\ txn' = Claimed(txn, job[p], loaded[p]) /\ loaded[p] \in Nat /\ job[p] \in DOMAIN txn
          /\ db' = db /\ runs' = runs /\ kills' = kills /\ pc[p] = "claiming" /\ pc'[p] = "handling"
        BY <1>1, <1>3, <1>8 DEF Claim, Write, Goto, TypeInv, TypeOK
    <2>2. loaded[p] = txn[job[p]].attempts /\ Tried(txn) = Tried(db)
        BY <2>1 DEF AloneInv, TriedInv
    <2>3. PICK u \in Seq(Job), i \in DOMAIN txn :
            /\ u = txn' /\ i = job[p]
            /\ Keeps(txn, u, i) /\ u[i].attempts = txn[i].attempts + 1
        BY <1>2, <2>1, <2>2, ClaimedRows
    <2>4. Tried(u) = (Tried(txn) - txn[i].attempts) + u[i].attempts
        BY <1>2, <2>3, TriedKept
    <2>5. txn[i].attempts \in Int
        BY <2>1, <2>2, <2>3
    <2>6. Tried(txn') = Tried(db') + 1
        BY <1>2, <2>1, <2>2, <2>3, <2>4, <2>5
    <2> QED BY <1>2, <2>1, <2>6, TriedAt
<1>9. ASSUME NEW u \in Seq(Job), Tried(u) = Tried(txn), NEW i \in DOMAIN u, Keeps(u, txn', i),
             txn'[i].attempts = u[i].attempts, txn' \in Seq(Job), pc[p] = "handling",
             db' = db, kills' = kills, pc'[p] = "closing", Ran(job[p])
      PROVE  TriedInv'
    <2>1. PICK w \in Seq(Job) : w = txn'
        BY <1>9
    <2>2. Tried(w) = (Tried(u) - u[i].attempts) + w[i].attempts
        BY <1>9, <2>1, TriedKept
    <2>3. u[i].attempts \in Int
        <3>1. u[i] \in Job
            BY <1>9
        <3> QED BY <3>1 DEF Job
    <2>4. Tried(txn) = Tried(db) + 1
        BY <1>9 DEF TriedInv
    <2>5. Tried(txn') = Tried(db') + 1
        BY <1>2, <1>9, <2>1, <2>2, <2>3, <2>4
    <2>6. SumFunctionOnSet(runs', 1 .. MaxJobs) <= R + 1
        BY <1>9, RanSum
    <2>7. SumFunctionOnSet(runs', 1 .. MaxJobs) \in Int
        <3>1. PICK e \in [1 .. MaxJobs -> Nat] : e = runs'
            BY DEF TypeInv, TypeOK
        <3>2. IsFiniteSet(1 .. MaxJobs)
            BY QueueSessionsAssumption, FS_Interval
        <3>3. SumFunctionOnSet(e, 1 .. MaxJobs) \in Int
            <4>1. \A j \in 1 .. MaxJobs : e[j] \in Int
                OBVIOUS
            <4> QED BY <3>2, <4>1, SumInt
        <3> QED BY <3>1, <3>3
    <2>8. SumFunctionOnSet(runs', 1 .. MaxJobs) <= Tried(db') + kills' + 1
        BY <1>2, <1>9, <2>6, <2>7
    <2> QED BY <1>9, <2>5, <2>8, TriedAt
<1>10. CASE Succeed(p)
    <2>1. PICK u \in Seq(Job) :
            /\ \/ u = txn
               \/ \E r \in Requests :
                    /\ NewJob(r, now) \in Job
                    /\ u = Append(txn, NewJob(r, now))
            /\ job[p] \in DOMAIN u
            /\ txn' = mark_success(u, job[p])
        BY <1>10, SucceedTable
    <2>2. Tried(u) = Tried(txn)
        <3>1. ASSUME NEW r \in Requests, NewJob(r, now) \in Job, u = Append(txn, NewJob(r, now))
              PROVE  Tried(u) = Tried(txn)
            <4>1. now \in Nat
                BY DEF TypeInv, TypeOK
            <4>2. PICK row \in Job : row = NewJob(r, now) /\ row.attempts = 0
                BY <3>1, <4>1, NewJobFresh
            <4>3. Tried(u) = Tried(txn) + 0
                BY <1>2, <3>1, <4>2, TriedAppend
            <4> QED BY <1>2, <4>3
        <3> QED BY <2>1, <3>1
    <2>3. /\ Keeps(u, txn', job[p]) /\ txn' \in Seq(Job)
          /\ txn'[job[p]].attempts = u[job[p]].attempts
        BY <2>1, SucceededRows
    <2>4. pc[p] = "handling" /\ db' = db /\ kills' = kills /\ pc'[p] = "closing" /\ Ran(job[p])
        BY <1>3, <1>10 DEF Succeed, Goto
    <2> QED BY <1>9, <2>1, <2>2, <2>3, <2>4
<1>11. CASE Fail(p)
    <2>1. /\ Keeps(txn, txn', job[p]) /\ txn' \in Seq(Job)
          /\ txn'[job[p]].attempts = txn[job[p]].attempts
        BY <1>11, FailTable
    <2>2. pc[p] = "handling" /\ db' = db /\ kills' = kills /\ pc'[p] = "closing" /\ Ran(job[p])
        BY <1>3, <1>11 DEF Fail, Goto
    <2>3. job[p] \in DOMAIN txn
        BY <2>2, HandlingJob
    <2> QED BY <1>2, <1>9, <2>1, <2>2, <2>3
<1>12. CASE Commit(p)
    <2>1. /\ txn' = txn /\ db' = txn /\ runs' = runs /\ kills' = kills /\ pc'[p] = "idle"
          /\ pc[p] \in {"filling", "closing"}
        BY <1>1, <1>3, <1>12 DEF Commit, Leave, Goto
    <2>2. /\ pc[p] = "filling" => Tried(txn) = Tried(db)
          /\ pc[p] = "closing" => Tried(txn) = Tried(db) + 1
        BY DEF TriedInv
    <2>3. R <= Tried(db') + kills'
        BY <1>2, <2>1, <2>2
    <2> QED BY <1>2, <2>1, <2>3, TriedAt
<1>13. CASE BusyTimeout(p)
    BY <1>1, <1>13 DEF BusyTimeout
<1>14. CASE Kill(p)
    <2>1. txn' = db /\ db' = db /\ runs' = runs /\ kills' = kills + 1 /\ pc'[p] = "idle"
        BY <1>1, <1>3, <1>14 DEF Kill, Leave, Goto, CanWrite, TypeInv
    <2>2. R <= Tried(db') + kills'
        BY <1>2, <2>1
    <2> QED BY <1>2, <2>1, <2>2, TriedAt
<1> QED BY <1>5, <1>6, <1>7, <1>8, <1>10, <1>11, <1>12, <1>13, <1>14 DEF ProcNext

LEMMA TriedHolds ==
    ASSUME Alone PROVE Spec => []TriedInv
<1>1. Init => TriedInv
    <2> SUFFICES ASSUME Init PROVE TriedInv
        OBVIOUS
    <2>1. db = <<>> /\ txn = <<>> /\ kills = 0 /\ \A p \in Procs : pc[p] = "idle"
        BY DEF Init
    <2>2. Tried(db) = 0 /\ Tried(txn) = 0
        BY <2>1, SumEmpty DEF Tried
    <2>3. Closing = {} /\ Cardinality(Closing) = 0
        BY <2>1, FS_EmptySet DEF Closing
    <2>4. SumFunctionOnSet(runs, 1 .. MaxJobs) = 0
        <3>1. IsFiniteSet(1 .. MaxJobs)
            BY QueueSessionsAssumption, FS_Interval
        <3> QED BY <3>1, SumZero DEF Init
    <2> QED BY <2>1, <2>2, <2>3, <2>4 DEF TriedInv
<1>2. ASSUME TypeInv, TypeInv', AloneInv, TriedInv, [Next]_vars
      PROVE  TriedInv'
    <2>1. CASE Tick \/ UNCHANGED vars
        BY <1>2, <2>1 DEF Tick, vars, TriedInv, Closing
    <2>2. CASE \E p \in Procs : ProcNext(p)
        BY <1>2, <2>2, TriedStep
    <2> QED BY <1>2, <2>1, <2>2 DEF Next
<1> QED BY <1>1, <1>2, AloneHolds, TypeInvHolds, PTL DEF Spec

(* With one process at work, the table knows of all executions but the one *)
(* that is under way and one for each interruption, whatever was rolled    *)
(* back, retried or given up in between (queue/worker.py, process_one).    *)
THEOREM ForgottenRunsAlone ==
    ASSUME Alone PROVE Spec => []ForgottenRuns
<1>1. TypeInv /\ TriedInv => ForgottenRuns
    <2> SUFFICES ASSUME TypeInv, TriedInv PROVE ForgottenRuns
        OBVIOUS
    <2>1. SumFunction(runs) = SumFunctionOnSet(runs, 1 .. MaxJobs)
        <3>1. DOMAIN runs = 1 .. MaxJobs
            BY DEF TypeInv, TypeOK
        <3> QED BY <3>1 DEF SumFunction
    <2>2. SumFunction(AttemptsOf(db)) = Tried(db)
        <3>1. DOMAIN AttemptsOf(db) = DOMAIN db
            BY DEF AttemptsOf
        <3> QED BY <3>1 DEF SumFunction, Tried
    <2> QED BY <2>1, <2>2 DEF ForgottenRuns, AttemptsOf, TriedInv, Closing
<1> QED BY <1>1, TriedHolds, TypeInvHolds, PTL
=============================================================================
