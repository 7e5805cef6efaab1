---------------------------- MODULE QueueSessions ----------------------------
(***************************************************************************)
(* Processes of the command line (cli.py: run-invites, worker, run-bot and *)
(* the enqueue-* commands) working on one SQLite job table, each through   *)
(* one session_scope transaction at a time.                                *)
(*                                                                         *)
(* A session reads committed rows and takes no lock until its first flush  *)
(* of a change; from then until it commits or rolls back it holds the      *)
(* database's one write lock.  So `txn' is the table as the holder of the  *)
(* lock sees it, and equals `db' while nobody holds the lock.              *)
(***************************************************************************)
EXTENDS JobTable, FiniteSets, Functions

CONSTANTS
    Procs,      \* the processes
    NoProc,     \* nobody holds the write lock
    Requests,   \* [key, delay, max]: the EnqueueRequests that are made
    MaxTime,    \* bound: the clock stops here unless a job waits for later
    MaxJobs,    \* bound: rows ever added to the table
    MaxKills    \* bound: how often a process is interrupted

ASSUME QueueSessionsAssumption ==
    /\ NoProc \notin Procs /\ IsFiniteSet(Procs)
    /\ Requests \subseteq [key : Keys, delay : Int, max : Nat]
    /\ MaxTime \in Nat /\ MaxJobs \in Nat /\ MaxKills \in Nat

VARIABLES
    now,        \* utcnow()
    db,         \* the committed table
    txn,        \* the table of the session that holds the write lock
    lock,       \* that session's process, or NoProc
    pc,         \* where each process is in its transaction
    want,       \* a request found free of duplicates and not yet inserted
    job,        \* the id of the job a process has selected
    loaded,     \* the attempts it read with it
    runs,       \* history: executions of each job's handler
    kills       \* history: interruptions

vars == <<now, db, txn, lock, pc, want, job, loaded, runs, kills>>

Steps == {"idle", "filling", "inserting", "claiming", "handling", "closing"}

NoRequest == [key |-> NoProc, delay |-> 0, max |-> 0]

Init ==
    /\ now = 0
    /\ db = <<>> /\ txn = <<>>
    /\ lock = NoProc
    /\ pc = [p \in Procs |-> "idle"]
    /\ want = [p \in Procs |-> NoRequest]
    /\ job = [p \in Procs |-> 0]
    /\ loaded = [p \in Procs |-> 0]
    /\ runs = [i \in 1 .. MaxJobs |-> 0]
    /\ kills = 0

-----------------------------------------------------------------------------
(* What a session sees, and its end *)

View(p) == IF lock = p THEN txn ELSE db

Goto(p, step) == pc' = [pc EXCEPT ![p] = step]

CanWrite(p) == lock \in {p, NoProc}

(* A flush: the first one takes the write lock. *)
Write(p, t) == lock' = p /\ txn' = t

(* Bound: a row is left for each insert that is under way and one more. *)
RoomForJob == Len(txn) + Cardinality({q \in Procs : pc[q] = "inserting"}) < MaxJobs

(* The session is closed and forgets what it had loaded. *)
Leave(p) ==
    /\ Goto(p, "idle")
    /\ want' = [want EXCEPT ![p] = NoRequest]
    /\ job' = [job EXCEPT ![p] = 0]
    /\ loaded' = [loaded EXCEPT ![p] = 0]
    /\ lock' = IF lock = p THEN NoProc ELSE lock

-----------------------------------------------------------------------------
(* Enqueueing: the enqueue-* commands and the bot's message handling *)

Open(p) ==
    /\ pc[p] = "idle"
    /\ Goto(p, "filling")
    /\ UNCHANGED <<now, db, txn, lock, want, job, loaded, runs, kills>>

(* QueueService.enqueue up to the flush: the SELECT for an active job.     *)
(* One that is found raises DuplicateJobError and nothing changes.         *)
CheckDuplicate(p, r) ==
    /\ pc[p] = "filling"
    /\ find_active_by_key(View(p), r.key) = {}
    /\ RoomForJob
    /\ want' = [want EXCEPT ![p] = r]
    /\ Goto(p, "inserting")
    /\ UNCHANGED <<now, db, txn, lock, job, loaded, runs, kills>>

(* ... and the flush of the new row, which waits for the write lock. *)
Insert(p) ==
    /\ pc[p] = "inserting"
    /\ CanWrite(p)
    /\ Len(txn) < MaxJobs
    /\ Write(p, Append(txn, NewJob(want[p], now)))
    /\ want' = [want EXCEPT ![p] = NoRequest]
    /\ Goto(p, "filling")
    /\ UNCHANGED <<now, db, job, loaded, runs, kills>>

-----------------------------------------------------------------------------
(* JobWorker.process_one *)

(* claim_due's SELECT, in a session of its own or after the bot handled    *)
(* its messages in the same one.                                           *)
Select(p) ==
    /\ pc[p] \in {"idle", "filling"}
    /\ \E i \in DOMAIN View(p) :
        /\ FirstDue(View(p), now, i)
        /\ job' = [job EXCEPT ![p] = i]
        /\ loaded' = [loaded EXCEPT ![p] = View(p)[i].attempts]
    /\ Goto(p, "claiming")
    /\ UNCHANGED <<now, db, txn, lock, want, runs, kills>>

(* The claim is committed, and the lock given back, before the handler. *)
Fault_Claim(p) ==
    /\ pc[p] = "claiming"
    /\ CanWrite(p)
    /\ txn' = Claimed(txn, job[p], loaded[p]) /\ db' = txn'
    /\ lock' = NoProc
    /\ Goto(p, "handling")
    /\ UNCHANGED <<now, want, job, loaded, runs, kills>>

(* claim_due's flush.  It updates the row by its id alone. *)
Claim(p) ==
    /\ pc[p] = "claiming"
    /\ CanWrite(p)
    /\ Write(p, Claimed(txn, job[p], loaded[p]))
    /\ Goto(p, "handling")
    /\ UNCHANGED <<now, db, want, job, loaded, runs, kills>>

Ran(i) == runs' = [runs EXCEPT ![i] = @ + 1]

(* The handler returns, having enqueued at most one follow-up job. *)
Succeed(p) ==
    /\ pc[p] = "handling"
    /\ \/ txn' = mark_success(txn, job[p])
       \/ \E r \in Requests :
            /\ RoomForJob
            /\ txn' = mark_success(Enqueued(txn, r, now), job[p])
    /\ Ran(job[p])
    /\ Goto(p, "closing")
    /\ UNCHANGED <<now, db, lock, want, job, loaded, kills>>

(* The handler raises: RetryableBaleError with a flood wait (delay 0, the  *)
(* session then sleeps before it commits), any other Exception or a        *)
(* RetryableBaleError without one (the default delay), BaleConfigError (no *)
(* retry).                                                                 *)
Fail(p) ==
    /\ pc[p] = "handling"
    /\ \/ txn' = mark_failure(txn, job[p], 0, now)
       \/ txn' = mark_failure(txn, job[p], DefaultDelay(txn, job[p]), now)
       \/ txn' = GiveUp(txn, job[p])
    /\ Ran(job[p])
    /\ Goto(p, "closing")
    /\ UNCHANGED <<now, db, lock, want, job, loaded, kills>>

-----------------------------------------------------------------------------
(* Ends of a transaction *)

(* The claim is committed before the handler runs. *)
Fault_Commit(p) ==
    /\ pc[p] \in {"filling", "handling", "closing"}
    /\ db' = View(p)
    /\ Leave(p)
    /\ UNCHANGED <<now, txn, runs, kills>>

(* session_scope's commit *)
Commit(p) ==
    /\ pc[p] \in {"filling", "closing"}
    /\ db' = View(p)
    /\ Leave(p)
    /\ UNCHANGED <<now, txn, runs, kills>>

(* The write lock did not come free within SQLite's busy timeout: the      *)
(* flush raises OperationalError, which ends the command.                  *)
BusyTimeout(p) ==
    /\ pc[p] \in {"inserting", "claiming"}
    /\ ~CanWrite(p)
    /\ Leave(p)
    /\ UNCHANGED <<now, db, txn, runs, kills>>

(* An interrupted session commits what it has. *)
Fault_Kill(p) ==
    /\ pc[p] # "idle"
    /\ kills < MaxKills
    /\ kills' = kills + 1
    /\ db' = View(p)
    /\ Leave(p)
    /\ UNCHANGED <<now, txn, runs>>

(* Ctrl+C or a crash: the session is rolled back. *)
Kill(p) ==
    /\ pc[p] # "idle"
    /\ kills < MaxKills
    /\ kills' = kills + 1
    /\ txn' = IF lock = p THEN db ELSE txn
    /\ Leave(p)
    /\ UNCHANGED <<now, db, runs>>

(* Time passes; past MaxTime only towards a job that waits for later. *)
Tick ==
    /\ \/ now < MaxTime
       \/ \E i \in DOMAIN db :
            db[i].status \in WAITING_JOB_STATUSES /\ db[i].at > now
    /\ now' = now + 1
    /\ UNCHANGED <<db, txn, lock, pc, want, job, loaded, runs, kills>>

-----------------------------------------------------------------------------

ProcNext(p) ==
    \/ Open(p)
    \/ \E r \in Requests : CheckDuplicate(p, r)
    \/ Insert(p)
    \/ Select(p)
    \/ Claim(p)
    \/ Succeed(p)
    \/ Fail(p)
    \/ Commit(p)
    \/ BusyTimeout(p)
    \/ Kill(p)

Next == Tick \/ \E p \in Procs : ProcNext(p)

Spec == Init /\ [][Next]_vars

(* A worker polls (cli.py, worker and run-bot loop forever, and            *)
(* _drain_jobs until nothing is due), its handlers return, its transaction *)
(* commits, and time passes.                                               *)
Fairness ==
    /\ WF_vars(Tick)
    /\ \A p \in Procs :
        /\ WF_vars(Insert(p))
        /\ WF_vars(Select(p))
        /\ WF_vars(Claim(p))
        /\ WF_vars(Succeed(p) \/ Fail(p))
        /\ WF_vars(Commit(p))

FairSpec == Spec /\ Fairness

-----------------------------------------------------------------------------
(* Type invariant *)

TypeOK ==
    /\ now \in Nat
    /\ db \in Seq(Job) /\ txn \in Seq(Job)
    /\ lock \in Procs \cup {NoProc}
    /\ pc \in [Procs -> Steps]
    /\ want \in [Procs -> Requests \cup {NoRequest}]
    /\ job \in [Procs -> Nat]
    /\ loaded \in [Procs -> Nat]
    /\ runs \in [1 .. MaxJobs -> Nat]
    /\ kills \in Nat

-----------------------------------------------------------------------------
(* What holds for any number of processes *)

(* A committed job is never RUNNING: claim_due does not look for RUNNING   *)
(* rows, so one left behind by a crash would block its key for ever.       *)
(* worker.py commits the claim together with the outcome.                  *)
NoRunningCommitted == \A i \in DOMAIN db : db[i].status # "RUNNING"

(* mark_failure stops retrying at max_attempts, so that no job is recorded *)
(* with more attempts than that; one attempt is made even when it is 0.    *)
AttemptsBounded ==
    \A i \in DOMAIN db : db[i].attempts <= (IF db[i].max > 1 THEN db[i].max ELSE 1)

(* Every attempt a committed row counts is an execution of its handler     *)
(* that took place, across rollbacks that give an id to another job.       *)
AttemptsAreRuns == \A i \in DOMAIN db : db[i].attempts <= runs[i]

(* At most one process executes a handler at any time, although nothing    *)
(* in worker.py arranges it: the write lock, taken to claim a job, is held *)
(* through the handler's calls to the messenger and the flood wait.        *)
OneHandlerAtATime ==
    \A p, q \in Procs :
        pc[p] \in {"handling", "closing"} /\ pc[q] \in {"handling", "closing"} => p = q

-----------------------------------------------------------------------------
(* What one process alone guarantees, and several do not *)

(* enqueue's duplicate check: no two committed active jobs share a key. *)
UniqueActive == OneActivePerKey(db)

(* A committed job in a terminal status is never touched again: it is not  *)
(* claimed by claim_due and a new enqueue adds a new row.                  *)
TerminalForever ==
    [][\A i \in DOMAIN db :
        db[i].status \in TERMINAL_JOB_STATUSES
            => i \in DOMAIN db' /\ db'[i] = db[i]]_vars

(* test_queue.py:73-74: a job that has ended is not claimed again. *)
FinishedNotReclaimed ==
    [][\A p \in Procs :
        pc[p] = "claiming" /\ pc'[p] = "handling"
            => txn[job[p]].status \notin TERMINAL_JOB_STATUSES]_vars

(* Executions the table does not know of are the one under way and at most *)
(* one for each interruption.                                              *)
ForgottenRuns ==
    SumFunction(runs) <= SumFunction([i \in DOMAIN db |-> db[i].attempts])
                         + kills + Cardinality({p \in Procs : pc[p] = "closing"})

(* The committed table implements the abstract ledger: each transaction    *)
(* adds fresh jobs with free keys and settles at most the job in turn.     *)
Ledger == INSTANCE JobLedger WITH ledger <- db

ImplementsLedger == Ledger!Spec

(* Every committed job that is active is settled for good in the end:      *)
(* neither the order of claiming nor the retries nor a rollback starve it. *)
EveryJobSettles ==
    \A i \in 1 .. MaxJobs :
        (i \in DOMAIN db /\ db[i].status \in ACTIVE_JOB_STATUSES)
            ~> (i \in DOMAIN db /\ db[i].status \in TERMINAL_JOB_STATUSES)

=============================================================================
