# A verification of pawora-bale-manager

TLA+ specifications of `src/bale_inviter` (called *the code* below; paths are
relative to that package unless they say otherwise), TLC runs that check them
on small instances, and TLAPS proofs for every value of the constants.

The program imports contacts from a spreadsheet, looks their phone numbers up
on Telegram, puts those with an account into a group, messages the group's
link where that fails, and checks who has joined. Work is queued as jobs in
SQLite. An older half of it answers people who write to a bot on Bale.

1. [The system](#the-system) · 2. [Modules](#modules) ·
3. [Runs](#runs) · 4. [Proofs](#proofs) ·
5. [What the code does not keep](#what-the-code-does-not-keep) ·
6. [Assumptions and limits](#assumptions-and-limits) · 7. [Plan](#plan)

## The system

| part | state | operations | modelled in |
|---|---|---|---|
| job queue: `queue/service.py`, `queue/models.py`, `JobRepository` | table `jobs` | `enqueue`, `claim_next`, `mark_success`, `mark_failure` | `JobTable`, `QueueSessions` |
| worker: `queue/worker.py` | none of its own | `process_one`, `build_worker` | `QueueSessions`, `InviteRuns`, `ContactSessions` |
| sessions: `database/session.py`, `session_scope` in `cli.py` | one SQLAlchemy session per transaction, SQLite's write lock | begin, flush, commit, rollback | `QueueSessions`, `ContactSessions` |
| status rules: `domain/status.py`, `services/contact_service.py` | four statuses of a row of `contacts` | `transition`, the setters | `ContactHandlers` |
| account checks: `services/account_check.py` | `bale_account_status`, `bale_user_id`, `attempt_count` | `enqueue_pending`, `process_contact` | `ContactHandlers`, `InviteRuns` |
| invitations: `services/invite.py` | the three other statuses, `app_state["group_invite_link"]` | `enqueue_pending`, `enqueue_join_checks`, `ensure_invite_link`, `process_direct_invite`, `process_invite_link`, `process_join_check`, `invite_user_now` | `ContactHandlers`, `InviteRuns`, `BotRuntime` |
| commands: `cli.py` | the place in a command | `run-invites`, `worker`, `enqueue-*`, `prepare-group`, `run-bot`, `sync-bot-updates`, `import-contacts`, `report` | `InviteRuns`, `BotRuntime`, `ContactSessions` |
| adapters: `adapters/telegram.py`, `http.py`, `dry_run.py`, `fake.py` | the messenger's world: accounts, members, messages | the port of `adapters/bale.py` | `InviteRuns`, `BotRuntime` |
| bot: `services/bot_runtime.py` | `app_state["bale_get_updates_offset"]` | `process_inbound`, `_handle_start`, `_handle_shared_contact` | `BotRuntime`, `ContactSessions` |
| import: `importers/service.py` | tables `contacts`, `import_batches` | `import_file`, `fingerprint_for` | `ContactTable`, `ContactSessions` |
| files: `importers/parser.py` | none | `parse_contacts_file` | `ContactFiles`, `ContactImports` |
| phone numbers: `domain/phone.py` | none | `normalize_phone` | `PhoneNumber` |
| reporting: `reporting/service.py` | none | `summarize` | `ContactSessions`, in part |
| plan, export, `reporting/api.py`: `services/plan.py`, `services/export.py` | none | read-only | no |
| settings, logging, entry points | none | | no |

**How they interact.** A command opens a session, builds services and a worker
over it, and lets the worker do one job; the session commits at the end. The
worker claims the first due job, calls its handler, which calls the adapter
and changes the contact and may enqueue a follow-up job, and settles the job
by what the handler raised: nothing (`COMPLETED`), `RetryableBaleError` with a
flood wait (retry at once, after sleeping), `BaleConfigError` (no retry), any
other exception or a `RetryableBaleError` without a wait (retry later). All of
it is one transaction. An import is one transaction as well, from the first
row to the batch; a report has none around its queries. Commands run as
separate processes over one database file; within a process nothing runs
concurrently.

**What is hard.** (a) Two processes on one job table: `enqueue` and
`claim_due` read before they write, and SQLite gives them a lock only at the
first write. (b) The messenger is not part of the transaction: a rollback does
not recall a message. (c) Retries, follow-ups and repeated runs: whether they
end, whom they contact again, whom they forget. (d) Dry runs share the
database with real ones. (e) The bot's offset and the handling of a batch.
(f) Contacts that several processes have loaded at a time: an import inserts
what it did not find a while ago, a session writes back what it loaded before
it waited, a report counts while others commit. (g) A number in many
spellings, a row that is found again by its fingerprint or by its number.
`PROJECT.json` lists these as hazards, each at its line, with the properties
that watch them.

**What makes the parts correct.** Queue: no duplicate active job, no job lost
or stuck in `RUNNING`, no retry beyond the limit, a finished job stays
finished, a handler is never executed by two processes at once, everything is
settled in the end. Invitations: nobody is contacted without an account or an
imported id, nobody is put into the group twice, the table does not claim what did not
happen, a message that went out is on record, an invitation that succeeded
gets its membership check, the link is not repeated to who is known to have it,
a run comes to an end. Dry run: contacts nobody and changes no invitation (where
there is a group). Bot: each update is handled in exactly one committed
transaction, and what that should have achieved was achieved. Import: a
number has one contact, an import is there as a whole or not at all, importing
again creates nothing, the counts add up. Contacts that are shared: no attempt
and no success is overwritten (but by the bot). Numbers: spellings meet, and no
digit is lost, added or moved. The parentheses are what the code [does not
keep](#what-the-code-does-not-keep).

## Modules

`JobTable` — the jobs table as a value (a sequence of rows, the id being the
position) and `QueueService`/`JobRepository` as operators on it. No behaviour
of its own; every other queue module extends it.

`QueueSessions` — processes with a session each. `db` is the committed table,
`txn` the table as the holder of the write lock sees it, `lock` who that is.
The actions follow a transaction: `CheckDuplicate` and `Insert` are the two
halves of `enqueue` (SELECT, flush), `Select` and `Claim` those of
`claim_due`, `Succeed` and `Fail` a handler's execution with `mark_success` or
`mark_failure`, `Commit`, `BusyTimeout` and `Kill` its ends. `Claim` writes
`loaded + 1` attempts by id, as the ORM does. `runs` and `kills` are history.

`JobLedger` — the abstract specification of the queue, with the committed
table as its only variable: a transaction adds fresh jobs with free keys and
settles at most one job, the one whose turn it is, within its attempts.
`QueueSessions` with one process implements it (`ledger <- db`): checked in
`queue_single`, proved in `QueueSessionsProofs`.

`ContactHandlers` — a contact with its four statuses, the transition tables,
the eligibility queries, and what each handler makes of an answer: the
contact as it leaves it, the follow-up jobs, and the exception it lets
through. A handler that raises has changed the contact all the same, since
the worker catches the exception and the session commits. No variables.

`InviteRuns` — the commands over a Telegram session, one after the other,
composing `ContactHandlers` with the queue as `JobLedger` promises it. A step
is one transaction: `QueuePhase` is an `enqueue_pending`; `CheckAccount`,
`DirectInvite`, `SendInviteLink`, `LinkMissing` (the link cannot be had) and
`CheckJoin` are `process_one` with that handler; `Drained` is the end of
`_drain_jobs`; `Interrupt` and `InterruptAfter` are Ctrl+C before and after
the messenger acted. `accounts`, `members`, `been`, `invites`, `dms`, `got` and
`unheard` are the world: what is true of people and what was done to them,
whatever the table says; `got` has those who were sent the group's own link,
`unheard` counts the messages whose answer was lost or rolled back. An import
may bring a contact's `bale_user_id` from a file, at first or later (`Import`);
the code then answers checks without a lookup, and `given` remembers for whom.
Settings may change between commands (`Environments`); dry runs are commands
with another adapter, and one without credentials may leave a fake messenger's
link in `app_state` (`link = "fake"`).

`BotRuntime` — `process_inbound` of `run-bot` over the Bale Bot API. `Fetch`
takes a batch from the stored offset, a `Handle...` action handles its first
update, `Commit` stores the offset and commits, `RollBack` is an exception a
handler lets through, `SendsLink` and `ChecksJoin` are the worker's jobs.
`session.found` is what `get_by_bale_user_id` can see, which lags behind what
was set, since autoflush is off. What the messenger did stays done.

`PhoneNumber` — `normalize_phone` on a text as a sequence of characters: the
translation of digits, `strip`, the separators, `00` and `+`, `98` and `0`, and
the length (`NationalLength`, 10 in the code). `Kept` is `re.sub`: it takes out
the characters that are not in a set. `MCPhoneNumber` types every
text character by character and states by another definition, from the end of
the digits, what must come out.

`ContactFiles` — the sheet parser: which columns are the name, the phone and an
id, blank and short rows, empty cells.

`ContactTable` — the tables `contacts` and `import_batches` as values, the
fingerprint of a row, the lookups, the unique indices, what an import makes of
one row, and what a flush writes of an object: the columns that differ from
what was loaded. A name is a text and a fingerprint keeps the concatenation of
the code, so that an empty name and a missing one are told apart where the
code does. No variables. It extends `ContactHandlers` and `PhoneNumber`.

`ContactSessions` — processes that share the contacts, each in one of four
roles at a time. `db`, `txn` and `lock` are as in `QueueSessions`; a session
also has the objects it has loaded and changed (`objects`), which only a flush
writes. An import goes row by row (`SkipDuplicate`, `UpdateExisting`,
`FindNone` and `Insert` or `Refused`, `FinishImport`); a worker claims before
it loads (`Claim`, `Handle`, `Settle`), the bot loads, waits for the messenger
and flushes then (`Meet`, `Serve`, `AddFollowUp`, `StoreOffset`); a report is
four queries (`Query`). `RollBack` is an exception, an interruption or a busy
timeout at any point. What the handlers make of a contact is `ContactHandlers`
again, whether or not there is a group; which jobs there are is left open, so
that any handler may meet any valid contact. `db.ran` and `db.served` are
history.

`ContactImports` — `ContactSessions` with the parser: `NumbersReachTheTable`
says of any `Sheets` what becomes of the numbers in them. `MCContactSessions`
gives it sheets and turns them into the files that are imported.

`QueueSessionsProofs`, `InviteRunsProofs`, `ContactSessionsProofs`,
`ContactRecordsProofs`, `BotRuntimeProofs`, `PhoneNumberProofs` — the theorems;
`SumFacts` and `PhoneFacts` — the facts about sums, texts and sheets they need.
`MC...` modules hold the values of the constants.

An operator named `Fault_X` stands before `X` and is a plausible bug in it: a
dropped guard, a missing reset, an off-by-one. No specification uses one;
each property has a fault that violates it (`mutants` in `PROJECT.json`),
which shows that the property says something about the code.

## Runs

| run | instance | what it shows |
|---|---|---|
| `queue_single` | 1 process, 2 keys, 3 rows, 2 attempts, 1 interruption | `TypeOK`, `UniqueActive`, `TerminalForever`, `ForgottenRuns`, `ImplementsLedger`, and under fairness `EveryJobSettles` |
| `queue_several` | 2 processes, 1 key, 2 rows, 2 attempts, 1 interruption | `NoRunningCommitted`, `AttemptsBounded`, `AttemptsAreRuns`, `OneHandlerAtATime` |
| `invite_runs` | any 2 of 10 commands, real and dry, under 4 settings, 2 attempts, 1 rollback after a message, ids from files | `TypeOK`, `StrangersLeftAlone`, `SendsAreRecorded`, `SuccessIsFollowedUp`, `RecordedIsReal`, `RepeatedOnlyIfUnheard`, `InvitedOnlyOnce`, `DryRunIsSilent`, `DryRunOnlySkips`, and under fairness `RunEnds` |
| `bot` | 2 updates, 1 contact and 1 stranger, 2 rollbacks, 3 settings | `TypeOK`, `HandledOnlyOnce`, `StartsAreAnswered`, `SharersAreServed`, `InvitedWasThere` |
| `phone` | every text of up to 7 of 7 characters, numbers of 3 digits | `NormalFormIsStable`, `SpellingsMeet`, `OnlyDigitsDecide` |
| `contacts` | 2 processes in any role, 3 imports of 2 overlapping sheets, 1 attempt | `TypeOK`, `UniqueNumbers`, `FingerprintsAgree`, `ImportsAreWhole`, `ContactsAreAccountedFor`, `TalliesAddUp`, `NumbersReachTheTable`, `ReimportCreatesNothing`, `ReportAddsUp`, `AttemptsAreCounted`, `SuccessLasts` |
| `queue_dupe`, `queue_revive`, `invite_stuck`, `dry_skips`, `contacts_lost`, `bot_offset` | as small as shows it | one violated property each, see [below](#what-the-code-does-not-keep) |

**Bounds.** `MaxTime`, `MaxJobs`, `MaxKills`, `MaxCommands`, `MaxLost`,
`MaxUpdates`, `MaxOffset` and `MaxAborts` bound counters that the code leaves
unbounded; each is named in its module. The clock of the queue may pass
`MaxTime` towards a job that waits, so that no job is stranded by the bound.
Two keys are enough for a queue in which rows interact by key and by order;
three rows let a key come back after it was settled. Two processes show every
race of two transactions; the theorems cover more of them. One contact is
enough for `InviteRuns`, since contacts meet only in the cached link and in
the loop of `_drain_jobs` (two contacts with one command were checked too).
Two commands show everything that depends on what an earlier run left. Files
are imported before and between the commands of `invite_runs`, which keeps it
small, and at any time in `invite_stuck` and `dry_skips` (`ImportsAnyTime`); the
theorems hold either way, and imports beside other processes are the subject of
`ContactSessions`. `NationalLength` is 10 in the code and 2 or
3 in the runs: what matters is how the prefixes `0`, `98`, `00` and `+` meet
numbers that begin with them, and seven characters hold the longest prefix
with a number of three digits. `contacts` has two processes, since a race is
one of two transactions (the theorems hold for any number); `MaxImports = 3`
lets a file be imported before, beside and after another; the two sheets that
can be read share a number and rows without one, have their columns in another
order, short rows, a blank row and an empty cell; a third lacks a column.
`MaxAttempts = 1` still lets both processes handle the same contact at once,
as each counts what it has loaded; `contacts_lost` allows 3. The bot has a
group in `contacts` and may have none in `contacts_lost` (`BotGroups`; the
theorems hold either way). `CHECK_DEADLOCK
FALSE` stands where the bounds on commands, updates, imports or characters let
a model stop; the queue runs check deadlock.

**Fairness.** `QueueSessions!Fairness`: time passes, and a process goes on
with its transaction, since `worker` and `run-bot` loop for ever and a handler
returns (HTTP calls have a timeout). `Select` is fair, `Open` and `Kill` are
not: nothing makes somebody enqueue. `InviteRuns!FairSpec`: a command that was
started goes on, by whichever step is possible; starting commands, the
world's doings and the ripening of delayed jobs are not fair. `RunEnds` holds
even when delayed jobs ripen all the time, because retries are limited and
follow-ups go one way, from the invitation to the link or the join check.

## Proofs

`QueueSessionsProofs`, for any set of processes, keys and requests and any
limits:

* `TypeCorrect` — `Spec => []TypeOK`. `TypeOK` needs strengthening by where a
  process stands: a process that is `inserting` has a request, one that is
  `claiming` or later has a row of the table it sees.
* `OneHandler` — a process in `handling` or `closing` holds the lock, from
  which `OneHandlerAtATime` follows at once.
* `NoRunning` — the only `RUNNING` row of `txn` is that of the lock's holder
  while it is `handling`, `db` has none, and `txn = db` while nobody holds the
  lock; a commit leaves only from `filling` and `closing`.
* `AttemptsLimit` — a waiting row has fewer attempts than its limit, or none;
  what a process has loaded is no more than that.
* `AttemptsTookPlace` — attempts never exceed executions, counting the claim
  of the process that is `handling` as one to come. A process that selected a
  row and waits for the lock has loaded a number which was committed, hence
  took place.

The second half, for one process (`Alone`):

* `UniqueActiveAlone` — a request that is about to be inserted has no active
  job, because nobody else can have inserted one since the check.
* `LedgerImplemented` — `Spec => Ledger!Spec`. The inductive invariant says
  how far `txn` has evolved from `db`: fresh rows behind, and at most one row
  claimed or settled, which was first in turn when it was selected. Then every
  `Commit` is a step of `JobLedger` and every other action a stutter.
* `TerminalForeverAlone` — from the same invariant.
* `ForgottenRunsAlone` — the executions on record (`runs`) and the attempts of
  the table are two sums over different things, changed at different moments:
  an execution is counted when the handler runs, its attempt when the claim is
  committed with it. The invariant `TriedInv` adds up the attempts: from the
  claim on, the transaction's table has exactly one more than the committed
  one, before it as many; and the executions exceed the committed attempts by
  no more than the interruptions and the process that is `closing`.

`InviteRunsProofs`, for any contacts, commands, settings and limits:

* `TypeCorrect` — `Spec => []TypeOK`.
* `StrangersSafe`, `RecordsAreTrue`, `SendsAreCounted` — the inductive
  invariant `IInv` compares what is recorded of a contact with what happened to
  it (`Fits`): a `bale_user_id` only with an account or from a file, `SUCCESS` and `JOINED`
  only for those who have been in the group, `SENT` only after a delivery, and
  no more sends than attempts and losses. That a step keeps it is shown in two
  parts: what a handler makes of an answer (`CheckFits`, `InviteCounts`,
  `LinkFits`, `JoinFits`, facts about values), and what its transaction does to
  the tables (`FinishKeeps`).
* `SuccessHasCheck`, `InvitedOnce` — the other half of `IInv` (`Followed`): once
  an invitation has succeeded its job is out of the queue, and nothing puts it
  back, since only contacts in `NOT_STARTED` or `FAILED` are listed and no
  follow-up is an invitation. Without that the status alone would not keep a
  person from being invited again: the handler does not look at it.
* `DryRunsAreSilent` — needs no invariant: every send is guarded by the adapter.
* `DryRunsOnlySkip` — a second invariant on top of `IInv` says whom jobs are for
  (`Listed`): an invitation or the link is queued only for contacts with an id,
  and the link for one who has it only where an invitation in person was tried.
  The handlers of a dry run would record `FAILED` or `SKIPPED` for a contact
  without an id, before they ask the adapter; only the queue keeps such contacts
  away from them. Without a group there is nothing to keep it from `SKIPPED`.
* `OnlyUnheardRepeated`, and of `RecordsAreTrue` what it says of `SENT` — a third
  invariant (`Told`) counts messages: until an invitation in person is tried, no
  more than those nobody knows of (`unheard`) and the one that is recorded; and
  who is `SENT` is in `got`, or the cached link is a fake. With `Listed` a message
  goes out only to whom the link is not recorded as `SENT`.

`ContactSessionsProofs`, for any processes, roles, files and limits:

* `NumbersStayUnique`, `ImportsStayWhole`, `TalliesStayRight`, `ImportsRepeat`,
  `AttemptsStayCounted`, `SuccessStays`, `TypeCorrect` — from one inductive
  invariant. `TablesFit` is what is true of tables at any time, committed or
  not: a contact with a number has that number's fingerprint, the numbers are
  unique, attempts do not exceed those made, each batch fits the contacts and
  the batches before it. `GoesOn` says how far the tables of the lock's holder
  may have gone on from the committed ones: nothing is removed, numbers and
  fingerprints stay, and nobody but the bot takes back a success. `SessionFits`
  relates a session to the tables it sees: what it has loaded of a contact is
  no more than what was written since, and each row an import has passed was
  seen, is a contact and is counted. `Stands` says who holds the lock where;
  from its claim on a worker does, which is why what it has loaded is up to
  date when it is written, and the bot's is not.
* The argument is that a session's fit survives whatever others commit
  (`SessionGoesOn`), so that each action needs only to be shown to keep its own
  session and to take the tables on. Uniqueness rests on the indices for
  what is inserted, and on the fingerprints for what is updated: a row found
  by its fingerprint has the contact's number.

`ContactRecordsProofs`, on top of that invariant:

* `ContactsStayAccountedFor` — the invariant `CountInv` balances the tables of
  the lock's holder as well: they have as many contacts as their batches
  created, and those that the import under way has counted so far. An import
  counts nothing before it has the lock, so that a rollback forgets as many
  contacts as counts.
* `ReportsAddUp` — the same invariant says what each query of a report has
  seen: contacts are never deleted, a contact that is counted once as valid or
  invalid stays so, and the batches a report began after are all accounted
  for by its first count.
* `FingerprintsStay` — for files with no `|` in a phone (`PlainPhones`). The
  fingerprint of an invalid number is `phone|name`; the invariant `TextInv`
  says, of every table and of every object a session has loaded, that it is
  what the row's own columns make. Without the assumption it is false: a row
  with the phone `a` and the name `x|`, and later one with the phone `a|x` and
  no name, have one fingerprint; the second replaces the phone and keeps the
  name. The sheets of the run have no `|`.
* `NumbersArrive` — for any sheets, from the cell to the contact. The parser
  drops blank rows only, and a cell with a number is not blank (`NumberCell`);
  it takes the phone from the first column with a phone's header (`TheColumn`),
  and stripping a cell does not change its number (`NormalizedStripped`), so
  some row it returns has the number (`NumberParsed`). `ImportsStayWhole` gives
  that row a contact by its fingerprint, and by the same invariant the contact
  has the number that the fingerprint was made of (`NumberOfRow`).

`PhoneNumberProofs` with the lemmas of `PhoneFacts`, for texts of any length in
any alphabet and numbers of any length:

* `DigitsDecide` — what is kept of a text (`Kept`) is followed through
  `normalize_phone`: `strip` and the separators take away no digits
  (`StripKeeps`, `KeptTwice`), a `00` that becomes a `+` takes away itself
  (`DialledIs`), and `National` one of two prefixes (`NationalPart`). So the
  digits of the text are a prefix that the code drops, and the number. Of what
  stands between the digits it says nothing: it decides nothing.
* `AllSpellingsMeet` — a text of digits, one `+` and separators has nothing to
  strip but separators (`NothingButSeparators`); then each usual prefix is
  taken for what it is (`SpellingsMeetText`).
* `NormalFormsAreStable` — a normal form passes each step unchanged.

`BotRuntimeProofs`, for any contacts, settings and limits:

* `HandledOnce` — `Ordered`: what was handled is before the offset, what the
  transaction has taken lies between the offset and the next one, and the rest
  of the batch is neither.
  That all before the offset was handled is not so (`bot_offset`), and the
  next two theorems speak of what a committed transaction handled.
* `StartsGetAnswers` — `Greeted`: an update that is not yet done was greeted at
  most as often as transactions were rolled back.
* `SharersGetServed`, `InvitedWereThere` — `Fits`, of the committed tables and
  of those of the session, with what each handler keeps of a contact (`Keeps`).
* `TypeCorrect`.

`SumFacts` and the first part of `PhoneFacts` prove by induction over data. The
library states induction with an operator for the predicate, which the provers
cannot instantiate; here it is stated with a set (`NatSetInduction`,
`SeqInduction`), which they can: a set that has the empty sequence and with
each of its sequences those one element longer has all of them. It follows from
the well-foundedness of the naturals. So that it reaches them, sums are the
community modules' `SumFunctionOnSet`, and `Kept` is a recursive function.

The assumptions are those that the modules name (`ASSUME`), which TLC
evaluates in every run of theirs, and two that theorems state: that there is
one process (`Alone` in `QueueSessionsProofs`; several refute those theorems:
`queue_dupe`, `queue_revive`), and `PlainPhones` in `FingerprintsStay`.

Only model-checked: liveness (`EveryJobSettles`, `RunEnds`), which is out of the
prover's reach.

## What the code does not keep

First, what has a run that expects the violation, and a finding in `PROJECT.json`:

* `queue_dupe` (`queue/service.py:26`): two processes enqueue one key at the
  same time. Both see no active job, both insert; `unique_key` has an index
  but no constraint. `tests/test_queue.py:36` and `README.md:36` expect the
  second to be rejected.
* `queue_revive` (`database/repositories.py:218`): a process that has selected
  a job waits for the lock while another executes and commits that job, and
  then claims it all the same, a `COMPLETED` or `FAILED` one.
* `invite_stuck` (`services/invite.py:157`): flood waits use up the attempts of
  an invitation, the contact is `FAILED`, and the link, which `README.md:32`
  promises for this case, is not enqueued: only an *answer* does that. A later
  run may invite the contact again, and the link follows if that gets an answer.
* `dry_skips` (`services/invite.py:151`): `cli.py:187` says that `--dry-run` does not
  change the invite status. Where `GROUP_ID` is empty the handler records
  `SKIPPED` before it asks the adapter, and `SKIPPED` contacts are never eligible
  again. `DryRunOnlySkips`, checked and proved, says that this is all a dry run
  changes.
* `contacts_lost` (`services/contact_service.py:41`): the bot loads a contact,
  waits for the messenger, and writes `FAILED` over a `SUCCESS` that another
  process has committed meanwhile, since a transition is checked on the object
  the session has and the row has no version. `tests/test_status.py:34` calls
  a success terminal. Without the bot it is, which `SuccessLasts` says.
* `bot_offset` (`adapters/http.py:129`): an empty poll adds one to the offset,
  so that as many updates are skipped as polls found nothing.

Second, what is against a document as well and has no run that refutes it; a
property says exactly how far it goes:

* A fake link (`cli.py:58`, `adapters/fake.py:110`, `services/invite.py:127`):
  `run-invites --dry-run --skip-checks` without credentials, with the strategy
  `link` or with jobs for the link in the queue, caches the fake messenger's link,
  and later real runs send it and record `SENT`, although `README.md:32` promises
  the group's link. `RecordedIsReal` has the case in its last conjunct: `SENT`
  without the group's link happens with a fake in `app_state`, and only then.
* Foreign numbers (`domain/phone.py:41-51`): the docstring (`domain/phone.py:26`)
  promises `None` for what is not a valid Iranian mobile number, but a `+` or `00`
  counts for nothing, and `+961 3 123456`, a number in Lebanon, becomes
  `+989613123456`. `OnlyDigitsDecide` says that nothing but the digits decides.

Third, what a user may run into and no document speaks of: with each
`run-invites`, those who cannot be invited and have the link get it again
(`services/invite.py:178`), and a message whose answer was lost is sent again by
any run; `RepeatedOnlyIfUnheard` says who gets it once. A run without `GROUP_ID`
records `SKIPPED`, in earnest too. An id from a file is taken for the person's
without a lookup (`importers/service.py:128`, `adapters/telegram.py:94-99`), though
`README.md:40` says that nobody without Telegram is invited: `StrangersLeftAlone`
speaks of the numbers without an account that no file gave an id.

## Assumptions and limits

* SQLite: a session sees committed rows until its first flush, which takes the
  one write lock until commit or rollback; who does not get it within the busy
  timeout fails. (pysqlite opens a transaction with the first write only.)
* Contacts of `InviteRuns` and `BotRuntime` have a valid number; others are
  never eligible.
* A file has headers: of one without, the code takes the first row for them,
  and it is no contact. An empty cell of an Excel sheet becomes the text `None`
  where the row has others; the model has both, and no property speaks of them.
* The hash of a fingerprint is injective. `IntegrityError` is raised at the
  insert and ends the import (`cli.py` rolls back).
* `InviteRuns` takes the queue as `JobLedger` promises it, which holds for one
  command at a time, and leaves open in which order due jobs are claimed and
  when delayed ones become due; a retry with the delay 0 is due at once.
* The messenger: `SUCCESS` of an invitation means that the person is in the
  group, and "already a participant" comes only for members. (Telegram may
  also list somebody as a missing invitee in a call that succeeds, which the
  adapter does not look at; that is outside the model.) `SENT` means that the
  message got through. A call that fails, times out or is lost may have had
  its effect all the same. A phone lookup finds no account where there is
  none, and may miss one.
* Update ids are consecutive and begin with 1. People share their own contact
  card. `BotRuntime` has the worker's half of `run-bot` do a follow-up job in one
  step, with its last attempt, and runs neither dry nor beside other commands.
* `InviteRuns` and `BotRuntime` have one writer of contacts at a time; several
  are the subject of `ContactSessions`, which in turn leaves the messenger and
  the jobs open. `ContactSessions` has the bot's contact matched already or by
  the shared card, in one step with what is answered.
* A report's queries are each on what is committed then; those that count
  contacts and batches are modelled, those that count statuses are of the same
  kind.

**Not modelled.** The text of messages, logs, reports and files, how `csv` and
`openpyxl` get cells out of a file, JSON, the schema's migration, the Telethon
calls behind the gateway and the login: values and I/O without a state of this
program. `sync_shared_contacts` is called by no command. `services/plan.py`
and `services/export.py` read once and lay out; `config.py`,
`logging_setup.py` and the entry points have no behaviour of their own. Two
groups, and with them a link that is cached for the wrong one, and contact
cards that are passed on by others are hazards without a property: the sources
promise nothing of either.

## Plan

Done: the queue with its abstract specification and proofs, the handlers, the
commands with their proofs, the bot with its proofs, phone numbers, files and
imports, processes that share the contacts, with proofs.

1. `ContactSessions` with the jobs of `QueueSessions`, so that which handler
   meets which contact is no longer left open.
2. The messenger's world in `ContactSessions`, so that a success which the bot
   overwrites can be followed to a second invitation.
