------------------------------ MODULE JobLedger ------------------------------
(***************************************************************************)
(* What the queue promises of the committed jobs table, whatever the       *)
(* sessions behind it do: an abstract specification with the table as its  *)
(* only variable.  A transaction may add jobs and settle at most one, the  *)
(* one whose turn it is; everything else in the table stays as it was.     *)
(***************************************************************************)
EXTENDS JobTable

VARIABLE ledger

Fresh(row) == row.attempts = 0 /\ row.status \in {"PENDING", "DELAYED"}

(* One execution takes a waiting row to its outcome.  An outcome is final  *)
(* or, while attempts are left, another wait.                              *)
Settles(old, new) ==
    /\ old.status \in WAITING_JOB_STATUSES
    /\ new.attempts = old.attempts + 1
    /\ new.key = old.key /\ new.max = old.max /\ new.delay = old.delay
    /\ \/ new.status \in {"COMPLETED", "FAILED"}
       \/ new.status = "RETRYING" /\ new.attempts < new.max

(* Row i of t is settled in turn: no waiting row of t comes before it. *)
InTurn(t, i) ==
    \A j \in DOMAIN t \ {i} :
        t[j].status \in WAITING_JOB_STATUSES => Before(t, i, j)

(* A row that is added and settled by the same transaction. *)
AddedAndSettled(row) ==
    /\ row.attempts = 1
    /\ \/ row.status \in {"COMPLETED", "FAILED"}
       \/ row.status = "RETRYING" /\ row.max > 1

Evolves(t, u) ==
    /\ Len(t) <= Len(u)
    /\ OneActivePerKey(u)
    /\ \E i \in 0 .. Len(u) :
        /\ \A j \in DOMAIN t \ {i} : u[j] = t[j]
        /\ \A j \in DOMAIN u \ (DOMAIN t \cup {i}) : Fresh(u[j])
        /\ i \in DOMAIN t => Settles(t[i], u[i]) /\ InTurn(t, i)
        /\ i \in DOMAIN u \ DOMAIN t => AddedAndSettled(u[i])

Init == ledger = <<>>

Next == Evolves(ledger, ledger')

Spec == Init /\ [][Next]_ledger
=============================================================================
