--------------------------- MODULE MCQueueSessions ---------------------------
(* Small instances of QueueSessions for TLC. *)
EXTENDS QueueSessions, TLC

CONSTANTS k1, k2, p1, p2

(* Jobs without a delay and with the configured limit, as the account      *)
(* checks and invites are, and delayed jobs, as a join check that follows  *)
(* an invite is, here with a limit of its own (test_queue.py makes one).   *)
TwoRequests == {[key |-> k1, delay |-> -1, max |-> 0],
                [key |-> k2, delay |-> 1, max |-> 1]}

OneRequest == {[key |-> k1, delay |-> 0, max |-> 0]}

ProcSymmetry == Permutations(Procs)
=============================================================================
