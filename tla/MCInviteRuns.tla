---------------------------- MODULE MCInviteRuns ----------------------------
(* Small instances of InviteRuns for TLC. *)
EXTENDS InviteRuns, TLC

CONSTANTS c1, c2

ContactSymmetry == Permutations(Contacts)

-----------------------------------------------------------------------------
(* Settings *)

(* GROUP_ID set, as the README has it, and the default strategy *)
Usual == {[group |-> TRUE, link |-> FALSE, strategy |-> "auto"]}

(* GROUP_ID, INVITE_LINK or INVITE_STRATEGY are changed between commands. *)
Edited == Usual \cup {[group |-> TRUE,  link |-> FALSE, strategy |-> "link"],
                      [group |-> FALSE, link |-> FALSE, strategy |-> "auto"],
                      [group |-> FALSE, link |-> TRUE,  strategy |-> "link"]}

-----------------------------------------------------------------------------
(* Commands *)

Cmd(phases, adapter, strategy, errors) ==
    [phases |-> phases, adapter |-> adapter, strategy |-> strategy, errors |-> errors]

RunInvites(adapter) ==
    Cmd(<<"check", "drain", "invite", "drain", "join", "drain">>, adapter, "configured", FALSE)

(* run-invites --skip-checks *)
WithoutChecks(adapter) ==
    Cmd(<<"invite", "drain", "join", "drain">>, adapter, "configured", FALSE)

RealRuns == {RunInvites("telegram")}

DryRuns == RealRuns \cup {RunInvites("dry")}

UnloggedRuns == {RunInvites("telegram"), WithoutChecks("dry_fake")}

(* A dry and a real run of each kind, run-invites --skip-invites, the      *)
(* worker, the enqueue commands with their options, and prepare-group.     *)
AllCommands ==
    DryRuns \cup UnloggedRuns \cup
    {WithoutChecks("dry_no_checks"),
     Cmd(<<"check", "drain", "join", "drain">>, "telegram", "configured", FALSE),
     Cmd(<<"work">>, "telegram", "configured", FALSE),
     Cmd(<<"check">>, "telegram", "configured", TRUE),
     Cmd(<<"invite">>, "telegram", "link", FALSE),
     Cmd(<<"join">>, "telegram", "configured", FALSE),
     Cmd(<<"prepare">>, "telegram", "configured", FALSE)}
=============================================================================
