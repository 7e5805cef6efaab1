---------------------------- MODULE MCBotRuntime ----------------------------
(* Small instances of BotRuntime for TLC. *)
EXTENDS BotRuntime

CONSTANTS c1

(* .env as the README has it *)
Usual == {[group |-> TRUE, link |-> FALSE, auto |-> TRUE, strategy |-> "auto"]}

(* ... and with GROUP_ID missing, INVITE_LINK given, AUTO_INVITE_ON_START  *)
(* off or another strategy.                                                *)
Edited == Usual \cup {[group |-> FALSE, link |-> FALSE, auto |-> TRUE, strategy |-> "auto"],
                      [group |-> TRUE, link |-> TRUE, auto |-> FALSE, strategy |-> "direct"]}
=============================================================================
