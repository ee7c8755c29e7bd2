------------------------------ MODULE MCIngress ------------------------------
(***************************************************************************)
(* An instance of Ingress for TLC: a group message that Feishu presents    *)
(* under two event ids, and an owned reply of the same conversation that   *)
(* came through another app; a legacy consumer, an agent that matches the  *)
(* command, and two streams of an agent that takes what is unmatched.      *)
(***************************************************************************)
EXTENDS Ingress, TLC

CONSTANTS m1, m2, d1, again, d2, app1, app2, chat, script, expert, general, report

MCEvent ==
    d1    :> [message |-> m1, app |-> app1, conversation |-> chat,
              command |-> report, agentOnly |-> FALSE, owner |-> NoOne] @@
    again :> [message |-> m1, app |-> app1, conversation |-> chat,
              command |-> report, agentOnly |-> FALSE, owner |-> NoOne] @@
    d2    :> [message |-> m2, app |-> app2, conversation |-> chat,
              command |-> report, agentOnly |-> TRUE, owner |-> general]

Stream(name, path, provider, commands, apps) ==
    [name |-> name, path |-> path, provider |-> provider, commands |-> commands,
     unmatched |-> commands = {}, apps |-> apps]

MCSubscriptions ==
    {Stream("command", "legacy", script, {report}, {app1, app2}),
     Stream("expert", "agent", expert, {report}, {app1}),
     Stream("one", "agent", general, {}, {app1, app2}),
     Stream("two", "agent", general, {}, {app2})}

=============================================================================
