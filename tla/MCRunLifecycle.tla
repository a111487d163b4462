---------------------------- MODULE MCRunLifecycle ----------------------------
(***************************************************************************)
(* Small workflows for checking RunLifecycle with TLC.                     *)
(***************************************************************************)
EXTENDS RunLifecycle

Step(kind, gate, second) ==
  [kind |-> kind, gate |-> gate, second |-> second, commit |-> kind = "agent",
   route |-> 0, attempts |-> 0, ignore |-> FALSE]
Route(step, to, attempts) == [step EXCEPT !.route = to, !.attempts = attempts]
Uncommitted(step) == [step EXCEPT !.commit = FALSE]
Ignore(step) == [step EXCEPT !.ignore = TRUE]

Allow == {"allow"}
Always == {"ask"}
Any == {"allow", "ask", "deny"}

\* implement, then test with the failures routed back to the implementation.
AgentAndCheck == <<Step("agent", Allow, Allow), Route(Step("check", Allow, Allow), 1, 2)>>
\* The same with a diff that may be allowed, asked about or denied.
GuardedAgentAndCheck ==
  <<Step("agent", Allow, Any), Route(Step("check", Allow, Allow), 1, 2)>>
\* Everything that asks a human: launch, policy gate, explicit approval, command,
\* pull request and its push.
Delivery ==
  <<Uncommitted(Step("agent", Always, Allow)), Step("policy", Allow, Any),
    Step("commit", Allow, Allow), Step("approval", Allow, Allow),
    Step("command", Always, Allow), Step("pr", Always, Always)>>
\* A retry route, a command whose failure is ignored, a push of its own, and a pull
\* request whose push may get any answer.
Feature ==
  <<Step("agent", Allow, Allow), Route(Step("check", Allow, Allow), 1, 2),
    Ignore(Step("command", Always, Allow)), Step("push", Allow, Allow), Step("pr", Allow, Any)>>

\* A launch and a diff that must both be approved.
AskingAgent == <<Step("agent", Always, Always)>>
\* A command the policy allows.
OneCommand == <<Step("command", Allow, Allow)>>
\* The delivery end of the shipped workflows.
AgentAndPr == <<Step("agent", Allow, Allow), Step("pr", Always, Always)>>

Events4(c, r, x, p) == [crash |-> c, retry |-> r, cancel |-> x, pause |-> p]
Crash1 == Events4(1, 0, 0, 0)
Crash1Retry1 == Events4(1, 1, 0, 0)
Crash1Retry1Cancel1 == Events4(1, 1, 1, 0)
Retry1Cancel1 == Events4(0, 1, 1, 0)
Retry2Cancel1Pause1 == Events4(0, 2, 1, 1)
Crash1Cancel1Pause1 == Events4(1, 0, 1, 1)
Quietly == Events4(0, 0, 0, 0)

================================================================================
