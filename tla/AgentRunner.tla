------------------------------ MODULE AgentRunner ------------------------------
(***************************************************************************)
(* What the engine is promised by every runner (trait AgentRunner): the    *)
(* agent is started or found again, it is given its prompt, and the        *)
(* execution ends once, for a reason the engine can act on.                *)
(***************************************************************************)
EXTENDS Naturals

CONSTANT Texts  \* how many texts the runner may submit: the prompt, a reminder

VARIABLES
  phase,   \* "starting", "started", "ended"
  left,    \* how many texts it may still submit
  result,  \* whether the agent's result is there
  end      \* why the execution ended

vars == <<phase, left, result, end>>

\* "error" stands for an Err of start, send_and_wait or attach.
AgentEnd == {"completed", "failed", "timed_out", "cancelled", "lost", "stalled", "error"}

\* An execution that is resumed has its prompt behind it, and may have its result.
Init ==
  /\ phase = "starting" /\ left \in {0, Texts} /\ end = "none"
  /\ result \in IF left = 0 THEN BOOLEAN ELSE {FALSE}

Start == phase = "starting" /\ phase' = "started" /\ UNCHANGED <<left, result, end>>

Submit ==
  /\ phase = "started" /\ left > 0
  /\ left' = left - 1
  /\ UNCHANGED <<phase, result, end>>

\* Only an agent that was given its prompt can have a result.
Answer == left < Texts /\ result' = TRUE /\ UNCHANGED <<phase, left, end>>

\* An agent without a result is believed to have finished only after every text it can be
\* given; it cannot have failed at a prompt, nor stalled on one, that was not submitted.
End(why) ==
  /\ phase # "ended"
  /\ why = "completed" => phase = "started" /\ (result \/ left = 0)
  /\ why \in {"failed", "stalled"} => left < Texts
  /\ phase' = "ended" /\ end' = why
  /\ UNCHANGED <<left, result>>

Next == Start \/ Submit \/ Answer \/ \E why \in AgentEnd : End(why)
Spec == Init /\ [][Next]_vars
================================================================================
