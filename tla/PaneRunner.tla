------------------------------- MODULE PaneRunner ------------------------------
(***************************************************************************)
(* An interactive agent in a Herdr pane, and the runner that drives it:    *)
(* start or reuse the agent, wait until it is ready, submit the prompt,    *)
(* wait until it settles, distrust an agent that settles without a result, *)
(* remind it once; or find it again after the engine was restarted.  The   *)
(* agent, its human and the clock act at any time.                         *)
(***************************************************************************)
EXTENDS Naturals

CONSTANT MaxSwallowed  \* bound: texts that reach nobody

ASSUME PaneAssumption == MaxSwallowed \in Nat

VARIABLES
  (* the agent *)
  agent,      \* its status, as Herdr reports it
  ready,      \* interactive_ready
  heard,      \* how many texts it has received
  file,       \* whether its result file is written
  swallowed,  \* how many texts were lost on the way
  (* the clock and the human *)
  late,       \* the deadline of the step has passed
  cancel,     \* the cancel token
  (* the runner *)
  at,         \* where it is
  left,       \* how many texts it may still submit
  window,     \* the settle window of confirm_settled
  end         \* AgentOutcome.end

agentVars == <<agent, ready, heard, file, swallowed>>
clockVars == <<late, cancel>>
runnerVars == <<at, left, window, end>>
vars == <<agentVars, clockVars, runnerVars>>

Texts == 2
Settled == {"idle", "done"}
Busy == {"working", "blocked"}
AgentStatus == Settled \cup Busy \cup {"absent", "starting", "gone"}

Over == at = "over"

--------------------------------------------------------------------------------
(***************************************************************************)
(* The agent in its pane, as Herdr shows it.                               *)
(***************************************************************************)
Becomes(status) == agent' = status /\ UNCHANGED <<heard, file, swallowed, clockVars, runnerVars>>

\* It comes up, with or without a dialog of its own, and may not take input at once.
ComesUp == agent = "starting" /\ \E s \in {"idle", "blocked"} : Becomes(s) /\ ready' \in BOOLEAN
TakesInput == agent \in Settled /\ ~ready /\ ready' = TRUE /\ Becomes(agent)
\* It flickers between the states: tool calls, permission prompts.
Works == agent \in Settled /\ heard > 0 /\ Becomes("working") /\ UNCHANGED ready
Pauses == agent = "working" /\ \E s \in Settled \cup {"blocked"} : Becomes(s) /\ UNCHANGED ready
HumanAnswers ==
  agent = "blocked" /\ Becomes(IF heard = 0 THEN "idle" ELSE "working") /\ UNCHANGED ready
WritesResult ==
  /\ agent = "working" /\ ~file /\ file' = TRUE
  /\ UNCHANGED <<agent, ready, heard, swallowed, clockVars, runnerVars>>
Goes == agent \notin {"absent", "gone"} /\ Becomes("gone") /\ UNCHANGED ready

Agent == ComesUp \/ TakesInput \/ Works \/ Pauses \/ HumanAnswers \/ WritesResult \/ Goes

\* The deadline passes; a human cancels the run.
Deadline == ~late /\ at # "start" /\ late' = TRUE /\ UNCHANGED <<agentVars, cancel, runnerVars>>
Cancel == ~cancel /\ cancel' = TRUE /\ UNCHANGED <<agentVars, late, runnerVars>>

--------------------------------------------------------------------------------
(***************************************************************************)
(* start and attach                                                        *)
(***************************************************************************)
Go(where) == at' = where /\ UNCHANGED <<left, window, end>>
Ends(why) == at' = "over" /\ end' = why /\ UNCHANGED <<left, window>>
Still == UNCHANGED <<agentVars, clockVars>>

\* The agent of the previous attempt, if it has settled; else a tab, and an agent in it.
Reuse == at = "start" /\ left > 0 /\ agent \in Settled /\ Go("ready") /\ Still
NewTab ==
  /\ at = "start" /\ left > 0 /\ agent \notin Settled
  /\ \/ agent' = "starting" /\ Go("launch")
     \/ UNCHANGED agent /\ Ends("error")
  /\ UNCHANGED <<ready, heard, file, swallowed, clockVars>>

\* agent.start answers: ready (then the runner gives it up to 20 s to stay idle), not
\* ready, or an error.
Launch ==
  /\ at = "launch" /\ Still
  /\ \/ agent \in Settled /\ Go("ready")
     \/ agent \notin Settled /\ Go("dialog")
     \/ Ends("error")

\* The engine was restarted after the prompt was marked as sent: only wait.
Attach == at = "start" /\ left = 0 /\ Go("wait") /\ Still

--------------------------------------------------------------------------------
(***************************************************************************)
(* wait_ready, at startup ("dialog") and before each text ("ready").       *)
(***************************************************************************)
ReadyEnd == CASE at = "dialog" -> "error" [] cancel -> "cancelled"
              [] late -> "timed_out" [] OTHER -> "lost"

\* Mutant: wait for the dialog to be answered, however late it is.
WaitReadyForever ==
  /\ at \in {"dialog", "ready"} /\ Still
  /\ \/ (cancel \/ agent = "gone") /\ Ends(ReadyEnd)
     \/ ~cancel /\ agent \in Settled /\ Go(IF at = "dialog" THEN "ready" ELSE "prompt")
WaitReady ==
  /\ at \in {"dialog", "ready"} /\ Still
  /\ \/ (cancel \/ late \/ agent = "gone") /\ Ends(ReadyEnd)
     \/ ~cancel /\ ~late /\ agent \in Settled
        /\ Go(IF at = "dialog" THEN "ready" ELSE "prompt")

--------------------------------------------------------------------------------
(***************************************************************************)
(* send_once: agent.prompt, and what Herdr answers.                        *)
(***************************************************************************)
\* The text reaches the agent, or is swallowed by one that is not ready for input.
Prompt ==
  /\ at = "prompt" /\ agent \notin {"blocked", "gone"}
  /\ \/ heard' = heard + 1 /\ UNCHANGED swallowed
     \/ /\ ~ready /\ swallowed < MaxSwallowed /\ swallowed' = swallowed + 1
        /\ UNCHANGED heard
  /\ left' = left - 1 /\ at' = "prompted"
  /\ UNCHANGED <<agent, ready, file, clockVars, window, end>>

\* agent_blocked: nothing was submitted; wait for the human and try again.
PromptBlocked == at = "prompt" /\ agent = "blocked" /\ Go("ready") /\ Still
\* agent_not_found.
PromptLost == at = "prompt" /\ agent = "gone" /\ Ends("lost") /\ Still

Confirm == at' = "confirm" /\ window' = "new" /\ UNCHANGED <<left, end>>

\* The wait for the prompt's effect times out, or the agent settles at once, or Herdr saw
\* nothing happen (agent_prompt_stalled): the text may have arrived, so it is not resent.
Prompted ==
  /\ at = "prompted" /\ Still
  /\ \/ agent \notin Settled \cup {"gone"} /\ Go("wait")
     \/ agent \in Settled /\ (Confirm \/ Ends("stalled"))
     \/ agent = "gone" /\ \E why \in {"lost", "stalled"} : Ends(why)

--------------------------------------------------------------------------------
(***************************************************************************)
(* wait_until_done: wait_settled, then confirm_settled without a result.   *)
(* Both send the interrupt keys when they give up.                         *)
(***************************************************************************)
GivesUp == \/ cancel /\ Ends("cancelled")
           \/ ~cancel /\ late /\ Ends("timed_out")

\* Mutant: the first time the agent settles is believed.
CompleteAtOnce == Ends("completed")
\* send_and_wait: without a result the agent is reminded, once.
Complete == IF file \/ left = 0 THEN Ends("completed") ELSE Go("ready")

WaitSettled ==
  /\ at = "wait" /\ Still
  /\ \/ GivesUp
     \/ /\ ~cancel /\ ~late
        /\ \/ agent = "gone" /\ Ends("lost")
           \/ agent \in Settled /\ IF file THEN Ends("completed") ELSE Confirm

\* One poll: a result, a cancel, the deadline, the end of the window, then the agent.
ConfirmSettled ==
  /\ at = "confirm" /\ Still
  /\ \/ file /\ Complete
     \/ ~file /\ GivesUp
     \/ ~file /\ ~cancel /\ ~late /\ window = "passed" /\ Complete
     \/ /\ ~file /\ ~cancel /\ ~late /\ window # "passed"
        /\ \/ agent \in Busy /\ Go("wait")
           \/ agent = "gone" /\ Ends("lost")
           \/ /\ agent \in Settled /\ window = "new" /\ window' = "polled"
              /\ UNCHANGED <<at, left, end>>

\* The settle window is many polls long.
WindowPasses ==
  /\ at = "confirm" /\ window = "polled" /\ window' = "passed"
  /\ UNCHANGED <<agentVars, clockVars, at, left, end>>

\* Herdr does not answer: the error is handed on.
HerdrFails == at \in {"dialog", "ready", "prompt", "wait", "confirm"} /\ Ends("error") /\ Still

--------------------------------------------------------------------------------
\* A fresh step, the settled agent of an attempt before, or an agent a crash left behind
\* with its prompt marked as sent, whether it was or not.
Init ==
  /\ \/ left = Texts /\ agent \in {"absent"} \cup Settled /\ heard = 0 /\ file = FALSE
     \/ left = 0 /\ agent \in AgentStatus \ {"absent", "starting"} /\ heard \in {0, 1}
        /\ file \in IF heard = 1 THEN BOOLEAN ELSE {FALSE}
  /\ ready = (agent # "absent") /\ swallowed = 0 /\ late = FALSE /\ cancel = FALSE
  /\ at = "start" /\ window = "none" /\ end = "none"

Runner ==
  \/ Reuse \/ NewTab \/ Launch \/ Attach \/ WaitReady \/ Prompt \/ PromptBlocked \/ PromptLost
  \/ Prompted \/ WaitSettled \/ ConfirmSettled \/ WindowPasses \/ HerdrFails

Next == Runner \/ (~Over /\ (Agent \/ Deadline \/ Cancel))
Spec == Init /\ [][Next]_vars

\* The thread runs, and time passes.
Fairness == WF_vars(Runner) /\ WF_vars(~Over /\ Deadline)
FairSpec == Spec /\ Fairness

--------------------------------------------------------------------------------
\* Every variable is of its type; no text is counted twice or comes from nowhere.
TypeOK ==
  /\ agent \in AgentStatus /\ {ready, file, late, cancel} \subseteq BOOLEAN
  /\ heard \in 0..Texts /\ left \in 0..Texts /\ swallowed \in 0..MaxSwallowed
  /\ heard + swallowed <= Texts
  /\ at \in {"start", "launch", "dialog", "ready", "prompt", "prompted", "wait", "confirm", "over"}
  /\ window \in {"none", "new", "polled", "passed"}
  /\ end \in {"none", "completed", "timed_out", "cancelled", "lost", "stalled", "error"}
  /\ Over <=> end # "none"

\* The pane runner keeps the promise of every runner, whatever the agent, its human and
\* the clock do: at most a prompt and a reminder, none when the engine was restarted, and
\* an agent that settled without a result is believed only when there is nothing left to say.
Promise == INSTANCE AgentRunner WITH
  phase <- CASE at \in {"start", "launch", "dialog"} -> "starting" [] Over -> "ended"
             [] OTHER -> "started",
  result <- file
Implements == Promise!Spec

\* A step ends: no dialog, silence or lost text keeps the runner beyond its deadline.
StepEnds == <>Over
================================================================================
