------------------------------ MODULE AdminRun ------------------------------
(***************************************************************************)
(* `n4a-cockpit admin run` (cli.admin_run, admin.run_workflow): one command *)
(* of an operator, from its flags to the run it starts on GitHub.  The      *)
(* session of `gh` may end at any point, and a call that reports a failure  *)
(* may have started the run all the same.                                   *)
(***************************************************************************)

\* The release workflows of ops/targets.yaml, one of every kind it has.  `gate` is
\* the input that run_workflow takes for the publish gate; `other` is an input that
\* makes the workflow publish and that it does not know (publish_existing_tag; the
\* publish_to of one workflow chooses TestPyPI, which is no release).
Workflow == [trigger : {"tag", "workflow_dispatch", "release_published"},
             danger : {"safe", "publish", "dangerous"}, publishes_on_dispatch : BOOLEAN,
             gate : {"none", "publish", "dry_run"}, required : BOOLEAN, other : BOOLEAN]

Kind(trigger, danger, publishes, gate, required, other) ==
  [trigger |-> trigger, danger |-> danger, publishes_on_dispatch |-> publishes,
   gate |-> gate, required |-> required, other |-> other]

NoWorkflow == [trigger |-> "planned, manual or excluded"]

Inventory ==
  {NoWorkflow,
   Kind("tag", "safe", FALSE, "none", FALSE, FALSE),
   Kind("tag", "publish", FALSE, "none", FALSE, FALSE),
   Kind("tag", "publish", FALSE, "dry_run", FALSE, FALSE),
   Kind("tag", "publish", TRUE, "dry_run", FALSE, FALSE),
   Kind("tag", "publish", TRUE, "publish", FALSE, FALSE),
   Kind("tag", "publish", TRUE, "publish", TRUE, FALSE),
   Kind("workflow_dispatch", "publish", TRUE, "publish", FALSE, FALSE),
   Kind("workflow_dispatch", "safe", FALSE, "none", FALSE, FALSE),
   Kind("workflow_dispatch", "dangerous", TRUE, "none", TRUE, TRUE),
   Kind("release_published", "publish", TRUE, "dry_run", FALSE, FALSE),
   Kind("release_published", "dangerous", TRUE, "none", FALSE, FALSE)}

\* The gate as the operator gives it with --input: "False" is false to GitHub's
\* case-blind comparison, and neither value to this program's.
GateValue == {"absent", "true", "false", "False"}

Command == [workflow : Inventory, publish : BOOLEAN, dry_run : BOOLEAN, tty : BOOLEAN,
            gate : GateValue, required : BOOLEAN, other : BOOLEAN, undeclared : BOOLEAN]

VARIABLES
  cmd,        \* the command line and its terminal
  pc,         \* where the command is
  answer,     \* the operator's answer to the prompt, if one was asked
  auth,       \* does gh hold a session
  gate,       \* the publish gate of the dispatch, once resolved
  outcome,    \* how the last command ended
  published   \* on GitHub: did the run of this command publish
commandVars == <<cmd, pc, answer, auth, gate, outcome, published>>

InitCommand ==
  /\ cmd \in Command /\ auth \in BOOLEAN
  /\ pc = "idle" /\ answer = "none" /\ gate = "absent"
  /\ outcome = "none" /\ published = FALSE

-----------------------------------------------------------------------------
\* The operator types a command.
Type ==
  /\ pc = "idle" /\ pc' = "prompt"
  /\ cmd' \in Command
  /\ answer' = "none" /\ gate' = "absent"
  /\ outcome' = "none" /\ published' = FALSE
  /\ UNCHANGED auth

\* gh's session expires, or the operator logs in again.
Session == auth' = ~auth /\ UNCHANGED <<cmd, pc, answer, gate, outcome, published>>

End(how) == pc' = "idle" /\ outcome' = how

\* Slip: the flags only count on a terminal.
ConfirmOnTerminal(c) == c.publish /\ ~c.dry_run /\ c.tty

\* Both flags together are the confirmation.
Confirm(c) == c.publish /\ ~c.dry_run

\* On a terminal the operator is asked as well.
Prompt ==
  /\ pc = "prompt"
  /\ IF Confirm(cmd) /\ cmd.tty
       THEN \/ answer' = "yes" /\ pc' = "auth" /\ UNCHANGED outcome
            \/ answer' = "no" /\ End("aborted")
       ELSE pc' = "auth" /\ UNCHANGED <<answer, outcome>>
  /\ UNCHANGED <<cmd, auth, gate, published>>

\* _require_auth, once, before anything else.
RequireAuth ==
  /\ pc = "auth"
  /\ IF auth THEN pc' = "resolve" /\ UNCHANGED outcome ELSE End("not authenticated")
  /\ UNCHANGED <<cmd, answer, auth, gate, published>>

-----------------------------------------------------------------------------
\* Slip: a dry_run input is given the intent itself.
SafeValueSame(name, publish) == IF publish THEN "true" ELSE "false"

\* _safe_value: the gate's value for an intent to publish.
SafeValue(name, publish) ==
  IF (name = "dry_run") = publish THEN "false" ELSE "true"

\* What the operator gave wins over the value of the flags; without either, the
\* input is left to the workflow's default.
Gate(c) ==
  LET w == c.workflow
  IN  IF w.gate = "none" \/ c.gate # "absent" THEN c.gate
      ELSE IF c.dry_run THEN SafeValue(w.gate, FALSE)
      ELSE IF c.publish THEN SafeValue(w.gate, TRUE)
      ELSE "absent"

\* _validate_inputs accepts: every required input is given, and only declared ones.
Valid(c) ==
  /\ ~c.undeclared
  /\ c.workflow.gate = "none" => c.gate = "absent"
  /\ c.other => c.workflow.other
  /\ c.required = c.workflow.required

\* _will_publish.
WillPublish(c) ==
  LET w == c.workflow
      value == IF Gate(c) = "absent" THEN SafeValue(w.gate, c.publish /\ ~c.dry_run) ELSE Gate(c)
  IN  /\ w.publishes_on_dispatch
      /\ IF w.gate = "none" THEN c.publish \/ ~c.dry_run
         ELSE value = SafeValue(w.gate, TRUE)

\* Slip: only the computed intent asks for a confirmation.
NeedsConfirmIntent(c) == WillPublish(c)

NeedsConfirm(c) == WillPublish(c) \/ c.workflow.danger \in {"publish", "dangerous"}

\* Where run_workflow goes with a target: no button, the manual tag steps, a
\* refused input, a preview, a refusal for want of confirmation, a dispatch.
Decision(c) ==
  IF c.workflow = NoWorkflow THEN "no button"
  ELSE IF c.workflow.trigger = "tag" /\ ~c.workflow.publishes_on_dispatch THEN "tag steps"
  ELSE IF ~Valid(c) THEN "input refused"
  ELSE IF c.dry_run THEN "preview"
  ELSE IF NeedsConfirm(c) /\ ~Confirm(c) THEN "unconfirmed"
  ELSE "dispatch"

Resolve ==
  /\ pc = "resolve"
  /\ gate' = IF Decision(cmd) \in {"preview", "unconfirmed", "dispatch"} THEN Gate(cmd) ELSE "absent"
  /\ IF Decision(cmd) = "dispatch"
       THEN pc' = "dispatch" /\ UNCHANGED outcome
       ELSE End(Decision(cmd))
  /\ UNCHANGED <<cmd, answer, auth, published>>

\* GitHub: what a started run does.  An absent gate is off by default.
MayPublish(c) ==
  LET w == c.workflow
  IN  /\ w.publishes_on_dispatch
      /\ CASE w.gate = "publish" -> Gate(c) = "true"
           [] w.gate = "dry_run" -> Gate(c) \in {"false", "False"}
           [] OTHER -> w.other => c.other

\* `gh workflow run`: it fails without a session, and may report a failure for a
\* run that was started.  The messages, the command among them, are printed after.
Dispatch ==
  /\ pc = "dispatch"
  /\ \/ published' = MayPublish(cmd) /\ auth /\ End("executed")
     \/ published' = MayPublish(cmd) /\ auth /\ End("failed")
     \/ published' = FALSE /\ End("failed")
  /\ UNCHANGED <<cmd, answer, auth, gate>>

NextCommand == Type \/ Session \/ Prompt \/ RequireAuth \/ Resolve \/ Dispatch

SpecCommand == InitCommand /\ [][NextCommand]_commandVars

-----------------------------------------------------------------------------
Outcomes == {"none", "aborted", "not authenticated", "no button", "tag steps", "input refused",
             "preview", "unconfirmed", "executed", "failed"}

\* Types of every variable.
CommandTypeOK ==
  /\ cmd \in Command /\ pc \in {"idle", "prompt", "auth", "resolve", "dispatch"}
  /\ answer \in {"none", "yes", "no"} /\ auth \in BOOLEAN /\ gate \in GateValue
  /\ outcome \in Outcomes /\ published \in BOOLEAN

\* Nothing is published behind the operator's back: whatever the workflow's gate
\* is called and however its value was spelled, a run that published was started
\* by a command with both flags, accepted at the terminal if there was one.
NoUnconfirmedPublish ==
  published => cmd.publish /\ ~cmd.dry_run /\ (cmd.tty => answer = "yes")

\* "Re-run with --no-dry-run --publish and confirm": that advice is never a loop,
\* the same command with the two flags is dispatched.
AdviceWorks ==
  outcome = "unconfirmed" =>
    Decision([cmd EXCEPT !.publish = TRUE, !.dry_run = FALSE]) = "dispatch"

\* An operator who gave the flags and no gate of their own gets the intent sent to
\* every workflow whose gate the program knows: on when confirmed, off otherwise.
GateFollowsTheFlags ==
  outcome \in {"preview", "executed"} /\ cmd.workflow.gate # "none" /\ cmd.gate = "absent" =>
    (MayPublish(cmd) <=> Confirm(cmd))

=============================================================================
