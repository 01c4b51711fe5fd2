---------------------------- MODULE Coordinator ----------------------------
(***************************************************************************)
(* The agent pipeline of agents/coordinator.py and the two job handlers of *)
(* web/jobs.py that drive it: run_agents, which builds a fresh plan and    *)
(* commits it last, and constraint_submit, which persists an asset         *)
(* constraint and re-plans the affected findings inside the current plan.  *)
(* One worker thread runs one job at a time (JobRegistry); the constraints *)
(* table is shared with the retract route and with `rhino constraint` in   *)
(* other processes, which act between any two steps.                       *)
(*                                                                         *)
(* A stage is one crew.kickoff() over the findings that survived the       *)
(* previous one.  Kickoff runs their tasks one by one and an exception     *)
(* fails every finding whose task has no output yet.  Each output is then  *)
(* resolved by itself: accepted, retried, or given up.  Orders are sets    *)
(* here (queue, completed): whichever finding comes next.  What the agents *)
(* write is abstract; the constraints the score_finding tool folded into a *)
(* finding's score, and which of its calls an answer is held to, are not.  *)
(* An agent is taken to call the tool for the finding of its own task.     *)
(***************************************************************************)
EXTENDS Naturals, FiniteSets

CONSTANTS
  Findings,         \* the findings of the ingested source
  Constraints,      \* the asset-scoped constraints anybody may submit
  Scope,            \* the findings on the asset each constraint names
  ContestedUnder,   \* the sets of applied constraints that leave each finding contested
  NoState,          \* None, as a RunState
  MaxJobs           \* bound: how many jobs the model starts

ASSUME ScopeAssumption == Scope \in [Constraints -> SUBSET Findings]
ASSUME ContestedAssumption == ContestedUnder \in [Findings -> SUBSET SUBSET Constraints]
ASSUME MaxJobsAssumption == MaxJobs \in Nat

VARIABLES
  constraint,   \* the rows of memory.py's constraints table
  state,        \* RunState of PlanState.coordinator and of the one being built
  kind,         \* the kind of the running job
  phase,        \* where its thread is
  stage,        \* the stage being dispatched
  target,       \* the findings the dispatch is for
  queue,        \* of these, the ones still to be handled in this stage
  completed,    \* tasks with an output that is not resolved yet
  called,       \* history: the findings score_finding was called for in this re-plan
  submitted,    \* the constraint this job persisted, as a set of at most one
  export,       \* the rows of the export file
  started       \* how many jobs were started

dispatchVars == <<kind, phase, stage, target, queue, completed, called, submitted, started>>
vars == <<constraint, state, dispatchVars, export>>

\* What the stages of a dispatch leave alone.
outside == <<constraint, kind, submitted, started, export>>

Stages == {"research", "environment", "risk"}
StagesAndTot == Stages \cup {"tot"}
Kinds == {"none", "run_agents", "constraint_submit"}
Phases == {"idle", "interpreting", "dispatch", "kickoff", "tot", "recording", "exporting"}

\* The last call of a log, if it has one: the constraints it folded in.
Calls == {{}} \cup {{cs} : cs \in SUBSET Constraints}

\* done: the keys of the *_by_id dicts.  failed: the keys of the *_failures
\* dicts.  applied: constraints_applied of each RiskRecommendation.  log: what the last
\* call of score_finding in risk_call_log folded in, {} when the log has none; it is part
\* of the plan, so a re-plan starts with the calls of the run before it.
RunState == [done : [StagesAndTot -> SUBSET Findings],
             failed : [StagesAndTot -> SUBSET Findings],
             applied : [Findings -> SUBSET Constraints],
             log : [Findings -> Calls]]

NothingApplied == [f \in Findings |-> {}]
EmptyState == [done |-> [s \in StagesAndTot |-> {}],
               failed |-> [s \in StagesAndTot |-> {}],
               applied |-> NothingApplied,
               log |-> [f \in Findings |-> {}]]

Row == [applied : SUBSET Constraints, contested : {"no", "resolved", "failed"}]

TypeOK ==
  /\ constraint \in [Constraints -> {"new", "active", "retracted"}]
  /\ state \in [{"current", "fresh"} -> RunState \cup {NoState}]
  /\ kind \in Kinds
  /\ phase \in Phases
  /\ stage \in Stages
  /\ target \subseteq Findings
  /\ queue \subseteq Findings
  /\ completed \subseteq Findings
  /\ called \subseteq Findings
  /\ submitted \subseteq Constraints
  /\ started \in 0..MaxJobs
  /\ \E fs \in SUBSET Findings : export \in [fs -> Row]

-----------------------------------------------------------------------------
(* The constraints in force, and the state a dispatch works in.            *)

\* constraints_for_asset + match_constraints: what a tool call made now folds in.
Live(f) == {c \in Constraints : constraint[c] = "active" /\ f \in Scope[c]}

\* replan works in the current plan in place, run in a state of its own.
Replanning == submitted # {}
Slot == IF Replanning THEN "current" ELSE "fresh"
Work == state[Slot]

IsContested(s, f) == f \in s.done["risk"] /\ s.applied[f] \in ContestedUnder[f]

\* Mutant of Upstream: _dispatch_risk does not look for an assessment.
UpstreamResearchOnly(s, st) == IF st = "research" THEN Findings ELSE s.done["research"]

\* The findings whose earlier stages all produced a result.
Upstream(s, st) ==
  CASE st = "research" -> Findings
    [] st = "environment" -> s.done["research"]
    [] st = "risk" -> s.done["research"] \cap s.done["environment"]

Init ==
  /\ constraint = [c \in Constraints |-> "new"]
  /\ state = [s \in {"current", "fresh"} |-> NoState]
  /\ kind = "none"
  /\ phase = "idle"
  /\ stage = "research"
  /\ target = {}
  /\ queue = {}
  /\ completed = {}
  /\ called = {}
  /\ submitted = {}
  /\ export = << >>
  /\ started = 0

-----------------------------------------------------------------------------
(* Starting and ending a job.                                              *)

EndJob ==
  /\ kind' = "none"
  /\ phase' = "idle"
  /\ stage' = "research"
  /\ target' = {}
  /\ queue' = {}
  /\ completed' = {}
  /\ called' = {}
  /\ submitted' = {}

\* Coordinator(...) and run(): an empty RunState over every finding.
StartRun ==
  /\ state' = [state EXCEPT !["fresh"] = EmptyState]
  /\ target' = Findings
  /\ phase' = "dispatch"

\* The slot is claimed and the handler starts; seed() runs the pipeline first
\* when constraint_submit finds no current plan.
StartJob(k) ==
  /\ phase = "idle"
  /\ started < MaxJobs
  /\ started' = started + 1
  /\ kind' = k
  /\ IF k = "constraint_submit" /\ state["current"] # NoState
       THEN phase' = "interpreting" /\ UNCHANGED <<state, target>>
       ELSE StartRun
  /\ UNCHANGED <<constraint, stage, queue, completed, called, submitted, export>>

-----------------------------------------------------------------------------
(* Research, Environment and Risk: _dispatch_research, _dispatch_environment, *)
(* _dispatch_risk.                                                         *)

\* Mutant of Invalidated: the results of an earlier dispatch stay in place.
InvalidatedNothing(s, st) == s

\* Every target loses its earlier result before anything is attempted.
Invalidated(s, st) == [s EXCEPT !.done[st] = @ \ target]

\* Mutant of BeginStage: a finding an earlier stage failed for is passed over
\* without a record.
BeginStageSilently ==
  /\ phase = "dispatch"
  /\ state' = [state EXCEPT ![Slot] = Invalidated(@, stage)]
  /\ queue' = target \cap Upstream(Work, stage)
  /\ phase' = "kickoff"
  /\ UNCHANGED <<outside, stage, target, completed, called>>

BeginStage ==
  /\ phase = "dispatch"
  /\ state' = [state EXCEPT
       ![Slot] = [Invalidated(Work, stage) EXCEPT
                    !.failed[stage] = @ \cup (target \ Upstream(Work, stage))]]
  /\ queue' = target \cap Upstream(Work, stage)
  /\ phase' = "kickoff"
  /\ UNCHANGED <<outside, stage, target, completed, called>>

\* build_research_tools could not load the bulk catalogs.
ResearchToolsFail ==
  /\ phase = "dispatch"
  /\ stage = "research"
  /\ state' = [state EXCEPT
       ![Slot] = [Invalidated(Work, stage) EXCEPT !.failed[stage] = @ \cup target]]
  /\ phase' = "kickoff"
  /\ UNCHANGED <<outside, stage, target, queue, completed, called>>

\* The agent works on f once more.  Its task asks it to call score_finding; nothing
\* makes it do so.
CallTools(f) ==
  \/ UNCHANGED <<state, called>>
  \/ /\ stage = "risk"
     /\ state' = [state EXCEPT ![Slot].log[f] = {Live(f)}]
     /\ called' = IF Replanning THEN called \cup {f} ELSE called

RunTask(f) ==
  /\ phase = "kickoff"
  /\ f \in queue
  /\ queue' = queue \ {f}
  /\ completed' = completed \cup {f}
  /\ CallTools(f)
  /\ UNCHANGED <<outside, phase, stage, target>>

\* kickoff raises: every finding whose task has no output is recorded.
KickoffFails ==
  /\ phase = "kickoff"
  /\ queue # {}
  /\ state' = [state EXCEPT ![Slot].failed[stage] = @ \cup queue]
  /\ queue' = {}
  /\ UNCHANGED <<outside, phase, stage, target, completed, called>>

Resolving(f) == phase = "kickoff" /\ queue = {} /\ f \in completed

\* What a score that is accepted may fold in: verify_scoring_matches_tool holds it to the
\* last call in the log, whichever dispatch made it, and rejects it when there is none.
Agreed(f) == IF stage = "risk" THEN Work.log[f] ELSE {Work.applied[f]}

\* _resolve_output: the output parses and agrees with the last tool call.
Accept(f) ==
  /\ Resolving(f)
  /\ \E folded \in Agreed(f) :
       state' = [state EXCEPT
         ![Slot] = [Work EXCEPT !.done[stage] = @ \cup {f}, !.applied[f] = folded]]
  /\ completed' = completed \ {f}
  /\ UNCHANGED <<outside, phase, stage, target, queue, called>>

\* A rejected output is asked for again (max_parse_attempts is abstracted)...
Retry(f) ==
  /\ Resolving(f)
  /\ CallTools(f)
  /\ UNCHANGED <<outside, phase, stage, target, queue, completed>>

\* ... until the attempts are used up.
GiveUp(f) ==
  /\ Resolving(f)
  /\ state' = [state EXCEPT ![Slot].failed[stage] = @ \cup {f}]
  /\ completed' = completed \ {f}
  /\ UNCHANGED <<outside, phase, stage, target, queue, called>>

\* Mutant of NextStage: Risk is dispatched again until every finding has a score.
NextStageUntilAllScored ==
  /\ phase = "kickoff"
  /\ queue = {} /\ completed = {}
  /\ IF stage = "risk" /\ target \subseteq Work.done["risk"]
       THEN /\ phase' = "tot"
            /\ queue' = {f \in target : IsContested(Work, f)}
            /\ UNCHANGED stage
       ELSE /\ phase' = "dispatch"
            /\ stage' = IF stage = "research" THEN "environment" ELSE "risk"
            /\ UNCHANGED queue
  /\ UNCHANGED <<outside, state, target, completed, called>>

\* Every output is resolved; after Risk, _dispatch_tot takes the contested ones.
NextStage ==
  /\ phase = "kickoff"
  /\ queue = {} /\ completed = {}
  /\ IF stage = "risk"
       THEN /\ phase' = "tot"
            /\ queue' = {f \in target : IsContested(Work, f)}
            /\ UNCHANGED stage
       ELSE /\ phase' = "dispatch"
            /\ stage' = IF stage = "research" THEN "environment" ELSE "risk"
            /\ UNCHANGED queue
  /\ UNCHANGED <<outside, state, target, completed, called>>

-----------------------------------------------------------------------------
(* _dispatch_tot: one search per contested finding, in the same RunState.  *)

SearchDone(f, dict) ==
  /\ phase = "tot"
  /\ f \in queue
  /\ state' = IF dict = "done"
                THEN [state EXCEPT ![Slot].done["tot"] = @ \cup {f}]
                ELSE [state EXCEPT ![Slot].failed["tot"] = @ \cup {f}]
  /\ queue' = queue \ {f}
  /\ UNCHANGED <<outside, phase, stage, target, completed, called>>

\* The end of replan.
EndReplan ==
  /\ phase = "tot"
  /\ queue = {}
  /\ Replanning
  /\ phase' = "recording"
  /\ UNCHANGED <<outside, state, stage, target, queue, completed, called>>

\* The end of run: run_agents_pipeline commits the new plan, its last act.
Commit ==
  /\ phase = "tot"
  /\ queue = {}
  /\ ~ Replanning
  /\ state' = [state EXCEPT !["current"] = state["fresh"], !["fresh"] = NoState]
  /\ phase' = IF kind = "constraint_submit" THEN "interpreting" ELSE "exporting"
  /\ target' = {}
  /\ UNCHANGED <<outside, stage, queue, completed, called>>

\* Mutant of Raise: the new coordinator was assigned before it ran.
RaiseKeepingFresh ==
  /\ \/ phase = "dispatch"
     \/ phase = "kickoff" /\ queue = {} /\ completed # {}
     \/ phase = "tot" /\ queue # {}
     \/ phase = "recording"
  /\ state' = IF state["fresh"] = NoState
                THEN state
                ELSE [current |-> state["fresh"], fresh |-> NoState]
  /\ EndJob
  /\ UNCHANGED <<constraint, export, started>>

\* An exception nothing below the handler catches: a retried kickoff, a ToT
\* crew, a database error while tools are built.  A state under construction is
\* dropped; a re-plan stays as far as it got.
Raise ==
  /\ \/ phase = "dispatch"
     \/ phase = "kickoff" /\ queue = {} /\ completed # {}
     \/ phase = "tot" /\ queue # {}
     \/ phase = "recording"
  /\ state' = [state EXCEPT !["fresh"] = NoState]
  /\ EndJob
  /\ UNCHANGED <<constraint, export, started>>

-----------------------------------------------------------------------------
(* submit_constraint and the rest of the handlers.                         *)

\* A refusal, an unresolved asset, a group preview, or an interpreter failure.
NothingToApply ==
  /\ phase = "interpreting"
  /\ EndJob
  /\ UNCHANGED <<constraint, state, export, started>>

\* _submit_capacity_constraint: allocates outside the plan, then exports it.
SubmitCapacity ==
  /\ phase = "interpreting"
  /\ phase' = "exporting"
  /\ UNCHANGED <<outside, state, stage, target, queue, completed, called>>

\* add_constraint, then replan of the affected findings, from Environment on.
SubmitAsset(c, affected) ==
  /\ phase = "interpreting"
  /\ constraint[c] = "new"
  /\ affected # {} /\ affected \subseteq Scope[c]
  /\ constraint' = [constraint EXCEPT ![c] = "active"]
  /\ submitted' = {c}
  /\ target' = affected
  /\ stage' = "environment"
  /\ phase' = "dispatch"
  /\ UNCHANGED <<state, kind, queue, completed, called, export, started>>

\* record_run, record_decision, record_feedback.
RecordDecisions ==
  /\ phase = "recording"
  /\ phase' = "exporting"
  /\ UNCHANGED <<outside, state, stage, target, queue, completed, called>>

\* _agents_finding_entry and _contested_entry, read off the plan.  (The score's
\* decomposition, which is computed anew from the table, is left out.)
RowOf(s, f) ==
  [applied |-> s.applied[f],
   contested |-> CASE f \in s.done["tot"] -> "resolved"
                   [] f \in s.failed["tot"] \ s.done["tot"] -> "failed"
                   [] OTHER -> "no"]

WriteExport ==
  /\ phase = "exporting"
  /\ export' = [f \in state["current"].done["risk"] |-> RowOf(state["current"], f)]
  /\ EndJob
  /\ UNCHANGED <<constraint, state, started>>

\* An OSError: run_agents fails, constraint_submit succeeds with a warning.
ExportFails ==
  /\ phase = "exporting"
  /\ EndJob
  /\ UNCHANGED <<constraint, state, export, started>>

-----------------------------------------------------------------------------
(* The constraints table has other writers.                                *)

\* `rhino constraint add` in another process.
AddElsewhere(c) ==
  /\ constraint[c] = "new"
  /\ constraint' = [constraint EXCEPT ![c] = "active"]
  /\ UNCHANGED <<state, dispatchVars, export>>

\* POST /api/constraints/{id}/retract, or `rhino constraint retract`.
Retract(c) ==
  /\ constraint[c] = "active"
  /\ constraint' = [constraint EXCEPT ![c] = "retracted"]
  /\ UNCHANGED <<state, dispatchVars, export>>

-----------------------------------------------------------------------------
Resolve(f) == Accept(f) \/ GiveUp(f)
Search(f) == \E dict \in {"done", "failed"} : SearchDone(f, dict)
Finish == WriteExport \/ ExportFails

Dispatch ==
  \/ BeginStage \/ ResearchToolsFail \/ KickoffFails \/ NextStage \/ Raise
  \/ \E f \in Findings : RunTask(f) \/ Retry(f) \/ Resolve(f) \/ Search(f)

Handler ==
  \/ EndReplan \/ Commit \/ NothingToApply \/ SubmitCapacity \/ RecordDecisions \/ Finish
  \/ \E c \in Constraints, affected \in SUBSET Findings : SubmitAsset(c, affected)

Next ==
  \/ \E k \in Kinds \ {"none"} : StartJob(k)
  \/ Dispatch
  \/ Handler
  \/ \E c \in Constraints : AddElsewhere(c) \/ Retract(c)

\* The job's thread keeps running, and a crew's attempts are bounded, so no
\* output is retried for ever.  Users' submissions and retractions are not fair.
WorkerStep ==
  \/ BeginStage \/ NextStage \/ KickoffFails
  \/ \E f \in Findings : RunTask(f) \/ Resolve(f) \/ Search(f)
  \/ EndReplan \/ Commit \/ NothingToApply \/ SubmitCapacity \/ RecordDecisions \/ Finish

Fairness == WF_vars(WorkerStep)

Spec == Init /\ [][Next]_vars /\ Fairness

-----------------------------------------------------------------------------
(* Properties.                                                             *)

Accounted(s, f) == f \in s.done["risk"] \cup s.failed["risk"]

\* When the Risk stage is over, every finding of the dispatch has a result or a
\* recorded failure, whichever stage, task or attempt went wrong for it.
EveryTargetIsAccounted == phase = "tot" => \A f \in target : Accounted(Work, f)

\* A finding that has a recommendation after a dispatch also has the research
\* and environment results that _dispatch_tot and the delta loop index by its id.
EvidenceIsThere ==
  phase \in {"tot", "recording"} =>
    target \cap Work.done["risk"] \subseteq Work.done["research"] \cap Work.done["environment"]

\* A re-plan that succeeds leaves no affected finding with a score from before
\* the constraint: it has one with the constraint folded in, or none at all.
\* (A constraint retracted meanwhile no longer counts.)  The code leaves one way out:
\* an agent that does not call the tool in the re-plan and repeats the score of the last
\* call before it is believed.
ReplanIsFresh ==
  Replanning /\ phase \in {"recording", "exporting"} =>
    \A c \in submitted, f \in target \cap Work.done["risk"] :
      c \in Work.applied[f] \/ constraint[c] = "retracted" \/ f \notin called

\* Two RunStates say the same of a finding.
Agree(s, t, f) ==
  /\ \A st \in StagesAndTot :
       /\ f \in s.done[st] <=> f \in t.done[st]
       /\ f \in s.failed[st] <=> f \in t.failed[st]
  /\ s.applied[f] = t.applied[f]

\* The current plan changes in two ways: a re-plan touches its own targets, and
\* a run replaces it by a plan that accounts for every finding.  A failed run
\* never leaves a half-built plan behind.
PlanIsReplacedWhole ==
  [][state'["current"] # state["current"] =>
       IF Replanning
         THEN \A f \in Findings \ target : Agree(state'["current"], state["current"], f)
         ELSE \A f \in Findings : Accounted(state'["current"], f)]_vars

\* Every job comes to an end and gives the slot back.
EveryJobEnds == phase # "idle" ~> phase = "idle"

\* Coordinator's "recorded and skipped" rule for the plan later jobs export: a
\* finding without a recommendation has a recorded failure.  The code breaks it:
\* a retried kickoff may raise after the earlier results were dropped.
NoFindingVanishes ==
  phase = "idle" /\ state["current"] # NoState =>
    \A f \in Findings : Accounted(state["current"], f)
=============================================================================
