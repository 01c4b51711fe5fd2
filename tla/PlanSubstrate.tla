--------------------------- MODULE PlanSubstrate ---------------------------
(***************************************************************************)
(* The five job handlers of web/jobs.py over the registry: what they read  *)
(* and write besides the registry is the current plan (PlanState, in       *)
(* memory) and three things on disk, the ingest contracts, the export file *)
(* and the tables of memory.py.  A job's steps are cut where it reads or   *)
(* writes one of them.  Contracts are also written by `rhino adapt` in     *)
(* another process and by the web confirm route, at any moment; the server *)
(* may be restarted at any moment, which loses the plan and every job.     *)
(*                                                                         *)
(* A contract is its revision, a fresh number per proposal: what a         *)
(* signature covers.  What a run computes is abstract (Coordinator models  *)
(* the pipeline), except which contract revision its mapping came from.    *)
(***************************************************************************)
EXTENDS Naturals, Sequences, Functions

CONSTANTS
  Jobs, NoJob, MaxHistory,  \* as in JobStore
  Uploads,                  \* uploads, each with the contract file of its format
  Native,                   \* a source with a built-in format: no contract
  Findings,
  FindingsOf,               \* the findings each source holds
  NoPlan,                   \* None, as the current plan or the export
  Processes,                \* `rhino adapt` processes and web confirm requests
  MaxRevisions              \* bound: how many contract revisions are written

Sources == Uploads \cup {Native}

ASSUME SourceAssumption == Native \notin Uploads
ASSUME FindingsAssumption == FindingsOf \in [Sources -> SUBSET Findings]
ASSUME RevisionAssumption == MaxRevisions \in Nat

VARIABLES
  jobs, job, runningJobId, lock, worker,    \* the registry
  task,         \* the local variables of each job's handler
  plan,         \* PlanState: the source of the current plan and its revision
  contract,     \* data/adapters/<format>.json
  provenance,   \* rows of the provisional_provenance table
  marked,       \* findings with a row in remediation_events
  export,       \* the export file the read routes serve
  cli,          \* what each of the Processes is at, and the revision it read
  written,      \* how many revisions were written
  signed        \* history: the revisions that were ever signed

registryVars == <<jobs, job, runningJobId, lock, worker>>
disk == <<contract, provenance, marked, export, written, signed>>
vars == <<registryVars, task, plan, disk, cli>>

Registry == INSTANCE JobStore WITH Stages <- {}, Fields <- <<>>

Kinds == {"ingest_propose", "run_deterministic", "run_agents", "constraint_submit",
          "remediation_mark"}
Runs == {"run_deterministic", "run_agents"}

\* RERUN_CURRENT_PLAN_SOURCE_REF.
Rerun == "__current_plan__"

Revisions == 0..MaxRevisions

Task == [kind : Kinds \cup {"none"},
         source : Sources \cup {Rerun},
         overwrite : BOOLEAN,               \* input.overwrite_confirmed
         finding : Findings \cup {"none"},
         pc : {"idle", "start", "proposing", "resolving", "loading", "running",
               "recording", "submitting", "marking", "exporting", "returned"},
         revision : Revisions,              \* of the contract behind the run
         provisional : BOOLEAN,
         found : SUBSET Findings,           \* the findings that were scored
         result : {"none"} \cup Registry!Terminal]

Plan == [source : Sources, revision : Revisions]
Export == [source : Sources, revision : Revisions, provisional : BOOLEAN,
           found : SUBSET Findings]

ASSUME NoPlanAssumption == NoPlan \notin Plan

TypeOK ==
  /\ Registry!RegistryTypes
  /\ task \in [Jobs -> Task]
  /\ plan \in Plan \cup {NoPlan}
  /\ contract \in [Uploads -> [state : {"none", "proposed", "confirmed"}, revision : Revisions]]
  /\ provenance \subseteq Findings \X Uploads
  /\ marked \subseteq Findings
  /\ export \in Export \cup {NoPlan}
  /\ cli \in [Processes -> [doing : {"nothing", "proposing", "confirming"},
                           upload : Uploads \cup {Native}, revision : Revisions]]
  /\ written \in Revisions
  /\ signed \subseteq Uploads \X Revisions

NoTask == [kind |-> "none", source |-> Native, overwrite |-> FALSE, finding |-> "none",
           pc |-> "idle", revision |-> 0, provisional |-> FALSE, found |-> {},
           result |-> "none"]
NoCommand == [doing |-> "nothing", upload |-> Native, revision |-> 0]

Init ==
  /\ Registry!RegistryInit
  /\ task = [j \in Jobs |-> NoTask]
  /\ plan = NoPlan
  /\ contract = [u \in Uploads |-> [state |-> "none", revision |-> 0]]
  /\ provenance = {}
  /\ marked = {}
  /\ export = NoPlan
  /\ cli = [p \in Processes |-> NoCommand]
  /\ written = 0
  /\ signed = {}

At(j, pc) == worker[j] = "handling" /\ task[j].pc = pc
Goto(j, pc) == task' = [task EXCEPT ![j].pc = pc]
Return(j, st) == task' = [task EXCEPT ![j].pc = "returned", ![j].result = st]

IsUpload(s) == s \in Uploads
Signature(s, r) == <<s, r>> \in signed

-----------------------------------------------------------------------------
(* Submission and completion.                                              *)

\* One unused uuid4 is as good as any other.
IsNextId(j) == worker[j] = "none" /\ j = CHOOSE i \in Jobs : worker[i] = "none"

Submit(j, input) ==
  /\ IsNextId(j)
  /\ Registry!CreateAndStart(j)
  /\ task' = [task EXCEPT ![j] = input]
  /\ UNCHANGED <<plan, disk, cli>>

Input(kind, source, finding) ==
  [NoTask EXCEPT !.kind = kind, !.source = source, !.finding = finding, !.pc = "start"]
Overwriting(input) == [input EXCEPT !.overwrite = TRUE]

\* What POST /api/jobs accepts for each kind.
Inputs ==
  {Input("ingest_propose", u, "none") : u \in Uploads} \cup
  {Overwriting(Input("ingest_propose", u, "none")) : u \in Uploads} \cup
  {Input(k, s, "none") : k \in Runs, s \in Sources} \cup
  {Input("run_agents", Rerun, "none"), Input("constraint_submit", Native, "none")} \cup
  {Input("remediation_mark", Native, f) : f \in Findings}

\* Any exception of a handler is caught by _execute_job.
Fail(j) ==
  /\ worker[j] = "handling"
  /\ task[j].pc \notin {"idle", "returned"}
  /\ Return(j, "failed")
  /\ UNCHANGED <<registryVars, plan, disk, cli>>

\* The thread's start, and finish, the last thing it does (its locals are gone).
Thread(j) ==
  /\ \/ Registry!StartThread(j) /\ UNCHANGED task
     \/ /\ At(j, "returned")
        /\ Registry!FinishStatus(j, task[j].result)
        /\ task' = [task EXCEPT ![j] = NoTask]
     \/ Registry!FinishOutcome(j) /\ UNCHANGED task
  /\ UNCHANGED <<plan, disk, cli>>

-----------------------------------------------------------------------------
(* ingest_propose.  `rhino adapt propose` does the same in its own process. *)

\* The refusal to re-propose over a signature.
MayPropose(u, overwrite) == contract[u].state # "confirmed" \/ overwrite

\* write_contract.
WriteProposal(u) ==
  /\ written < MaxRevisions
  /\ written' = written + 1
  /\ contract' = [contract EXCEPT ![u] = [state |-> "proposed", revision |-> written']]
  /\ UNCHANGED <<provenance, marked, export, signed>>

CheckProposal(j) ==
  /\ At(j, "start") /\ task[j].kind = "ingest_propose"
  /\ IF MayPropose(task[j].source, task[j].overwrite)
       THEN Goto(j, "proposing")
       ELSE Return(j, "failed")
  /\ UNCHANGED <<registryVars, plan, disk, cli>>

\* The model answered; a complete or a provisional contract is written.
Propose(j) ==
  /\ At(j, "proposing")
  /\ WriteProposal(task[j].source)
  /\ Return(j, "succeeded")
  /\ UNCHANGED <<registryVars, plan, cli>>

\* Neither could be assembled: the job succeeds and reports what is missing.
ProposeIncomplete(j) ==
  /\ At(j, "proposing")
  /\ Return(j, "succeeded")
  /\ UNCHANGED <<registryVars, plan, disk, cli>>

-----------------------------------------------------------------------------
(* Runs: resolve the source, score it, record provenance, export.          *)

\* _resolve_provisional: an unsigned contract is read here and nowhere else.
ResolveProvisional(j) ==
  /\ At(j, "start") /\ task[j].kind \in Runs
  /\ LET s == task[j].source IN
     IF s = Rerun
       THEN IF plan = NoPlan
              THEN Return(j, "failed")
              ELSE task' = [task EXCEPT ![j].source = plan.source, ![j].pc = "loading"]
       ELSE IF IsUpload(s) /\ contract[s].state = "proposed"
              THEN task' = [task EXCEPT ![j].revision = contract[s].revision,
                                        ![j].provisional = TRUE, ![j].pc = "running"]
              ELSE Goto(j, "resolving")
  /\ UNCHANGED <<registryVars, plan, disk, cli>>

\* resolve_source_ref: what is not signed by now is refused.
ResolveSource(j) ==
  /\ At(j, "resolving")
  /\ IF IsUpload(task[j].source) => contract[task[j].source].state = "confirmed"
       THEN Goto(j, "loading")
       ELSE Return(j, "failed")
  /\ UNCHANGED <<registryVars, plan, disk, cli>>

\* Mutant of Load: assert_confirmed is left to resolve_source_ref.
LoadUnchecked(j) ==
  /\ At(j, "loading")
  /\ LET s == task[j].source IN
       task' = [task EXCEPT ![j].revision = IF IsUpload(s) THEN contract[s].revision ELSE 0,
                            ![j].pc = "running"]
  /\ UNCHANGED <<registryVars, plan, disk, cli>>

\* load_config_adapter, which reads the file again and asserts its signature.
Load(j) ==
  /\ At(j, "loading")
  /\ LET s == task[j].source IN
     IF ~ IsUpload(s)
       THEN Goto(j, "running")
       ELSE IF contract[s].state = "confirmed"
              THEN task' = [task EXCEPT ![j].revision = contract[s].revision,
                                        ![j].pc = "running"]
              ELSE Return(j, "failed")
  /\ UNCHANGED <<registryVars, plan, disk, cli>>

\* Whether the run is one that run_agents_pipeline commits.
Commits(t) == t.kind # "run_deterministic" /\ ~ t.provisional

\* Mutant of AfterRun: the export is written first, the provenance after it.
AfterRunExportFirst(t) ==
  IF t.kind = "constraint_submit" THEN "submitting" ELSE "exporting"

AfterRun(t) ==
  IF t.kind = "constraint_submit" THEN "submitting"
  ELSE IF t.provisional THEN "recording" ELSE "exporting"

\* The deterministic loop scores every finding, the agents those they could.
MayScore(t, fs) ==
  IF t.kind = "run_deterministic" THEN fs = FindingsOf[t.source]
                                  ELSE fs \subseteq FindingsOf[t.source]

\* The run is over; a signed agent run becomes the plan.
Run(j, fs) ==
  /\ At(j, "running")
  /\ MayScore(task[j], fs)
  /\ task' = [task EXCEPT ![j].found = fs, ![j].pc = AfterRun(task[j])]
  /\ plan' = IF Commits(task[j])
               THEN [source |-> task[j].source, revision |-> task[j].revision]
               ELSE plan
  /\ UNCHANGED <<registryVars, disk, cli>>

RecordProvenance(j) ==
  /\ At(j, "recording")
  /\ provenance' = provenance \cup (task[j].found \X {task[j].source})
  /\ Goto(j, "exporting")
  /\ UNCHANGED <<registryVars, plan, contract, marked, export, written, signed, cli>>

Exported(t) ==
  [source |-> t.source, revision |-> t.revision, provisional |-> t.provisional,
   found |-> t.found]

WriteExport(j) ==
  /\ At(j, "exporting")
  /\ export' = Exported(task[j])
  /\ Return(j, "succeeded")
  /\ UNCHANGED <<registryVars, plan, contract, provenance, marked, written, signed, cli>>

-----------------------------------------------------------------------------
(* constraint_submit.                                                      *)

\* seed(): without a plan, the server's startup source is run first.
Seed(j) ==
  /\ At(j, "start") /\ task[j].kind = "constraint_submit"
  /\ Goto(j, IF plan = NoPlan THEN "loading" ELSE "submitting")
  /\ UNCHANGED <<registryVars, plan, disk, cli>>

\* submit_constraint persisted something and re-planned the current plan...
Replan(j, fs) ==
  /\ At(j, "submitting")
  /\ fs \subseteq FindingsOf[plan.source]
  /\ task' = [task EXCEPT ![j].source = plan.source, ![j].revision = plan.revision,
                          ![j].found = fs, ![j].pc = "exporting"]
  /\ UNCHANGED <<registryVars, plan, disk, cli>>

\* ... or refused.  After a re-plan an export that cannot be written is a warning.
SubmitWithoutExport(j) ==
  /\ task[j].kind = "constraint_submit"
  /\ At(j, "submitting") \/ At(j, "exporting")
  /\ Return(j, "succeeded")
  /\ UNCHANGED <<registryVars, plan, disk, cli>>

-----------------------------------------------------------------------------
(* remediation_mark.                                                       *)

Formats(f) == {u \in Uploads : <<f, u>> \in provenance}

\* Mutant of MayMark: one signed format vouches for the others.
MayMarkIfAnySigned(f) ==
  Formats(f) # {} => \E u \in Formats(f) : contract[u].state = "confirmed"

\* _provisional_provenance_refusal.
MayMark(f) == \A u \in Formats(f) : contract[u].state = "confirmed"

CheckMark(j) ==
  /\ At(j, "start") /\ task[j].kind = "remediation_mark"
  /\ IF MayMark(task[j].finding) THEN Goto(j, "marking") ELSE Return(j, "failed")
  /\ UNCHANGED <<registryVars, plan, disk, cli>>

Mark(j) ==
  /\ At(j, "marking")
  /\ marked' = marked \cup {task[j].finding}
  /\ Return(j, "succeeded")
  /\ UNCHANGED <<registryVars, plan, contract, provenance, export, written, signed, cli>>

-----------------------------------------------------------------------------
(* Contracts signed and proposed outside the job slot: the web confirm     *)
(* route, `rhino adapt confirm` and `rhino adapt propose`.  Each reads the *)
(* file, works for seconds or minutes, and writes what it made of it.      *)

BeginCommand(p, u, doing) ==
  /\ cli[p].doing = "nothing"
  /\ IF doing = "proposing" THEN MayPropose(u, FALSE) ELSE contract[u].state = "proposed"
  /\ cli' = [cli EXCEPT ![p] = [doing |-> doing, upload |-> u,
       revision |-> IF doing = "confirming" THEN contract[u].revision ELSE 0]]
  /\ UNCHANGED <<registryVars, task, plan, disk>>

\* review_contract's last act: the revision it read goes back signed.
Sign(p) ==
  /\ cli[p].doing = "confirming"
  /\ LET u == cli[p].upload
         r == cli[p].revision
     IN /\ contract' = [contract EXCEPT ![u] = [state |-> "confirmed", revision |-> r]]
        /\ signed' = signed \cup {<<u, r>>}
  /\ cli' = [cli EXCEPT ![p] = NoCommand]
  /\ UNCHANGED <<registryVars, task, plan, provenance, marked, export, written>>

ProposeElsewhere(p) ==
  /\ cli[p].doing = "proposing"
  /\ WriteProposal(cli[p].upload)
  /\ cli' = [cli EXCEPT ![p] = NoCommand]
  /\ UNCHANGED <<registryVars, task, plan>>

AbandonCommand(p) ==
  /\ cli[p].doing # "nothing"
  /\ cli' = [cli EXCEPT ![p] = NoCommand]
  /\ UNCHANGED <<registryVars, task, plan, disk>>

\* The server process is killed and started again.
Restart ==
  /\ jobs' = << >>
  /\ job' = [j \in Jobs |-> Registry!NewJob]
  /\ runningJobId' = NoJob
  /\ lock' = NoJob
  /\ worker' = [j \in Jobs |-> IF worker[j] = "none" THEN "none" ELSE "done"]
  /\ task' = [j \in Jobs |-> NoTask]
  /\ plan' = NoPlan
  /\ UNCHANGED <<disk, cli>>

-----------------------------------------------------------------------------
HandlerStep(j) ==
  \/ CheckProposal(j) \/ Propose(j) \/ ProposeIncomplete(j)
  \/ ResolveProvisional(j) \/ ResolveSource(j) \/ Load(j)
  \/ \E fs \in SUBSET Findings : Run(j, fs) \/ Replan(j, fs)
  \/ RecordProvenance(j) \/ WriteExport(j)
  \/ Seed(j) \/ SubmitWithoutExport(j)
  \/ CheckMark(j) \/ Mark(j)
  \/ Fail(j)

Command(p) ==
  \/ \E u \in Uploads, doing \in {"proposing", "confirming"} : BeginCommand(p, u, doing)
  \/ Sign(p) \/ ProposeElsewhere(p) \/ AbandonCommand(p)

Next ==
  \/ \E j \in Jobs : (\E input \in Inputs : Submit(j, input)) \/ HandlerStep(j) \/ Thread(j)
  \/ \E p \in Processes : Command(p)
  \/ Restart

Spec == Init /\ [][Next]_vars

-----------------------------------------------------------------------------
(* Properties.                                                             *)

\* What passes for signed rests on a mapping a human has signed, whatever was
\* re-proposed since the source was resolved: the plan that constraints are
\* persisted against, and an export that does not call itself provisional.
UnsignedIsNeverPassedOff ==
  /\ plan # NoPlan /\ IsUpload(plan.source) => Signature(plan.source, plan.revision)
  /\ export # NoPlan /\ IsUpload(export.source) /\ ~ export.provisional =>
       Signature(export.source, export.revision)

\* A finding never becomes visible in a provisional export before the record
\* that guards it is on disk, even if the server dies between the two writes.
ProvenancePrecedesExport ==
  export # NoPlan /\ export.provisional =>
    \A f \in export.found : <<f, export.source>> \in provenance

\* A mark passes the gate only if no unsigned contract stands behind the
\* provisional export that shows the finding.
ShownFindingIsGated ==
  [][\A j \in Jobs :
       (task'[j].pc = "marking" /\ task[j].pc # "marking"
        /\ export # NoPlan /\ export.provisional /\ task[j].finding \in export.found)
       => contract[export.source].state = "confirmed"]_vars
=============================================================================
