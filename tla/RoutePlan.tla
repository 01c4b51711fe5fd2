----------------------------- MODULE RoutePlan -----------------------------
(***************************************************************************)
(* Per-step approval of a Router plan (web/route.py) on top of the job     *)
(* registry.  HTTP request threads approve and edit the steps of one plan, *)
(* polls (GET /api/route/{id}) copy finished jobs into the steps, and the  *)
(* registry's single slot is shared with jobs POSTed to /api/jobs.         *)
(*                                                                         *)
(* Only claim_step holds the plan's lock.  Every other access to a step is *)
(* unlocked, so a request is several steps here, cut where another thread  *)
(* can come between: after the approval flag is set, the claim, the        *)
(* creation of the job, the moment before the flag is taken back, the test *)
(* before an edit, and a poll's test, its registry.get and the status it   *)
(* writes.  A step's result and error, written after its status, are read  *)
(* by no other step and are left out.                                      *)
(***************************************************************************)
EXTENDS JobStore

CONSTANTS
  Ops,          \* the plan: for each step whether it is "sync" or job-backed ("job")
  Requests,     \* threads that serve approve and edit requests
  Editors,      \* those of them that edit
  Pollers,      \* threads that serve GET /api/route/{id}
  MaxEdits      \* bound: no edit begins once a step has been edited this often

ASSUME PlanAssumption == Ops \in Seq({"sync", "job"})
ASSUME EditorAssumption == Editors \subseteq Requests

VARIABLES
  step,         \* the RouteSteps of the plan
  origin,       \* the step a job was dispatched for (0: POST /api/jobs)
  request,      \* where each request thread is, with its step and its job
  poll,         \* where each poll is, with the step and the Job it looks at
  overrun       \* history: an edit or a poll wrote over a step that moved on after its test

planVars == <<registryVars, step, origin, request, poll, overrun>>

Steps == DOMAIN Ops
NoStep == 0

StepRecord == [approved : BOOLEAN,
               status : {"pending", "running", "succeeded", "failed"},
               job : Jobs \cup {NoJob},
               params : Nat]

RequestRecord == [pc : {"idle", "approved", "claimed", "created", "unapproving", "editing"},
                  step : Steps \cup {NoStep},
                  job : Jobs \cup {NoJob}]

PollRecord == [pc : {"idle", "testing", "looking", "missing"},
               step : Steps \cup {NoStep},
               job : Jobs \cup {NoJob}]

PlanTypeOK ==
  /\ RegistryTypes
  /\ step \in [Steps -> StepRecord]
  /\ origin \in [Jobs -> Steps \cup {NoStep}]
  /\ request \in [Requests -> RequestRecord]
  /\ poll \in [Pollers -> PollRecord]
  /\ overrun \in BOOLEAN

Idle == [pc |-> "idle", step |-> NoStep, job |-> NoJob]

PlanInit ==
  /\ RegistryInit
  /\ step = [i \in Steps |-> [approved |-> FALSE, status |-> "pending", job |-> NoJob,
                              params |-> 0]]
  /\ origin = [j \in Jobs |-> NoStep]
  /\ request = [r \in Requests |-> Idle]
  /\ poll = [p \in Pollers |-> Idle]
  /\ overrun = FALSE

At(r, pc, i) == request[r].pc = pc /\ request[r].step = i
Goto(r, pc) == request' = [request EXCEPT ![r].pc = pc]
Return(r) == request' = [request EXCEPT ![r] = Idle]

-----------------------------------------------------------------------------
(* POST .../steps/{index}/approve.                                         *)

\* approve_step: the flag is set before anything is checked.
Approve(r, i) ==
  /\ request[r].pc = "idle"
  /\ step' = [step EXCEPT ![i].approved = TRUE]
  /\ request' = [request EXCEPT ![r] = [Idle EXCEPT !.pc = "approved", !.step = i]]
  /\ UNCHANGED <<registryVars, origin, poll, overrun>>

\* Mutant of MayRun: the earlier steps are not looked at.
MayRunInAnyOrder(i) == step[i].status = "pending" /\ step[i].approved

\* assert_step_approved.
MayRun(i) ==
  /\ \A k \in 1..(i - 1) : step[k].status = "succeeded"
  /\ step[i].status = "pending"
  /\ step[i].approved

\* The except branch: the approval is taken back, in a later step, if the plan's step
\* is still pending.
Refuse(r, i) == IF step[i].status = "pending" THEN Goto(r, "unapproving") ELSE Return(r)

\* Mutant of Claim: claim_step checks and leaves the status to the dispatch.
ClaimWithoutMarking(r, i) ==
  /\ At(r, "approved", i)
  /\ IF MayRun(i) THEN Goto(r, "claimed") ELSE Refuse(r, i)
  /\ UNCHANGED <<registryVars, step, origin, poll, overrun>>

\* claim_step, under plan.lock.
Claim(r, i) ==
  /\ At(r, "approved", i)
  /\ IF MayRun(i)
       THEN step' = [step EXCEPT ![i].status = "running"] /\ Goto(r, "claimed")
       ELSE Refuse(r, i) /\ UNCHANGED step
  /\ UNCHANGED <<registryVars, origin, poll, overrun>>

\* A synchronous step runs to its end; a job-backed one may fail validation.
ExecuteInline(r, i) ==
  /\ At(r, "claimed", i)
  /\ \E st \in IF Ops[i] = "sync" THEN {"succeeded", "failed"} ELSE {"failed"} :
       step' = [step EXCEPT ![i].status = st]
  /\ Return(r)
  /\ UNCHANGED <<registryVars, origin, poll, overrun>>

CreateJob(r, i, j) ==
  /\ At(r, "claimed", i)
  /\ Ops[i] = "job"
  /\ CreateAndStart(j)
  /\ origin' = [origin EXCEPT ![j] = i]
  /\ request' = [request EXCEPT ![r].pc = "created", ![r].job = j]
  /\ UNCHANGED <<step, poll, overrun>>

\* create_and_start returned None: the step goes back to pending and loses its approval.
SlotTaken(r, i) ==
  /\ At(r, "claimed", i)
  /\ Ops[i] = "job"
  /\ lock = NoJob
  /\ runningJobId # NoJob
  /\ step' = [step EXCEPT ![i].status = "pending"]
  /\ Goto(r, "unapproving")
  /\ UNCHANGED <<registryVars, origin, poll, overrun>>

\* Thread(...).start() has run (StartThread below); the step learns its job's id.
LinkJob(r, i) ==
  /\ At(r, "created", i)
  /\ worker[request[r].job] # "claimed"
  /\ step' = [step EXCEPT ![i].job = request[r].job]
  /\ Return(r)
  /\ UNCHANGED <<registryVars, origin, poll, overrun>>

Unapprove(r, i) ==
  /\ At(r, "unapproving", i)
  /\ step' = [step EXCEPT ![i].approved = FALSE]
  /\ Return(r)
  /\ UNCHANGED <<registryVars, origin, poll, overrun>>

-----------------------------------------------------------------------------
(* POST .../steps/{index}: edit_step tests the status, then writes.        *)

TestEditable(r, i) ==
  /\ r \in Editors
  /\ request[r].pc = "idle"
  /\ step[i].status \in {"pending", "failed"}
  /\ \A k \in Steps : step[k].params < MaxEdits
  /\ request' = [request EXCEPT ![r] = [Idle EXCEPT !.pc = "editing", !.step = i]]
  /\ UNCHANGED <<registryVars, step, origin, poll, overrun>>

Edited(s) == [s EXCEPT !.approved = FALSE, !.status = "pending", !.job = NoJob,
                       !.params = @ + 1]

WriteEdit(r, i) ==
  /\ At(r, "editing", i)
  /\ step' = [k \in Steps |->
                CASE k < i -> step[k]
                  [] k = i -> Edited(step[k])
                  [] k > i -> [step[k] EXCEPT !.approved = FALSE]]
  /\ Return(r)
  /\ overrun' = (overrun \/ step[i].status \notin {"pending", "failed"})
  /\ UNCHANGED <<registryVars, origin, poll>>

-----------------------------------------------------------------------------
(* GET /api/route/{id}: _sync_step_from_job.  The handler is synchronous,  *)
(* so FastAPI runs polls on several threads.                               *)

\* The step moved on between a poll's test of it and the status the poll writes: it is
\* no longer waiting for the job that was looked up, or it recorded that job's success.
MovedOn(p) ==
  LET s == step[poll[p].step] IN
    \/ poll[p].job = NoJob
    \/ s.job # poll[p].job
    \/ poll[p].pc = "missing" /\ s.status = "succeeded"

\* if step.job_id is None or step.status != "running": return
TestRunning(p, i) ==
  /\ poll[p].pc = "idle"
  /\ step[i].job # NoJob /\ step[i].status = "running"
  /\ poll' = [poll EXCEPT ![p] = [Idle EXCEPT !.pc = "testing", !.step = i]]
  /\ UNCHANGED <<registryVars, step, origin, request, overrun>>

\* registry.get(step.job_id), which reads the id again.
GetJob(p) ==
  /\ poll[p].pc = "testing"
  /\ lock = NoJob
  /\ LET j == step[poll[p].step].job IN
       poll' = [poll EXCEPT ![p].pc = IF j \in Range(jobs) THEN "looking" ELSE "missing",
                            ![p].job = j]
  /\ UNCHANGED <<registryVars, step, origin, request, overrun>>

\* Mutant of MarkEvicted: a job that is no longer in the history is left alone.
LeaveEvicted(p) ==
  /\ poll[p].pc = "missing"
  /\ poll' = [poll EXCEPT ![p] = Idle]
  /\ UNCHANGED <<registryVars, step, origin, request, overrun>>

\* A job that left the history makes the step a failure.
MarkEvicted(p) ==
  /\ poll[p].pc = "missing"
  /\ step' = [step EXCEPT ![poll[p].step].status = "failed"]
  /\ overrun' = (overrun \/ MovedOn(p))
  /\ poll' = [poll EXCEPT ![p] = Idle]
  /\ UNCHANGED <<registryVars, origin, request>>

\* Mutant of CopyStatus: the status is copied whatever it is.
CopyStatusAlways(p) ==
  /\ poll[p].pc = "looking"
  /\ step' = [step EXCEPT ![poll[p].step].status = "succeeded"]
  /\ overrun' = (overrun \/ MovedOn(p))
  /\ poll' = [poll EXCEPT ![p] = Idle]
  /\ UNCHANGED <<registryVars, origin, request>>

\* if job.status in (...): step.status = job.status
CopyStatus(p) ==
  /\ poll[p].pc = "looking"
  /\ LET status == job[poll[p].job].status IN
       IF status \in Terminal
         THEN /\ step' = [step EXCEPT ![poll[p].step].status = status]
              /\ overrun' = (overrun \/ MovedOn(p))
         ELSE UNCHANGED <<step, overrun>>
  /\ poll' = [poll EXCEPT ![p] = Idle]
  /\ UNCHANGED <<registryVars, origin, request>>

-----------------------------------------------------------------------------
(* The rest of the process: jobs posted directly, and the job threads.     *)

PostJob(j) ==
  /\ CreateAndStart(j)
  /\ UNCHANGED <<step, origin, request, poll, overrun>>

\* (A stage is looked at by no step of a plan, so SetStage is left out.)
JobThread(j) ==
  /\ \/ StartThread(j)
     \/ \E st \in Terminal : FinishStatus(j, st)
     \/ FinishOutcome(j)
  /\ UNCHANGED <<step, origin, request, poll, overrun>>

Serve(r) ==
  \E i \in Steps :
    \/ Claim(r, i) \/ ExecuteInline(r, i)
    \/ \E j \in Jobs : CreateJob(r, i, j)
    \/ SlotTaken(r, i) \/ LinkJob(r, i)
    \/ Unapprove(r, i) \/ WriteEdit(r, i)

Begin(r) == \E i \in Steps : Approve(r, i) \/ TestEditable(r, i)

Poll(p) ==
  \/ \E i \in Steps : TestRunning(p, i)
  \/ GetJob(p) \/ MarkEvicted(p) \/ CopyStatus(p)

PlanNext ==
  \/ \E r \in Requests : Begin(r) \/ Serve(r)
  \/ \E p \in Pollers : Poll(p)
  \/ \E j \in Jobs : PostJob(j) \/ JobThread(j)

\* Threads that have begun go on, and the page polls while a step is running.
PlanFairness ==
  /\ \A r \in Requests : WF_planVars(Serve(r))
  /\ \A j \in Jobs : WF_planVars(JobThread(j))
  /\ \A p \in Pollers : WF_planVars(Poll(p))

PlanSpec == PlanInit /\ [][PlanNext]_planVars /\ PlanFairness

-----------------------------------------------------------------------------
(* Properties.                                                             *)
(*                                                                         *)
(* edit_step says "a step that already ran, or is running, cannot be       *)
(* edited" and tests the status without the lock that claim_step takes; a  *)
(* poll writes the status of the job it looked up, whatever the step has   *)
(* become.  overrun records that one of them wrote over a step that moved  *)
(* on after its test; the invariants say that nothing else breaks a plan.  *)

\* A step is only ever in flight or over when every earlier step has succeeded.
StepsRunInOrder ==
  ~overrun =>
    \A i \in Steps : step[i].status \in {"running", "succeeded"} =>
      \A k \in 1..(i - 1) : step[k].status = "succeeded"

\* What is executing step i: request threads that claimed it, and handlers of its
\* jobs.  (A poll reads a status while finish is still writing, so a job in
\* finish may overlap the next attempt; its handler has returned by then.)
Executing(i) ==
  {r \in Requests : At(r, "claimed", i)} \cup
  {j \in Jobs : origin[j] = i /\ worker[j] \in {"claimed", "handling"}}

\* A step is executed by one thread at a time, and a claimed step reads "running".
OneExecutionPerStep ==
  ~overrun =>
    \A i \in Steps :
      /\ \A x, y \in Executing(i) : x = y
      /\ (\E r \in Requests : At(r, "claimed", i)) => step[i].status = "running"

\* A step that reports success had its own job succeed.
SuccessIsTheJobs ==
  ~overrun =>
    \A i \in Steps : step[i].status = "succeeded" /\ step[i].job # NoJob =>
      origin[step[i].job] = i /\ job[step[i].job].status = "succeeded"

\* A running step does not stay so: its job ends, and a poll records it even
\* when the job has left the bounded history, or the claim is undone.
StepSettles == \A i \in Steps : step[i].status = "running" ~> step[i].status # "running"
=============================================================================
