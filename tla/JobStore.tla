------------------------------ MODULE JobStore ------------------------------
(***************************************************************************)
(* The class JobRegistry of web/jobs.py and the thread of a job: the       *)
(* bounded, ordered history, the single running slot, the lock, and the    *)
(* steps create_and_start, dispatch_job, set_stage and finish take.  Who   *)
(* calls them is left to the modules that extend this one: JobRegistry,    *)
(* with any dispatcher and the readers of a job, and RoutePlan, with the   *)
(* steps of a Router plan.                                                 *)
(*                                                                         *)
(* create_and_start and set_stage hold the lock for one step each; finish  *)
(* assigns the fields of a Job one after the other while it holds it, and  *)
(* a thread may render the Job without the lock, so each assignment is a   *)
(* step: the status, the fields of the outcome, then the release.          *)
(***************************************************************************)
EXTENDS Naturals, Sequences, Functions

CONSTANTS Jobs,         \* the ids create_and_start may draw (uuid4: never twice)
          Stages,       \* the stage names a handler reports
          Fields,       \* the outcome's fields that are told apart, as finish orders them
          MaxHistory,   \* max_history
          NoJob         \* None, as a job id

OutcomeFields == {"finished_at", "result", "error", "export_written", "export_warning"}

ASSUME HistoryAssumption == MaxHistory \in Nat \ {0}
ASSUME FieldsAssumption == Fields \in Seq(OutcomeFields)
ASSUME IdAssumption == NoJob \notin Jobs

VARIABLES
  jobs,           \* JobRegistry._jobs: the ids in insertion order
  job,            \* the fields of every Job object
  runningJobId,   \* JobRegistry._running_job_id
  lock,           \* the thread inside finish that holds _lock, or NoJob
  worker          \* where each job's background thread is

registryVars == <<jobs, job, runningJobId, lock, worker>>

Terminal == {"succeeded", "failed"}
Statuses == {"absent", "running"} \cup Terminal
Live == {"claimed", "handling", "finishing"}
NoStage == "null"

\* outcome: the fields that hold more than their default; assigned: how many of Fields
\* finish has come past.
JobRecord == [status : Statuses, stage : Stages \cup {NoStage},
              outcome : SUBSET OutcomeFields, assigned : 0..Len(Fields)]

RegistryTypes ==
  /\ jobs \in Seq(Jobs)
  /\ job \in [Jobs -> JobRecord]
  /\ runningJobId \in Jobs \cup {NoJob}
  /\ lock \in Jobs \cup {NoJob}
  /\ worker \in [Jobs -> {"none", "done"} \cup Live]

NewJob == [status |-> "absent", stage |-> NoStage, outcome |-> {}, assigned |-> 0]

RegistryInit ==
  /\ jobs = <<>>
  /\ job = [j \in Jobs |-> NewJob]
  /\ runningJobId = NoJob
  /\ lock = NoJob
  /\ worker = [j \in Jobs |-> "none"]

-----------------------------------------------------------------------------
(* The dispatching request thread.                                         *)

\* Mutant of Evicted: popitem() without last=False drops the newest entry.
EvictedNewest(s) == IF Len(s) > MaxHistory THEN SubSeq(s, 1, MaxHistory) ELSE s

\* The history after an insertion: the oldest entries go until it fits.
Evicted(s) == IF Len(s) > MaxHistory
              THEN SubSeq(s, Len(s) - MaxHistory + 1, Len(s))
              ELSE s

\* Mutant of CreateAndStart: the running slot is not tested under the lock.
CreateAndStartUnguarded(j) ==
  /\ lock = NoJob
  /\ worker[j] = "none"
  /\ job' = [job EXCEPT ![j].status = "running"]
  /\ jobs' = Evicted(Append(jobs, j))
  /\ runningJobId' = j
  /\ worker' = [worker EXCEPT ![j] = "claimed"]
  /\ UNCHANGED lock

\* create_and_start; when a job is running it returns None and changes nothing.
CreateAndStart(j) ==
  /\ lock = NoJob
  /\ runningJobId = NoJob
  /\ worker[j] = "none"
  /\ job' = [job EXCEPT ![j].status = "running"]
  /\ jobs' = Evicted(Append(jobs, j))
  /\ runningJobId' = j
  /\ worker' = [worker EXCEPT ![j] = "claimed"]
  /\ UNCHANGED lock

\* dispatch_job, once the slot is claimed: Thread(...).start().
StartThread(j) ==
  /\ worker[j] = "claimed"
  /\ worker' = [worker EXCEPT ![j] = "handling"]
  /\ UNCHANGED <<jobs, job, runningJobId, lock>>

-----------------------------------------------------------------------------
(* The job's background thread (_execute_job).                             *)

SetStage(j, s) ==
  /\ worker[j] = "handling"
  /\ lock = NoJob
  /\ job' = [job EXCEPT ![j].stage = IF j \in Range(jobs) THEN s ELSE @]
  /\ UNCHANGED <<jobs, runningJobId, lock, worker>>

\* Mutant of FinishStatus: the slot is freed before the outcome is recorded.
FinishStatusFreeingEarly(j, st) ==
  /\ worker[j] = "handling"
  /\ lock = NoJob
  /\ j \in Range(jobs)
  /\ job' = [job EXCEPT ![j].status = st, ![j].assigned = 0]
  /\ lock' = j
  /\ worker' = [worker EXCEPT ![j] = "finishing"]
  /\ runningJobId' = NoJob
  /\ UNCHANGED jobs

\* finish, up to `job.status = status`; an evicted job returns at once.
FinishStatus(j, st) ==
  /\ worker[j] = "handling"
  /\ lock = NoJob
  /\ IF j \in Range(jobs)
       THEN /\ job' = [job EXCEPT ![j].status = st, ![j].assigned = 0]
            /\ lock' = j
            /\ worker' = [worker EXCEPT ![j] = "finishing"]
       ELSE /\ worker' = [worker EXCEPT ![j] = "done"]
            /\ UNCHANGED <<job, lock>>
  /\ UNCHANGED <<jobs, runningJobId>>

\* What _execute_job passes to finish: a result and what became of the export, or an
\* error; the time is finish's own.
Outcomes(st) ==
  IF st = "succeeded"
    THEN {{"finished_at", "result"} \cup export :
           export \in {{}, {"export_written"}, {"export_warning"}}}
    ELSE {{"finished_at", "error"}}

\* finish assigns the next field, its default if no value was passed for it; the values
\* passed are those of one outcome.
FinishField(j) ==
  LET behind == {Fields[i] : i \in 1..job[j].assigned}
      f == Fields[job[j].assigned + 1]
  IN  /\ worker[j] = "finishing"
      /\ job[j].assigned < Len(Fields)
      /\ \E passed \in Outcomes(job[j].status) :
           /\ job[j].outcome \cap behind = passed \cap behind
           /\ job' = [job EXCEPT ![j].outcome = (@ \ {f}) \cup ({f} \cap passed),
                                 ![j].assigned = @ + 1]
      /\ UNCHANGED <<jobs, runningJobId, lock, worker>>

\* Mutant of FinishRelease: _execute_job does not return after an except branch.
FinishReleaseWithoutReturn(j) ==
  /\ worker[j] = "finishing"
  /\ job[j].assigned = Len(Fields)
  /\ runningJobId' = IF runningJobId = j THEN NoJob ELSE runningJobId
  /\ lock' = NoJob
  /\ worker' = [worker EXCEPT ![j] = IF job[j].status = "failed" THEN "handling" ELSE "done"]
  /\ UNCHANGED <<jobs, job>>

\* Mutant of FinishRelease: only a success releases the slot.
FinishReleaseKeepingSlot(j) ==
  /\ worker[j] = "finishing"
  /\ job[j].assigned = Len(Fields)
  /\ runningJobId' = IF job[j].status = "succeeded" THEN NoJob ELSE runningJobId
  /\ lock' = NoJob
  /\ worker' = [worker EXCEPT ![j] = "done"]
  /\ UNCHANGED <<jobs, job>>

\* The end of finish: it frees the slot, releases the lock and the thread ends.
FinishRelease(j) ==
  /\ worker[j] = "finishing"
  /\ job[j].assigned = Len(Fields)
  /\ runningJobId' = IF runningJobId = j THEN NoJob ELSE runningJobId
  /\ lock' = NoJob
  /\ worker' = [worker EXCEPT ![j] = "done"]
  /\ UNCHANGED <<jobs, job>>

\* The rest of finish, once it has written the status.
FinishOutcome(j) == FinishField(j) \/ FinishRelease(j)
=============================================================================
