----------------------------- MODULE JobRegistry -----------------------------
(***************************************************************************)
(* The background jobs of web/jobs.py: HTTP request threads that dispatch  *)
(* jobs to the registry (JobStore) and read them, and one background       *)
(* thread per job.  The job's handler is abstract here: it reports any     *)
(* stages and returns or raises.  PlanSubstrate composes the registry with *)
(* the five real handlers, RoutePlan with the approval of Router plans.    *)
(*                                                                         *)
(* get holds the lock for one step; Job.to_dict reads the fields of a Job  *)
(* one after the other without it, in the order in which finish assigns    *)
(* them, so each read is a step: the status, then the outcome's fields.    *)
(***************************************************************************)
EXTENDS JobStore

CONSTANT Readers      \* HTTP request threads that render a job

VARIABLE reader       \* what each request thread has read of which Job object

vars == <<registryVars, reader>>

\* seen: how many of Fields are read; found: whether the job's thread was through with
\* finish when get returned the job (no variable of the code).
ReaderRecord == [pc : {"idle", "referenced", "reading", "rendered"},
                 id : Jobs \cup {NoJob}, found : {"none", "live", "done"}, seen : 0..Len(Fields),
                 status : Statuses, outcome : SUBSET OutcomeFields]

TypeOK ==
  /\ RegistryTypes
  /\ reader \in [Readers -> ReaderRecord]

IdleReader == [pc |-> "idle", id |-> NoJob, found |-> "none", seen |-> 0,
               status |-> "absent", outcome |-> {}]

Init ==
  /\ RegistryInit
  /\ reader = [r \in Readers |-> IdleReader]

-----------------------------------------------------------------------------
(* GET /api/jobs/{id}: get under the lock, then to_dict without it.  Only  *)
(* the reference is taken under the lock, so eviction does not touch it.   *)

Get(r, j) ==
  /\ reader[r].pc \in {"idle", "rendered"}
  /\ lock = NoJob
  /\ j \in Range(jobs)
  /\ reader' = [reader EXCEPT ![r] =
                  [IdleReader EXCEPT !.pc = "referenced", !.id = j,
                                     !.found = IF worker[j] = "done" THEN "done" ELSE "live"]]

ToDictStatus(r) ==
  /\ reader[r].pc = "referenced"
  /\ reader' = [reader EXCEPT ![r].pc = "reading", ![r].status = job[reader[r].id].status]

ToDictField(r) ==
  LET o == reader[r]
      f == Fields[o.seen + 1]
  IN  /\ o.pc = "reading"
      /\ o.seen < Len(Fields)
      /\ reader' = [reader EXCEPT ![r].seen = @ + 1,
                                  ![r].outcome = @ \cup ({f} \cap job[o.id].outcome)]

\* The dict is built: it is the response.
Respond(r) ==
  /\ reader[r].pc = "reading"
  /\ reader[r].seen = Len(Fields)
  /\ reader' = [reader EXCEPT ![r].pc = "rendered"]

-----------------------------------------------------------------------------
Dispatch(j) == (CreateAndStart(j) \/ StartThread(j)) /\ UNCHANGED reader

WorkerStep(j) ==
  /\ \/ \E s \in Stages : SetStage(j, s)
     \/ \E st \in Terminal : FinishStatus(j, st)
     \/ FinishOutcome(j)
  /\ UNCHANGED reader

Read(r) ==
  /\ \/ \E j \in Jobs : Get(r, j)
     \/ ToDictStatus(r)
     \/ ToDictField(r)
     \/ Respond(r)
  /\ UNCHANGED registryVars

Next ==
  \/ \E j \in Jobs : Dispatch(j) \/ WorkerStep(j)
  \/ \E r \in Readers : Read(r)

\* A handler may report stages for ever; that it does return or raise is the
\* assumption on it.  Submission is a client's choice and is not fair.
Fairness ==
  \A j \in Jobs :
    /\ WF_vars(StartThread(j) /\ UNCHANGED reader)
    /\ WF_vars((\E st \in Terminal : FinishStatus(j, st)) /\ UNCHANGED reader)
    /\ WF_vars(FinishOutcome(j) /\ UNCHANGED reader)

Spec == Init /\ [][Next]_vars /\ Fairness

-----------------------------------------------------------------------------
(* Properties.                                                             *)

\* The slot names exactly the job whose thread is dispatched and has not left
\* finish: no thread runs without the slot, no slot outlives its thread.
SlotIsLiveWorker ==
  \A j \in Jobs : worker[j] \in Live <=> runningJobId = j

\* The running job is in the bounded history, so finish finds it and frees the
\* slot (finish returns early, slot held, for a job that was evicted).
RunningJobIsRetained == runningJobId # NoJob => runningJobId \in Range(jobs)

\* What finish has written of a job stays: its status once it is terminal, every field
\* of the outcome once it has a value, and the whole record once finish is through.
RecordedOutcomeIsFinal ==
  [][\A j \in Jobs :
       /\ job[j].status \in Terminal => job'[j].status = job[j].status
       /\ job[j].outcome \subseteq job'[j].outcome
       /\ worker[j] = "done" => job'[j] = job[j]]_vars

\* A claimed slot is released: one stuck job would refuse every later one.
SlotIsEventuallyFreed == runningJobId # NoJob ~> runningJobId = NoJob

\* The registry implements the abstract promise.
Abstract == INSTANCE SingleFlight WITH
              active <- runningJobId,
              finished <- {j \in Jobs : worker[j] = "done"}
ImplementsSingleFlight == Abstract!Spec

\* to_dict reads the live job without the lock, so a response may be torn: a terminal
\* status without its outcome, "running" with a result, a result without its export.
\* Still every value it carries is the job's for good, even after eviction; a result is a
\* succeeded job's and an error a failed one's; and once finish was through before the
\* request found the job, the response is whole.
ResponseOutcomeIsTheJobs ==
  \A r \in Readers :
    LET response == reader[r]
        theJob == job[response.id]
    IN  response.pc = "rendered" =>
          /\ response.status \in {"running", theJob.status}
          /\ response.outcome \subseteq theJob.outcome
          /\ "result" \in response.outcome => theJob.status = "succeeded"
          /\ "error" \in response.outcome => theJob.status = "failed"
          /\ response.found = "done" => /\ response.status = theJob.status
                                        /\ response.outcome = theJob.outcome
=============================================================================
