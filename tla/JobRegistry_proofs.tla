-------------------------- MODULE JobRegistry_proofs --------------------------
(***************************************************************************)
(* What holds of the job registry for every set of jobs, readers and       *)
(* stages and every history bound of at least one: the slot is owned by    *)
(* the one live worker, the running job is never evicted, the lock is held *)
(* by a finishing worker only, what finish wrote of a job is final, and a  *)
(* response holds nothing else, field by field.                            *)
(*                                                                         *)
(* The second half is about RoutePlan, which runs on the same registry:    *)
(* its theorems need what the first half shows of the registry's steps.    *)
(***************************************************************************)
EXTENDS JobRegistry, RoutePlan, TLAPS

\* The lock is held between the steps of finish, by that job's thread.
LockIsFinishing == \A j \in Jobs : lock = j <=> worker[j] = "finishing"

\* The fields among the first n.
FirstFields(n) == {Fields[i] : i \in 1..n}

\* How far a job's record has come follows from where its thread is, and it holds the
\* values of one outcome, as far as finish has come.
RecordFollowsWorker ==
  \A j \in Jobs :
    /\ worker[j] = "none" =>
         job[j].status = "absent" /\ job[j].outcome = {} /\ job[j].assigned = 0
    /\ worker[j] \in {"claimed", "handling"} =>
         job[j].status = "running" /\ job[j].outcome = {} /\ job[j].assigned = 0
    /\ worker[j] \in {"finishing", "done"} => job[j].status \in Terminal
    /\ worker[j] = "done" => job[j].assigned = Len(Fields)
    /\ job[j].outcome \subseteq FirstFields(job[j].assigned)
    /\ "result" \in job[j].outcome => job[j].status = "succeeded"
    /\ "error" \in job[j].outcome => job[j].status = "failed"

HistoryHasStarted == \A j \in Range(jobs) : worker[j] # "none"

\* The registry's part of the inductive invariants: no reader, no client.
RegistryInv ==
  /\ RegistryTypes
  /\ SlotIsLiveWorker
  /\ RunningJobIsRetained
  /\ LockIsFinishing
  /\ RecordFollowsWorker
  /\ HistoryHasStarted

\* A thread that is rendering a job holds a reference to one.
ReaderHoldsJob ==
  \A r \in Readers : reader[r].pc \in {"referenced", "reading"} => reader[r].id \in Jobs

\* The inductive invariant.
IInv ==
  /\ RegistryInv
  /\ reader \in [Readers -> ReaderRecord]
  /\ ReaderHoldsJob

\* An insertion keeps the history a sequence of ids and always keeps the entry
\* just inserted, because the bound is at least one.
LEMMA EvictionKeepsNewest ==
  ASSUME NEW s \in Seq(Jobs), NEW j \in Jobs
  PROVE  /\ Evicted(Append(s, j)) \in Seq(Jobs)
         /\ j \in Range(Evicted(Append(s, j)))
<1> DEFINE t == Append(s, j)
<1>1. t \in Seq(Jobs) /\ Len(t) \in Nat \ {0} /\ t[Len(t)] = j
  OBVIOUS
<1>2. CASE Len(t) <= MaxHistory
  <2>1. Evicted(t) = t
    BY <1>1, <1>2, HistoryAssumption DEF Evicted
  <2>2. Len(t) \in DOMAIN t
    BY <1>1
  <2> QED
    BY <1>1, <2>1, <2>2 DEF Range
<1>3. CASE Len(t) > MaxHistory
  <2> DEFINE u == SubSeq(t, Len(t) - MaxHistory + 1, Len(t))
  <2>1. Evicted(t) = u
    BY <1>1, <1>3, HistoryAssumption DEF Evicted
  <2>2. u \in Seq(Jobs) /\ Len(u) = MaxHistory
    BY <1>1, <1>3, HistoryAssumption
  <2>3. MaxHistory \in DOMAIN u /\ u[MaxHistory] = j
    BY <1>1, <1>3, <2>2, HistoryAssumption
  <2> QED
    BY <2>1, <2>2, <2>3 DEF Range
<1> QED
  BY <1>1, <1>2, <1>3, HistoryAssumption

\* Insertion and eviction bring nothing into the history but the new job.
LEMMA EvictionAddsNothing ==
  ASSUME NEW s \in Seq(Jobs), NEW j \in Jobs
  PROVE  Range(Evicted(Append(s, j))) \subseteq Range(s) \cup {j}
<1> DEFINE t == Append(s, j)
<1>1. t \in Seq(Jobs) /\ Len(t) = Len(s) + 1 /\ Len(s) \in Nat
  OBVIOUS
<1>2. \A i \in 1..Len(t) : t[i] \in Range(s) \cup {j}
  BY DEF Range
<1>3. \A i \in DOMAIN Evicted(t) : \E k \in 1..Len(t) : Evicted(t)[i] = t[k]
  <2>1. CASE Len(t) <= MaxHistory
    <3>1. Evicted(t) = t
      BY <1>1, <2>1, HistoryAssumption DEF Evicted
    <3>2. DOMAIN t = 1..Len(t)
      BY <1>1
    <3> QED
      BY <3>1, <3>2
  <2>2. CASE Len(t) > MaxHistory
    <3> DEFINE u == SubSeq(t, Len(t) - MaxHistory + 1, Len(t))
    <3>1. Evicted(t) = u
      BY <1>1, <2>2, HistoryAssumption DEF Evicted
    <3>2. DOMAIN u = 1..MaxHistory
      BY <1>1, <2>2, HistoryAssumption
    <3>3. \A i \in 1..MaxHistory :
            /\ i + Len(t) - MaxHistory \in 1..Len(t)
            /\ u[i] = t[i + Len(t) - MaxHistory]
      BY <1>1, <2>2, HistoryAssumption
    <3> QED
      BY <3>1, <3>2, <3>3
  <2> QED
    BY <1>1, <2>1, <2>2, HistoryAssumption
<1> QED
  BY <1>2, <1>3 DEF Range

LEMMA NoFieldYet == 0 \in 0..Len(Fields)
BY FieldsAssumption

LEMMA HistoryHoldsJobs == RegistryTypes => Range(jobs) \subseteq Jobs
BY DEF RegistryTypes, Range

LEMMA InitEstablishesRegistryInv == RegistryInit => RegistryInv
BY IdAssumption, FieldsAssumption
DEF RegistryInit, RegistryInv, RegistryTypes, SlotIsLiveWorker, RunningJobIsRetained,
    LockIsFinishing, RecordFollowsWorker, HistoryHasStarted, JobRecord, NewJob, Statuses,
    Terminal, Live, NoStage, Range

LEMMA CreateAndStartPreservesRegistryInv ==
  ASSUME RegistryInv, NEW j \in Jobs, CreateAndStart(j)
  PROVE  RegistryInv'
<1> USE DEF RegistryInv
<1>1. RegistryTypes'
  BY EvictionKeepsNewest
  DEF RegistryTypes, CreateAndStart, JobRecord, Statuses, Terminal, Live
<1>2. SlotIsLiveWorker'
  BY IdAssumption DEF RegistryTypes, SlotIsLiveWorker, CreateAndStart, Live
<1>3. RunningJobIsRetained'
  BY EvictionKeepsNewest DEF RegistryTypes, RunningJobIsRetained, CreateAndStart
<1>4. LockIsFinishing'
  BY IdAssumption DEF RegistryTypes, LockIsFinishing, CreateAndStart
<1>5. RecordFollowsWorker'
  BY DEF RegistryTypes, RecordFollowsWorker, CreateAndStart, JobRecord, Terminal
<1>6. HistoryHasStarted'
  BY EvictionAddsNothing DEF RegistryTypes, CreateAndStart, HistoryHasStarted
<1> QED
  BY <1>1, <1>2, <1>3, <1>4, <1>5, <1>6

LEMMA StartThreadPreservesRegistryInv ==
  ASSUME RegistryInv, NEW j \in Jobs, StartThread(j)
  PROVE  RegistryInv'
BY IdAssumption
DEF RegistryInv, RegistryTypes, SlotIsLiveWorker, RunningJobIsRetained, LockIsFinishing,
    RecordFollowsWorker, HistoryHasStarted, StartThread, Live

LEMMA SetStagePreservesRegistryInv ==
  ASSUME RegistryInv, NEW j \in Jobs, NEW s \in Stages, SetStage(j, s)
  PROVE  RegistryInv'
<1> USE DEF RegistryInv, SetStage
<1>1. RegistryTypes'
  BY DEF RegistryTypes, JobRecord
<1>2. RecordFollowsWorker'
  BY DEF RegistryTypes, RecordFollowsWorker, JobRecord
<1> QED
  BY <1>1, <1>2 DEF SlotIsLiveWorker, RunningJobIsRetained, LockIsFinishing, HistoryHasStarted

\* finish always finds its job: the running job is in the history.
LEMMA FinishFindsItsJob ==
  ASSUME RegistryInv, NEW j \in Jobs, worker[j] \in Live
  PROVE  j \in Range(jobs)
BY IdAssumption DEF RegistryInv, SlotIsLiveWorker, RunningJobIsRetained

LEMMA FinishStatusPreservesRegistryInv ==
  ASSUME RegistryInv, NEW j \in Jobs, NEW st \in Terminal, FinishStatus(j, st)
  PROVE  RegistryInv'
<1> USE DEF RegistryInv, FinishStatus
<1>1. j \in Range(jobs)
  BY FinishFindsItsJob DEF Live
<1>2. RegistryTypes'
  <2>1. job[j] \in JobRecord /\ job' = [job EXCEPT ![j].status = st, ![j].assigned = 0]
    BY <1>1 DEF RegistryTypes
  <2>2. job'[j] = [status |-> st, stage |-> job[j].stage, outcome |-> job[j].outcome,
                   assigned |-> 0]
    BY <2>1 DEF RegistryTypes, JobRecord
  <2>3. job'[j] \in JobRecord
    <3>1. /\ st \in Statuses /\ job[j].stage \in Stages \cup {NoStage}
          /\ job[j].outcome \subseteq OutcomeFields
      BY <2>1 DEF JobRecord, Statuses
    <3> QED
      BY <2>2, <3>1, NoFieldYet DEF JobRecord
  <2>4. job' \in [Jobs -> JobRecord]
    BY <2>1, <2>3 DEF RegistryTypes
  <2> QED
    BY <1>1, <2>4 DEF RegistryTypes, Live
<1>3. SlotIsLiveWorker' /\ RunningJobIsRetained'
  BY <1>1 DEF RegistryTypes, SlotIsLiveWorker, RunningJobIsRetained, Live
<1>4. LockIsFinishing'
  BY <1>1, IdAssumption DEF RegistryTypes, LockIsFinishing
<1>5. RecordFollowsWorker'
  BY <1>1 DEF RegistryTypes, RecordFollowsWorker, JobRecord
<1>6. HistoryHasStarted'
  BY <1>1, HistoryHoldsJobs DEF RegistryTypes, HistoryHasStarted
<1> QED
  BY <1>2, <1>3, <1>4, <1>5, <1>6

\* An outcome holds a result of a success or the error of a failure.
LEMMA OutcomeFits ==
  ASSUME NEW st \in Terminal, NEW passed \in Outcomes(st)
  PROVE  /\ "result" \in passed => st = "succeeded"
         /\ "error" \in passed => st = "failed"
<1>1. CASE st = "succeeded"
  <2>1. "error" \notin passed
    BY <1>1 DEF Outcomes
  <2> QED BY <1>1, <2>1
<1>2. CASE st = "failed"
  <2>1. passed = {"finished_at", "error"}
    BY <1>2 DEF Outcomes
  <2> QED BY <1>2, <2>1
<1> QED BY <1>1, <1>2 DEF Terminal

\* An assignment of finish changes its own job's outcome, by its field, and takes nothing
\* back: what was assigned before is of the same outcome.
LEMMA FinishFieldEffect ==
  ASSUME RegistryInv, NEW j \in Jobs, FinishField(j)
  PROVE  /\ UNCHANGED <<jobs, runningJobId, lock, worker>>
         /\ worker[j] = "finishing"
         /\ job' \in [Jobs -> JobRecord]
         /\ \A k \in Jobs \ {j} : job'[k] = job[k]
         /\ job'[j].status = job[j].status
         /\ job[j].outcome \subseteq job'[j].outcome
         /\ RecordFollowsWorker'
<1> DEFINE o == job[j]
           f == Fields[o.assigned + 1]
           behind == {Fields[i] : i \in 1..o.assigned}
<1> USE DEF RegistryInv, RegistryTypes
<1>1. /\ UNCHANGED <<jobs, runningJobId, lock, worker>>
      /\ worker[j] = "finishing" /\ o.assigned < Len(Fields)
  BY DEF FinishField
<1>2. PICK passed \in Outcomes(o.status) :
        /\ o.outcome \cap behind = passed \cap behind
        /\ job' = [job EXCEPT ![j].outcome = (o.outcome \ {f}) \cup ({f} \cap passed),
                              ![j].assigned = o.assigned + 1]
  BY DEF FinishField
<1>3. o \in JobRecord /\ o.status \in Terminal /\ o.outcome \subseteq behind
  BY <1>1 DEF RecordFollowsWorker, FirstFields
<1>4. o.assigned + 1 \in 1..Len(Fields) /\ f \in OutcomeFields /\ o.assigned \in Nat
  BY <1>1, <1>3, FieldsAssumption DEF JobRecord
<1> DEFINE n == (o.outcome \ {f}) \cup ({f} \cap passed)
<1>5. /\ job'[j].outcome = n /\ job'[j].assigned = o.assigned + 1
      /\ job'[j].status = o.status
      /\ \A k \in Jobs \ {j} : job'[k] = job[k]
  BY <1>2, <1>3 DEF JobRecord
<1>6. job' \in [Jobs -> JobRecord]
  <2>1. n \subseteq OutcomeFields
    BY <1>3, <1>4 DEF JobRecord
  <2>2. job'[j] = [status |-> o.status, stage |-> o.stage, outcome |-> n,
                   assigned |-> o.assigned + 1]
    BY <1>2, <1>3 DEF JobRecord
  <2>3. job'[j] \in JobRecord
    BY <1>3, <1>4, <2>1, <2>2 DEF JobRecord
  <2>4. job' = [k \in Jobs |-> job'[k]]
    BY <1>2
  <2> QED
    BY <1>5, <2>3, <2>4
<1>7. o.outcome \subseteq n
  BY <1>2, <1>3
<1>8. n \subseteq FirstFields(o.assigned + 1)
  <2>1. behind \subseteq FirstFields(o.assigned + 1)
    BY <1>4 DEF FirstFields
  <2>2. f \in FirstFields(o.assigned + 1)
    BY <1>4 DEF FirstFields
  <2> QED
    BY <1>3, <2>1, <2>2
<1>9. /\ "result" \in n => o.status = "succeeded"
      /\ "error" \in n => o.status = "failed"
  <2>1. /\ "result" \in passed => o.status = "succeeded"
        /\ "error" \in passed => o.status = "failed"
    BY <1>2, <1>3, OutcomeFits
  <2>2. /\ "result" \in o.outcome => o.status = "succeeded"
        /\ "error" \in o.outcome => o.status = "failed"
    BY DEF RecordFollowsWorker
  <2> QED
    BY <2>1, <2>2
<1>10. RecordFollowsWorker'
  BY <1>1, <1>3, <1>5, <1>8, <1>9 DEF RecordFollowsWorker
<1> QED
  BY <1>1, <1>5, <1>6, <1>7, <1>10

LEMMA FinishOutcomePreservesRegistryInv ==
  ASSUME RegistryInv, NEW j \in Jobs, FinishOutcome(j)
  PROVE  RegistryInv'
<1> USE DEF RegistryInv
<1>1. CASE FinishField(j)
  <2>1. /\ UNCHANGED <<jobs, runningJobId, lock, worker>>
        /\ job' \in [Jobs -> JobRecord] /\ RecordFollowsWorker'
    BY <1>1, FinishFieldEffect
  <2>2. RegistryTypes'
    BY <2>1 DEF RegistryTypes
  <2> QED
    BY <2>1, <2>2 DEF SlotIsLiveWorker, RunningJobIsRetained, LockIsFinishing, HistoryHasStarted
<1>2. CASE FinishRelease(j)
  <2> USE DEF FinishRelease
  <2>1. runningJobId = j /\ lock = j
    BY <1>2 DEF SlotIsLiveWorker, LockIsFinishing, Live
  <2>2. RegistryTypes'
    BY <1>2 DEF RegistryTypes
  <2>3. SlotIsLiveWorker' /\ RunningJobIsRetained'
    BY <1>2, <2>1, IdAssumption DEF RegistryTypes, SlotIsLiveWorker, RunningJobIsRetained, Live
  <2>4. LockIsFinishing'
    BY <1>2, <2>1, IdAssumption DEF RegistryTypes, LockIsFinishing
  <2>5. RecordFollowsWorker'
    BY <1>2 DEF RegistryTypes, RecordFollowsWorker
  <2>6. HistoryHasStarted'
    BY <1>2, HistoryHoldsJobs DEF RegistryTypes, HistoryHasStarted
  <2> QED
    BY <1>2, <2>2, <2>3, <2>4, <2>5, <2>6
<1> QED
  BY <1>1, <1>2 DEF FinishOutcome

LEMMA IdleRegistryPreservesRegistryInv ==
  ASSUME RegistryInv, UNCHANGED registryVars
  PROVE  RegistryInv'
BY DEF RegistryInv, RegistryTypes, SlotIsLiveWorker, RunningJobIsRetained, LockIsFinishing,
       RecordFollowsWorker, HistoryHasStarted, registryVars

-----------------------------------------------------------------------------
LEMMA InitEstablishesIInv == Init => IInv
BY InitEstablishesRegistryInv, FieldsAssumption
DEF Init, IInv, ReaderHoldsJob, ReaderRecord, IdleReader, Statuses, Live

LEMMA ReadPreservesIInv ==
  ASSUME IInv, NEW r \in Readers, Read(r)
  PROVE  IInv'
<1> USE DEF IInv, RegistryInv, RegistryTypes, Read, registryVars
<1>1. PICK w \in ReaderRecord :
        /\ reader' = [reader EXCEPT ![r] = w]
        /\ w.pc \in {"referenced", "reading"} => w.id \in Jobs
  <2>1. CASE \E j \in Jobs : Get(r, j)
    <3>1. PICK j \in Jobs : Get(r, j)
      BY <2>1
    <3> DEFINE found == IF worker[j] = "done" THEN "done" ELSE "live"
               w == [IdleReader EXCEPT !.pc = "referenced", !.id = j, !.found = found]
    <3>2. w \in ReaderRecord /\ w.id \in Jobs
      <4>1. IdleReader \in ReaderRecord
        BY NoFieldYet DEF IdleReader, ReaderRecord, Statuses
      <4>2. found \in {"none", "live", "done"}
        OBVIOUS
      <4> QED
        BY <4>1, <4>2 DEF ReaderRecord
    <3>3. reader' = [reader EXCEPT ![r] = w]
      BY <3>1 DEF Get
    <3> QED
      BY <3>2, <3>3
  <2>2. CASE ToDictStatus(r)
    <3> DEFINE o == reader[r]
               w == [o EXCEPT !.pc = "reading", !.status = job[o.id].status]
    <3>1. o \in ReaderRecord /\ o.id \in Jobs
      BY <2>2 DEF TypeOK, ToDictStatus, ReaderHoldsJob
    <3>2. job[o.id].status \in Statuses
      BY <3>1 DEF TypeOK, JobRecord
    <3>3. w \in ReaderRecord /\ w.id \in Jobs
      BY <3>1, <3>2 DEF ReaderRecord
    <3>4. reader' = [reader EXCEPT ![r] = w]
      BY <2>2 DEF ToDictStatus
    <3> QED
      BY <3>3, <3>4
  <2>3. CASE ToDictField(r)
    <3> DEFINE o == reader[r]
               f == Fields[o.seen + 1]
               w == [o EXCEPT !.seen = o.seen + 1,
                              !.outcome = o.outcome \cup ({f} \cap job[o.id].outcome)]
    <3>1. o \in ReaderRecord /\ o.id \in Jobs /\ o.seen < Len(Fields)
      BY <2>3 DEF ToDictField, ReaderHoldsJob
    <3>2. job[o.id].outcome \subseteq OutcomeFields
      BY <3>1 DEF JobRecord
    <3>3. o.seen + 1 \in 0..Len(Fields)
      BY <3>1, FieldsAssumption DEF ReaderRecord
    <3>4. w \in ReaderRecord /\ w.id \in Jobs
      BY <3>1, <3>2, <3>3 DEF ReaderRecord
    <3>5. reader' = [reader EXCEPT ![r] = w]
      BY <2>3 DEF ToDictField
    <3> QED
      BY <3>4, <3>5
  <2>4. CASE Respond(r)
    <3> DEFINE w == [reader[r] EXCEPT !.pc = "rendered"]
    <3>1. w \in ReaderRecord
      BY DEF ReaderRecord
    <3>2. reader' = [reader EXCEPT ![r] = w]
      BY <2>4 DEF Respond
    <3> QED
      BY <3>1, <3>2 DEF ReaderRecord
  <2> QED
    BY <2>1, <2>2, <2>3, <2>4
<1>2. (reader \in [Readers -> ReaderRecord])'
  BY <1>1
<1>3. ReaderHoldsJob'
  BY <1>1 DEF ReaderHoldsJob
<1>4. RegistryInv'
  BY IdleRegistryPreservesRegistryInv
<1> QED
  BY <1>2, <1>3, <1>4

LEMMA DispatchPreservesIInv ==
  ASSUME IInv, NEW j \in Jobs, Dispatch(j)
  PROVE  IInv'
<1>1. RegistryInv'
  BY CreateAndStartPreservesRegistryInv, StartThreadPreservesRegistryInv DEF IInv, Dispatch
<1> QED
  BY <1>1 DEF IInv, Dispatch, ReaderHoldsJob

LEMMA WorkerPreservesIInv ==
  ASSUME IInv, NEW j \in Jobs, WorkerStep(j)
  PROVE  IInv'
<1>1. RegistryInv'
  BY SetStagePreservesRegistryInv, FinishStatusPreservesRegistryInv,
     FinishOutcomePreservesRegistryInv
  DEF IInv, WorkerStep
<1> QED
  BY <1>1 DEF IInv, WorkerStep, ReaderHoldsJob

LEMMA NextPreservesIInv == IInv /\ [Next]_vars => IInv'
<1>1. ASSUME IInv, UNCHANGED vars PROVE IInv'
  BY <1>1, IdleRegistryPreservesRegistryInv DEF IInv, ReaderHoldsJob, vars
<1> QED
  BY <1>1, DispatchPreservesIInv, WorkerPreservesIInv, ReadPreservesIInv DEF Next

-----------------------------------------------------------------------------
\* Every reachable state of the registry satisfies the inductive invariant.
THEOREM InductiveInvariant == Spec => []IInv
BY InitEstablishesIInv, NextPreservesIInv, PTL DEF Spec

\* The variables keep their types.
THEOREM TypeCorrect == Spec => []TypeOK
<1>1. IInv => TypeOK
  BY DEF IInv, RegistryInv, RegistryTypes, TypeOK
<1> QED
  BY <1>1, InductiveInvariant, PTL

\* At most one job's thread is live, and it is the one the slot names: two
\* concurrent submissions never both win, whatever the threads' order.
THEOREM SingleRunningJob == Spec => []SlotIsLiveWorker
<1>1. IInv => SlotIsLiveWorker
  BY DEF IInv, RegistryInv
<1> QED
  BY <1>1, InductiveInvariant, PTL

\* What SingleFlight sees of the registry.
Finished == {j \in Jobs : worker[j] = "done"}

\* Whoever calls it, a claim is a Begin of a job that never ran, the end of finish is an
\* End, and every other step of a job's thread is a stutter, in particular that of a
\* finish that does not find its job.
LEMMA StoreStepIsSingleFlight ==
  ASSUME RegistryInv, NEW j \in Jobs,
         \/ CreateAndStart(j) \/ StartThread(j) \/ FinishOutcome(j)
         \/ \E s \in Stages : SetStage(j, s)
         \/ \E st \in Terminal : FinishStatus(j, st)
  PROVE  Abstract!Next \/ UNCHANGED <<runningJobId, Finished>>
<1> USE DEF Finished
<1>1. worker \in [Jobs -> {"none", "done"} \cup Live]
  BY DEF RegistryInv, RegistryTypes
<1>2. CASE CreateAndStart(j)
  <2>1. runningJobId = NoJob /\ runningJobId' = j /\ j \notin Finished /\ Finished' = Finished
    BY <1>1, <1>2 DEF CreateAndStart, Live
  <2> QED BY <2>1 DEF Abstract!Next, Abstract!Begin
<1>3. CASE FinishOutcome(j)
  <2>1. runningJobId = j
    BY <1>3 DEF RegistryInv, SlotIsLiveWorker, FinishOutcome, FinishField, FinishRelease, Live
  <2>2. ASSUME FinishRelease(j)
        PROVE  runningJobId' = NoJob /\ Finished' = Finished \cup {j}
    BY <1>1, <2>1, <2>2 DEF FinishRelease
  <2>3. ASSUME FinishField(j) PROVE UNCHANGED <<runningJobId, Finished>>
    BY <2>3 DEF FinishField
  <2> QED BY <1>3, <2>1, <2>2, <2>3 DEF FinishOutcome, Abstract!Next, Abstract!End
<1>4. CASE \E st \in Terminal : FinishStatus(j, st)
  <2>1. j \in Range(jobs)
    BY <1>4, FinishFindsItsJob DEF FinishStatus, Live
  <2> QED BY <1>1, <1>4, <2>1 DEF FinishStatus
<1>5. CASE StartThread(j)
  BY <1>1, <1>5 DEF StartThread
<1>6. CASE \E s \in Stages : SetStage(j, s)
  BY <1>6 DEF SetStage
<1> QED BY <1>2, <1>3, <1>4, <1>5, <1>6

\* The registry implements the safety part of SingleFlight, with any number of threads
\* that dispatch and read.
THEOREM RegistryIsSingleFlight == Spec => Abstract!Safety
<1>1. Init => Abstract!Init
  BY DEF Init, RegistryInit, Abstract!Init
<1>2. IInv /\ [Next]_vars => [Abstract!Next]_(Abstract!sfVars)
  <2> SUFFICES ASSUME IInv, [Next]_vars
               PROVE  Abstract!Next \/ UNCHANGED <<runningJobId, Finished>>
    BY DEF Abstract!sfVars, Finished
  <2>1. ASSUME NEW j \in Jobs, Dispatch(j) \/ WorkerStep(j)
        PROVE  Abstract!Next \/ UNCHANGED <<runningJobId, Finished>>
    BY <2>1, StoreStepIsSingleFlight DEF IInv, Dispatch, WorkerStep
  <2>2. ASSUME NEW r \in Readers, Read(r) PROVE UNCHANGED <<runningJobId, Finished>>
    BY <2>2 DEF Read, registryVars, Finished
  <2>3. CASE UNCHANGED vars
    BY <2>3 DEF vars, registryVars, Finished
  <2> QED
    BY <2>1, <2>2, <2>3 DEF Next
<1> QED
  BY <1>1, <1>2, InductiveInvariant, PTL DEF Spec, Abstract!Safety

\* The running job is never evicted, for every history bound of at least one.
THEOREM RunningJobNeverEvicted == Spec => []RunningJobIsRetained
<1>1. IInv => RunningJobIsRetained
  BY DEF IInv, RegistryInv
<1> QED
  BY <1>1, InductiveInvariant, PTL

\* A job's thread writes its own job only, and takes neither a terminal status nor a
\* field of the outcome back.
LEMMA WorkerWritesForward ==
  ASSUME RegistryInv, NEW j \in Jobs, WorkerStep(j)
  PROVE  /\ worker[j] \in {"handling", "finishing"}
         /\ worker'[j] \in {"handling", "finishing", "done"}
         /\ \A k \in Jobs \ {j} : job'[k] = job[k] /\ worker'[k] = worker[k]
         /\ job[j].status = "running" \/ job'[j].status = job[j].status
         /\ job[j].outcome \subseteq job'[j].outcome
<1> USE DEF RegistryInv, RegistryTypes
<1>1. CASE \E s \in Stages : SetStage(j, s)
  BY <1>1 DEF SetStage, JobRecord
<1>2. CASE \E st \in Terminal : FinishStatus(j, st)
  <2>1. job[j].status = "running" /\ worker[j] = "handling"
    BY <1>2 DEF FinishStatus, RecordFollowsWorker
  <2>2. job'[j].outcome = job[j].outcome /\ worker'[j] \in {"finishing", "done"}
    BY <1>2 DEF FinishStatus, JobRecord
  <2>3. \A k \in Jobs \ {j} : job'[k] = job[k] /\ worker'[k] = worker[k]
    BY <1>2 DEF FinishStatus
  <2> QED
    BY <2>1, <2>2, <2>3
<1>3. CASE FinishField(j)
  BY <1>3, FinishFieldEffect
<1>4. CASE FinishRelease(j)
  BY <1>4 DEF FinishRelease
<1> QED
  BY <1>1, <1>2, <1>3, <1>4 DEF WorkerStep, FinishOutcome

\* What finish wrote is never taken back, field by field, and once it is through no stage
\* update and no second finish changes the job.
THEOREM OutcomeFinality == Spec => RecordedOutcomeIsFinal
<1> DEFINE Kept == \A j \in Jobs :
                     /\ job[j].status \in Terminal => job'[j].status = job[j].status
                     /\ job[j].outcome \subseteq job'[j].outcome
                     /\ worker[j] = "done" => job'[j] = job[j]
<1>1. IInv /\ [Next]_vars => [Kept]_vars
  <2> SUFFICES ASSUME IInv, Next PROVE Kept
    OBVIOUS
  <2> USE DEF Terminal
  <2>1. ASSUME NEW j \in Jobs, Dispatch(j) PROVE Kept
    <3>1. CASE CreateAndStart(j)
      <4>1. worker[j] = "none" /\ job' = [job EXCEPT ![j].status = "running"]
        BY <3>1 DEF CreateAndStart
      <4>2. job[j].status \notin Terminal
        BY <2>1, <4>1 DEF IInv, RegistryInv, RecordFollowsWorker
      <4> QED
        BY <4>1, <4>2 DEF IInv, RegistryInv, RegistryTypes, JobRecord
    <3>2. CASE StartThread(j)
      BY <3>2 DEF StartThread
    <3> QED
      BY <2>1, <3>1, <3>2 DEF Dispatch
  <2>2. ASSUME NEW j \in Jobs, WorkerStep(j) PROVE Kept
    BY <2>2, WorkerWritesForward DEF IInv
  <2>3. ASSUME NEW r \in Readers, Read(r) PROVE Kept
    BY <2>3 DEF Read, registryVars
  <2> QED
    BY <2>1, <2>2, <2>3 DEF Next
<1> QED
  BY <1>1, InductiveInvariant, PTL DEF Spec, RecordedOutcomeIsFinal

-----------------------------------------------------------------------------
(* Responses.  A job's status goes from running to terminal once, after    *)
(* any reader can have found the job, and its outcome only grows; so what  *)
(* a reader copied is "running" or what the job still says, and a field it *)
(* missed was not yet assigned when it found the job.                      *)

ReaderIsBehindAtMost ==
  \A r \in Readers :
    LET o == reader[r] IN
      /\ o.pc # "idle" => o.id \in Jobs /\ worker[o.id] # "none"
      /\ o.pc = "referenced" => o.outcome = {} /\ o.seen = 0
      /\ o.pc \in {"reading", "rendered"} =>
           /\ o.status \in {"running", job[o.id].status}
           /\ o.outcome \subseteq job[o.id].outcome
      /\ o.pc = "rendered" => o.seen = Len(Fields)

EndedReadersAreWhole ==
  \A r \in Readers :
    LET o == reader[r] IN
      o.pc # "idle" /\ o.found = "done" =>
        /\ worker[o.id] = "done"
        /\ o.pc \in {"reading", "rendered"} =>
             /\ o.status = job[o.id].status
             /\ FirstFields(o.seen) \cap job[o.id].outcome \subseteq o.outcome

ReadersInv == ReaderIsBehindAtMost /\ EndedReadersAreWhole

LEMMA DispatchPreservesReaders ==
  ASSUME IInv, ReadersInv, NEW j \in Jobs, Dispatch(j)
  PROVE  ReadersInv'
<1>1. /\ reader' = reader
      /\ \A k \in Jobs : worker[k] # "none" => job'[k] = job[k] /\ worker'[k] # "none"
      /\ \A k \in Jobs : worker[k] = "done" => worker'[k] = "done"
  BY DEF IInv, RegistryInv, RegistryTypes, Dispatch, CreateAndStart, StartThread
<1>2. ReaderIsBehindAtMost'
  BY <1>1 DEF ReadersInv, ReaderIsBehindAtMost
<1>3. EndedReadersAreWhole'
  BY <1>1 DEF ReadersInv, ReaderIsBehindAtMost, EndedReadersAreWhole
<1> QED
  BY <1>2, <1>3 DEF ReadersInv

LEMMA WorkerPreservesReaders ==
  ASSUME IInv, ReadersInv, NEW j \in Jobs, WorkerStep(j)
  PROVE  ReadersInv'
<1>1. reader' = reader
  BY DEF WorkerStep
<1>2. /\ worker[j] \in {"handling", "finishing"}
      /\ worker'[j] \in {"handling", "finishing", "done"}
      /\ \A k \in Jobs \ {j} : job'[k] = job[k] /\ worker'[k] = worker[k]
      /\ job[j].status = "running" \/ job'[j].status = job[j].status
      /\ job[j].outcome \subseteq job'[j].outcome
  BY WorkerWritesForward DEF IInv
<1>3. ReaderIsBehindAtMost'
  BY <1>1, <1>2 DEF ReadersInv, ReaderIsBehindAtMost
<1>4. EndedReadersAreWhole'
  BY <1>1, <1>2 DEF ReadersInv, ReaderIsBehindAtMost, EndedReadersAreWhole
<1> QED
  BY <1>3, <1>4 DEF ReadersInv

LEMMA ReadPreservesReaders ==
  ASSUME IInv, ReadersInv, NEW r \in Readers, Read(r)
  PROVE  ReadersInv'
<1> USE DEF IInv, RegistryInv, RegistryTypes
<1>1. UNCHANGED registryVars
  BY DEF Read
<1>2. \A q \in Readers \ {r} : reader'[q] = reader[q]
  BY DEF Read, Get, ToDictStatus, ToDictField, Respond
<1> DEFINE o == reader[r]
           n == reader'[r]
<1>3. o \in ReaderRecord
  OBVIOUS
<1>4. /\ n.pc # "idle" => n.id \in Jobs /\ worker[n.id] # "none"
      /\ n.pc = "referenced" => n.outcome = {} /\ n.seen = 0
      /\ n.pc \in {"reading", "rendered"} =>
           /\ n.status \in {"running", job[n.id].status}
           /\ n.outcome \subseteq job[n.id].outcome
      /\ n.pc = "rendered" => n.seen = Len(Fields)
      /\ n.pc # "idle" /\ n.found = "done" =>
           /\ worker[n.id] = "done"
           /\ n.pc \in {"reading", "rendered"} =>
                /\ n.status = job[n.id].status
                /\ FirstFields(n.seen) \cap job[n.id].outcome \subseteq n.outcome
  <2>1. CASE \E j \in Jobs : Get(r, j)
    <3>1. PICK j \in Jobs : Get(r, j)
      BY <2>1
    <3>2. /\ n.pc = "referenced" /\ n.id = j /\ n.found = IF worker[j] = "done" THEN "done" ELSE "live"
          /\ n.outcome = {} /\ n.seen = 0
      BY <3>1 DEF Get, IdleReader
    <3>3. worker[j] # "none"
      BY <3>1 DEF Get, HistoryHasStarted
    <3> QED
      BY <3>2, <3>3
  <2>2. CASE ToDictStatus(r)
    <3>1. /\ o.pc = "referenced" /\ n = [o EXCEPT !.pc = "reading", !.status = job[o.id].status]
      BY <2>2 DEF ToDictStatus
    <3>2. o.outcome = {} /\ o.seen = 0 /\ o.id \in Jobs /\ worker[o.id] # "none"
      BY <3>1 DEF ReadersInv, ReaderIsBehindAtMost
    <3>3. FirstFields(0) = {}
      BY DEF FirstFields
    <3>4. o.found = "done" => worker[o.id] = "done"
      BY <3>1 DEF ReadersInv, EndedReadersAreWhole
    <3> QED
      BY <1>3, <3>1, <3>2, <3>3, <3>4 DEF ReaderRecord
  <2>3. CASE ToDictField(r)
    <3> DEFINE f == Fields[o.seen + 1]
    <3>1. /\ o.pc = "reading"
          /\ n = [o EXCEPT !.seen = o.seen + 1,
                           !.outcome = o.outcome \cup ({f} \cap job[o.id].outcome)]
      BY <2>3 DEF ToDictField
    <3>2. /\ o.id \in Jobs /\ worker[o.id] # "none"
          /\ o.status \in {"running", job[o.id].status}
          /\ o.outcome \subseteq job[o.id].outcome
      BY <3>1 DEF ReadersInv, ReaderIsBehindAtMost
    <3>3. o.found = "done" => /\ worker[o.id] = "done"
                     /\ o.status = job[o.id].status
                     /\ FirstFields(o.seen) \cap job[o.id].outcome \subseteq o.outcome
      BY <3>1 DEF ReadersInv, EndedReadersAreWhole
    <3>4. FirstFields(o.seen + 1) \subseteq FirstFields(o.seen) \cup {f}
      <4>1. o.seen \in Nat
        BY <1>3, FieldsAssumption DEF ReaderRecord
      <4>2. \A i \in 1..(o.seen + 1) : i \in 1..o.seen \/ i = o.seen + 1
        BY <4>1
      <4> QED
        BY <4>2 DEF FirstFields
    <3>5. /\ n.pc = "reading" /\ n.id = o.id /\ n.status = o.status /\ n.found = o.found
          /\ n.seen = o.seen + 1
          /\ n.outcome = o.outcome \cup ({f} \cap job[o.id].outcome)
      BY <1>3, <3>1 DEF ReaderRecord
    <3> HIDE DEF f, n
    <3> QED
      BY <3>2, <3>3, <3>4, <3>5
  <2>4. CASE Respond(r)
    <3>1. o.pc = "reading" /\ o.seen = Len(Fields) /\ n = [o EXCEPT !.pc = "rendered"]
      BY <2>4 DEF Respond
    <3>2. /\ n.pc = "rendered" /\ n.id = o.id /\ n.status = o.status /\ n.found = o.found
          /\ n.seen = o.seen /\ n.outcome = o.outcome
      BY <1>3, <3>1 DEF ReaderRecord
    <3> QED
      BY <3>1, <3>2 DEF ReadersInv, ReaderIsBehindAtMost, EndedReadersAreWhole
  <2> QED
    BY <2>1, <2>2, <2>3, <2>4 DEF Read
<1>5. ReaderIsBehindAtMost'
  BY <1>1, <1>2, <1>4 DEF ReadersInv, ReaderIsBehindAtMost, registryVars
<1>6. EndedReadersAreWhole'
  BY <1>1, <1>2, <1>4 DEF ReadersInv, EndedReadersAreWhole, registryVars
<1> QED
  BY <1>5, <1>6 DEF ReadersInv

LEMMA NextPreservesReaders ==
  IInv /\ ReadersInv /\ [Next]_vars => ReadersInv'
<1>1. ASSUME ReadersInv, UNCHANGED vars PROVE ReadersInv'
  BY <1>1 DEF ReadersInv, ReaderIsBehindAtMost, EndedReadersAreWhole, vars, registryVars
<1> QED
  BY <1>1, DispatchPreservesReaders, WorkerPreservesReaders, ReadPreservesReaders DEF Next

\* A response, however torn, carries nothing but the job's own final values, a result only
\* of a success and an error only of a failure; and it is whole when finish was through
\* before the job was looked up.  For every order in which finish assigns the fields.
THEOREM ResponsesStayTrue == Spec => []ResponseOutcomeIsTheJobs
<1>1. Init => ReadersInv
  BY DEF Init, ReadersInv, ReaderIsBehindAtMost, EndedReadersAreWhole, IdleReader
<1>2. IInv /\ ReadersInv => ResponseOutcomeIsTheJobs
  <2> SUFFICES ASSUME IInv, ReadersInv, NEW r \in Readers, reader[r].pc = "rendered"
               PROVE  LET response == reader[r]
                          theJob == job[response.id]
                      IN  /\ response.status \in {"running", theJob.status}
                          /\ response.outcome \subseteq theJob.outcome
                          /\ "result" \in response.outcome => theJob.status = "succeeded"
                          /\ "error" \in response.outcome => theJob.status = "failed"
                          /\ response.found = "done" => /\ response.status = theJob.status
                                               /\ response.outcome = theJob.outcome
    BY DEF ResponseOutcomeIsTheJobs
  <2>1. /\ reader[r].id \in Jobs /\ reader[r].seen = Len(Fields)
        /\ reader[r].status \in {"running", job[reader[r].id].status}
        /\ reader[r].outcome \subseteq job[reader[r].id].outcome
    BY DEF ReadersInv, ReaderIsBehindAtMost
  <2>2. LET o == job[reader[r].id] IN
          /\ "result" \in o.outcome => o.status = "succeeded"
          /\ "error" \in o.outcome => o.status = "failed"
          /\ worker[reader[r].id] = "done" => o.outcome \subseteq FirstFields(Len(Fields))
    BY <2>1 DEF IInv, RegistryInv, RecordFollowsWorker
  <2>3. reader[r].found = "done" =>
          /\ worker[reader[r].id] = "done"
          /\ reader[r].status = job[reader[r].id].status
          /\ FirstFields(Len(Fields)) \cap job[reader[r].id].outcome \subseteq reader[r].outcome
    BY <2>1 DEF ReadersInv, EndedReadersAreWhole
  <2> QED
    BY <2>1, <2>2, <2>3
<1> QED
  BY <1>1, <1>2, NextPreservesReaders, InductiveInvariant, PTL DEF Spec
-----------------------------------------------------------------------------
(* RoutePlan on this registry.  Every step is written by three kinds of    *)
(* threads, and only the claim is under a lock; what keeps them apart is   *)
(* that the claimant of a step is the only thread to act for a step that   *)
(* reads "running" without a job, and that a job's id is in its step for   *)
(* as long as the job's handler can still be running.                      *)

PlanTypes ==
  /\ step \in [Steps -> StepRecord]
  /\ origin \in [Jobs -> Steps \cup {NoStep}]
  /\ request \in [Requests -> RequestRecord]
  /\ poll \in [Pollers -> PollRecord]
  /\ overrun \in BOOLEAN

\* A job that a step, a request or a poll refers to was created, for that step; a poll
\* that did not find its job will not find it later.
PlanReferences ==
  /\ \A r \in Requests :
       /\ request[r].pc # "idle" => request[r].step \in Steps
       /\ request[r].pc = "created" =>
            /\ request[r].job \in Jobs
            /\ worker[request[r].job] # "none"
            /\ origin[request[r].job] = request[r].step
  /\ \A i \in Steps : step[i].job # NoJob =>
       worker[step[i].job] # "none" /\ origin[step[i].job] = i
  /\ \A p \in Pollers :
       /\ poll[p].pc # "idle" => poll[p].step \in Steps
       /\ poll[p].pc = "looking" => poll[p].job \in Jobs
       /\ poll[p].pc = "missing" => poll[p].job \notin Range(jobs)
       /\ poll[p].job # NoJob => worker[poll[p].job] # "none"
  /\ \A j \in Jobs : origin[j] # NoStep => worker[j] # "none"

\* A step that was ever claimed has every earlier step behind it, and only such a
\* step has a job.
StepsAreOrdered ==
  \A i \in Steps :
    /\ step[i].status # "pending" => \A k \in 1..(i - 1) : step[k].status = "succeeded"
    /\ step[i].status = "pending" => step[i].job = NoJob

\* The request that executes a step, from its claim until the job is linked.
Claimant(r, i) == At(r, "claimed", i) \/ At(r, "created", i)

ClaimantIsAlone ==
  \A r \in Requests, i \in Steps : Claimant(r, i) =>
    /\ step[i].status = "running" /\ step[i].job = NoJob
    /\ \A q \in Requests : Claimant(q, i) => q = r

\* The step that a live handler works for is waiting for that handler's job.
LiveJobIsAwaited ==
  \A j \in Jobs, i \in Steps :
    origin[j] = i /\ worker[j] \in {"claimed", "handling"} =>
      /\ step[i].status = "running"
      /\ step[i].job \in {NoJob, j}
      /\ \A r \in Requests :
           /\ ~At(r, "claimed", i)
           /\ At(r, "created", i) => request[r].job = j

SuccessIsFinal ==
  \A i \in Steps : step[i].status = "succeeded" /\ step[i].job # NoJob =>
    job[step[i].job].status = "succeeded"

PlanOrder ==
  ~overrun => StepsAreOrdered /\ ClaimantIsAlone /\ LiveJobIsAwaited /\ SuccessIsFinal

\* The inductive invariant of RoutePlan.
PlanInv == RegistryInv /\ PlanTypes /\ PlanReferences /\ PlanOrder

\* The steps are numbered from one.
LEMMA StepsAreNumbered ==
  /\ Steps = 1..Len(Ops) /\ Len(Ops) \in Nat
  /\ NoStep \notin Steps
  /\ \A i \in Steps : \A k \in 1..(i - 1) : k \in Steps /\ k # i
<1>1. Ops \in Seq({"sync", "job"})
  BY PlanAssumption
<1>2. Steps = 1..Len(Ops) /\ Len(Ops) \in Nat
  BY <1>1 DEF Steps
<1> QED
  BY <1>2 DEF NoStep

LEMMA InitEstablishesPlanInv ==
  PlanInit => PlanInv
<1> SUFFICES ASSUME PlanInit PROVE PlanInv
  OBVIOUS
<1> USE StepsAreNumbered, IdAssumption DEF PlanInit, Idle
<1>1. RegistryInv
  BY InitEstablishesRegistryInv
<1>2. PlanTypes
  BY DEF PlanTypes, StepRecord, RequestRecord, PollRecord
<1>3. PlanReferences
  BY DEF PlanReferences
<1>4. PlanOrder
  BY DEF PlanOrder, StepsAreOrdered, ClaimantIsAlone, Claimant, LiveJobIsAwaited,
         SuccessIsFinal, At
<1> QED
  BY <1>1, <1>2, <1>3, <1>4 DEF PlanInv

LEMMA ApprovePreservesPlanInv ==
  ASSUME PlanInv, NEW r \in Requests, NEW i \in Steps,
         Approve(r, i)
  PROVE  PlanInv'
<1> USE StepsAreNumbered DEF PlanInv, Approve, Idle, PlanTypes
<1>1. RegistryInv'
  BY IdleRegistryPreservesRegistryInv
<1>2. PlanTypes'
  <2>1. step' \in [Steps -> StepRecord]
    BY DEF StepRecord
  <2>2. request' \in [Requests -> RequestRecord]
    BY DEF RequestRecord
  <2> QED
    BY <2>1, <2>2 DEF registryVars
<1>3. \A k \in Steps : step'[k].status = step[k].status /\ step'[k].job = step[k].job
  BY DEF StepRecord
<1>4. \A q \in Requests, k \in Steps :
        /\ At(q, "claimed", k)' <=> At(q, "claimed", k)
        /\ At(q, "created", k)' <=> At(q, "created", k) /\ q # r
        /\ q # r => request'[q] = request[q]
  BY DEF At, RequestRecord
<1>5. PlanReferences'
  BY <1>3, <1>4 DEF PlanReferences, registryVars, RequestRecord
<1>6. PlanOrder'
  BY <1>3, <1>4
  DEF PlanOrder, StepsAreOrdered, ClaimantIsAlone, Claimant, LiveJobIsAwaited,
      SuccessIsFinal, registryVars
<1> QED
  BY <1>1, <1>2, <1>5, <1>6

\* Request r moves on: no claimant of any step but r's own comes or goes.
LEMMA UnapprovePreservesPlanInv ==
  ASSUME PlanInv, NEW r \in Requests, NEW i \in Steps,
         Unapprove(r, i)
  PROVE  PlanInv'
<1> USE StepsAreNumbered DEF PlanInv, Unapprove, Return, Idle, PlanTypes
<1>1. RegistryInv'
  BY IdleRegistryPreservesRegistryInv
<1>2. PlanTypes'
  <2>1. step' \in [Steps -> StepRecord]
    BY DEF StepRecord
  <2>2. request' \in [Requests -> RequestRecord]
    BY DEF RequestRecord
  <2> QED
    BY <2>1, <2>2 DEF registryVars
<1>3. \A k \in Steps : step'[k].status = step[k].status /\ step'[k].job = step[k].job
  BY DEF StepRecord
<1>4. \A q \in Requests, k \in Steps :
        /\ At(q, "claimed", k)' <=> At(q, "claimed", k)
        /\ At(q, "created", k)' <=> At(q, "created", k) /\ q # r
        /\ q # r => request'[q] = request[q]
  BY DEF At, RequestRecord
<1>5. PlanReferences'
  BY <1>3, <1>4 DEF PlanReferences, registryVars, RequestRecord
<1>6. PlanOrder'
  BY <1>3, <1>4
  DEF PlanOrder, StepsAreOrdered, ClaimantIsAlone, Claimant, LiveJobIsAwaited,
      SuccessIsFinal, registryVars
<1> QED
  BY <1>1, <1>2, <1>5, <1>6

LEMMA TestEditablePreservesPlanInv ==
  ASSUME PlanInv, NEW r \in Requests, NEW i \in Steps,
         TestEditable(r, i)
  PROVE  PlanInv'
<1> USE StepsAreNumbered DEF PlanInv, TestEditable, Idle, PlanTypes
<1>1. RegistryInv'
  BY IdleRegistryPreservesRegistryInv
<1>2. PlanTypes'
  BY DEF RequestRecord
<1>3. \A q \in Requests, k \in Steps :
        /\ At(q, "claimed", k)' <=> At(q, "claimed", k)
        /\ At(q, "created", k)' <=> At(q, "created", k) /\ q # r
        /\ q # r => request'[q] = request[q]
  BY DEF At, RequestRecord
<1>4. PlanReferences'
  BY <1>3 DEF PlanReferences, registryVars, RequestRecord
<1>5. PlanOrder'
  BY <1>3
  DEF PlanOrder, StepsAreOrdered, ClaimantIsAlone, Claimant, LiveJobIsAwaited,
      SuccessIsFinal, registryVars
<1> QED
  BY <1>1, <1>2, <1>4, <1>5

\* A request thread that goes on keeps its step and its job.
LEMMA GotoStep ==
  ASSUME PlanTypes, NEW r \in Requests, Goto(r, "claimed") \/ Goto(r, "unapproving")
  PROVE  /\ request' \in [Requests -> RequestRecord]
         /\ \A q \in Requests :
              /\ request'[q].step = request[q].step /\ request'[q].job = request[q].job
              /\ q # r => request'[q] = request[q]
<1>1. PICK pc \in {"claimed", "unapproving"} : request' = [request EXCEPT ![r].pc = pc]
  BY DEF Goto
<1>2. [request[r] EXCEPT !.pc = pc] \in RequestRecord
  BY <1>1 DEF PlanTypes, RequestRecord
<1> QED
  BY <1>1, <1>2 DEF PlanTypes, RequestRecord

LEMMA ReturnStep ==
  ASSUME PlanTypes, NEW r \in Requests, Return(r)
  PROVE  /\ request' \in [Requests -> RequestRecord]
         /\ request'[r].pc = "idle"
         /\ \A q \in Requests \ {r} : request'[q] = request[q]
BY DEF PlanTypes, Return, Idle, RequestRecord, NoStep

\* A claim takes a pending step, which has no claimant and no live job; a refusal
\* takes nothing.
LEMMA ClaimPreservesPlanInv ==
  ASSUME PlanInv, NEW r \in Requests, NEW i \in Steps,
         Claim(r, i)
  PROVE  PlanInv'
<1>1. RegistryInv'
  BY IdleRegistryPreservesRegistryInv DEF PlanInv, Claim
<1>2. PlanTypes /\ PlanReferences /\ PlanOrder
  BY DEF PlanInv
<1>3. /\ At(r, "approved", i)
      /\ UNCHANGED <<jobs, job, worker, origin, poll, overrun>>
  BY DEF Claim, registryVars
<1>4. CASE MayRun(i)
  <2>1. step' = [step EXCEPT ![i].status = "running"] /\ Goto(r, "claimed")
    BY <1>4 DEF Claim
  <2>2. PlanTypes'
    BY <1>2, <1>3, <2>1, GotoStep DEF PlanTypes, StepRecord
  <2>3. /\ step'[i].status = "running" /\ step'[i].job = step[i].job
        /\ \A k \in Steps \ {i} : step'[k] = step[k]
    BY <1>2, <2>1 DEF PlanTypes, StepRecord
  <2>4. \A q \in Requests, k \in Steps :
          /\ At(q, "claimed", k)' <=> At(q, "claimed", k) \/ (q = r /\ k = i)
          /\ At(q, "created", k)' <=> At(q, "created", k)
          /\ request'[q].job = request[q].job /\ request'[q].step = request[q].step
    BY <1>2, <1>3, <2>1, GotoStep DEF At, Goto, PlanTypes, RequestRecord
  <2>5. PlanReferences'
    BY <1>2, <1>3, <2>1, <2>3, GotoStep
    DEF PlanReferences, At, Goto, PlanTypes, RequestRecord
  <2>6. ASSUME ~overrun
        PROVE  (StepsAreOrdered /\ ClaimantIsAlone /\ LiveJobIsAwaited /\ SuccessIsFinal)'
    <3>1. StepsAreOrdered /\ ClaimantIsAlone /\ LiveJobIsAwaited /\ SuccessIsFinal
      BY <1>2, <2>6 DEF PlanOrder
    <3>2. /\ step[i].status = "pending" /\ step[i].job = NoJob
          /\ \A k \in 1..(i - 1) : step[k].status = "succeeded"
      BY <1>4, <3>1 DEF MayRun, StepsAreOrdered
    <3>3. StepsAreOrdered'
      BY <2>3, <3>1, <3>2, StepsAreNumbered DEF StepsAreOrdered
    <3>4. ClaimantIsAlone'
      BY <2>3, <2>4, <3>1, <3>2 DEF ClaimantIsAlone, Claimant
    <3>5. LiveJobIsAwaited'
      BY <1>3, <2>3, <2>4, <3>1, <3>2 DEF LiveJobIsAwaited
    <3>6. SuccessIsFinal'
      BY <1>3, <2>3, <3>1 DEF SuccessIsFinal
    <3> QED
      BY <3>3, <3>4, <3>5, <3>6
  <2> QED
    BY <1>1, <1>3, <2>2, <2>5, <2>6 DEF PlanInv, PlanOrder
<1>5. CASE ~MayRun(i)
  <2>1. step' = step /\ (Goto(r, "unapproving") \/ Return(r))
    BY <1>5 DEF Claim, Refuse
  <2>2. PlanTypes'
    BY <1>2, <1>3, <2>1, GotoStep, ReturnStep DEF PlanTypes
  <2>3. \A q \in Requests \ {r} : request'[q] = request[q]
    BY <1>2, <2>1, GotoStep, ReturnStep
  <2>4. /\ request'[r].pc \in {"idle", "unapproving"}
        /\ request'[r].pc # "idle" => request'[r].step \in Steps
    BY <1>2, <1>3, <2>1, GotoStep, ReturnStep
    DEF PlanTypes, RequestRecord, At, Goto
  <2>5. \A q \in Requests, k \in Steps :
          /\ At(q, "claimed", k)' <=> At(q, "claimed", k)
          /\ At(q, "created", k)' <=> At(q, "created", k)
          /\ At(q, "created", k) => request'[q].job = request[q].job
    BY <1>3, <2>3, <2>4 DEF At
  <2>6. PlanReferences'
    BY <1>2, <1>3, <2>1, <2>3, <2>4 DEF PlanReferences
  <2>7. PlanOrder'
    BY <1>2, <1>3, <2>1, <2>5
    DEF PlanOrder, StepsAreOrdered, ClaimantIsAlone, Claimant, LiveJobIsAwaited,
        SuccessIsFinal
  <2> QED
    BY <1>1, <2>2, <2>6, <2>7 DEF PlanInv
<1> QED
  BY <1>4, <1>5

\* The claimant of a step ends its attempt before a job exists: nothing is live.
LEMMA EndOfClaimPreservesPlanInv ==
  ASSUME PlanInv, NEW r \in Requests, NEW i \in Steps,
         ExecuteInline(r, i) \/ SlotTaken(r, i)
  PROVE  PlanInv'
<1> USE DEF PlanInv
<1>1. RegistryInv'
  BY IdleRegistryPreservesRegistryInv
  DEF ExecuteInline, SlotTaken
<1>2. PICK st \in {"pending", "succeeded", "failed"} :
        step' = [step EXCEPT ![i].status = st]
  BY DEF ExecuteInline, SlotTaken
<1>3. /\ At(r, "claimed", i)
      /\ UNCHANGED <<jobs, job, worker, origin, poll, overrun>>
  BY DEF ExecuteInline, SlotTaken, registryVars
<1>4. Goto(r, "unapproving") \/ Return(r)
  BY DEF ExecuteInline, SlotTaken
<1>5. /\ PlanTypes'
      /\ \A q \in Requests \ {r} : request'[q] = request[q]
  BY <1>2, <1>3, <1>4, GotoStep, ReturnStep DEF PlanTypes, StepRecord
<1>6. /\ request'[r].pc \in {"idle", "unapproving"}
      /\ request'[r].pc # "idle" => request'[r].step \in Steps
  BY <1>3, <1>4, GotoStep, ReturnStep DEF PlanTypes, RequestRecord, At, Goto
<1>7. /\ step'[i].status = st /\ step'[i].job = step[i].job
      /\ \A k \in Steps \ {i} : step'[k] = step[k]
  BY <1>2 DEF PlanTypes, StepRecord
<1>8. \A q \in Requests, k \in Steps :
        /\ At(q, "claimed", k)' <=> At(q, "claimed", k) /\ q # r
        /\ At(q, "created", k)' <=> At(q, "created", k) /\ q # r
        /\ q # r => request'[q] = request[q]
  BY <1>3, <1>5, <1>6 DEF At
<1>9. PlanReferences'
  BY <1>3, <1>6, <1>7, <1>8 DEF PlanReferences
<1>10. ASSUME ~overrun
       PROVE  (StepsAreOrdered /\ ClaimantIsAlone /\ LiveJobIsAwaited /\ SuccessIsFinal)'
  <2> USE <1>3, <1>10 DEF PlanOrder
  <2>1. step[i].status = "running" /\ step[i].job = NoJob
    BY DEF ClaimantIsAlone, Claimant
  <2>2. StepsAreOrdered'
    BY <1>7, <2>1, StepsAreNumbered DEF StepsAreOrdered
  <2>3. ClaimantIsAlone'
    BY <1>7, <1>8 DEF ClaimantIsAlone, Claimant
  <2>4. LiveJobIsAwaited'
    BY <1>7, <1>8 DEF LiveJobIsAwaited
  <2>5. SuccessIsFinal'
    BY <1>7, <2>1 DEF SuccessIsFinal
  <2> QED
    BY <2>2, <2>3, <2>4, <2>5
<1> QED
  BY <1>1, <1>3, <1>5, <1>9, <1>10 DEF PlanOrder

\* What a creation leaves of the registry: only j is new.
LEMMA CreationEffect ==
  ASSUME RegistryInv, NEW j \in Jobs, CreateAndStart(j)
  PROVE  /\ worker[j] = "none" /\ worker'[j] = "claimed"
         /\ \A k \in Jobs \ {j} : worker'[k] = worker[k] /\ job'[k] = job[k]
         /\ Range(jobs') \subseteq Range(jobs) \cup {j}
BY EvictionAddsNothing DEF RegistryInv, RegistryTypes, CreateAndStart

\* The job that a claimant creates is the only live one of its step.
LEMMA CreateJobPreservesPlanInv ==
  ASSUME PlanInv, NEW r \in Requests, NEW i \in Steps,
         NEW j \in Jobs, CreateJob(r, i, j)
  PROVE  PlanInv'
<1>1. RegistryInv /\ PlanTypes /\ PlanReferences /\ PlanOrder
  BY DEF PlanInv
<1>2. /\ At(r, "claimed", i)
      /\ origin' = [origin EXCEPT ![j] = i]
      /\ request' = [request EXCEPT ![r].pc = "created", ![r].job = j]
      /\ UNCHANGED <<step, poll, overrun>>
      /\ CreateAndStart(j)
  BY DEF CreateJob
<1>3. RegistryInv'
  BY <1>1, <1>2, CreateAndStartPreservesRegistryInv
<1>4. /\ worker[j] = "none" /\ worker'[j] = "claimed"
      /\ \A k \in Jobs \ {j} : worker'[k] = worker[k] /\ job'[k] = job[k]
      /\ Range(jobs') \subseteq Range(jobs) \cup {j}
  BY <1>1, <1>2, CreationEffect
<1>5. /\ origin'[j] = i /\ i # NoStep
      /\ \A k \in Jobs \ {j} : origin'[k] = origin[k]
  BY <1>1, <1>2, StepsAreNumbered DEF PlanTypes
<1>6. [request[r] EXCEPT !.pc = "created", !.job = j] \in RequestRecord
  BY <1>1 DEF PlanTypes, RequestRecord
<1>7. /\ request' \in [Requests -> RequestRecord]
      /\ request'[r].pc = "created" /\ request'[r].step = i /\ request'[r].job = j
      /\ \A q \in Requests \ {r} : request'[q] = request[q]
  BY <1>1, <1>2, <1>6 DEF PlanTypes, At, RequestRecord
<1>8. PlanTypes'
  BY <1>1, <1>2, <1>7 DEF PlanTypes
<1>9. \A q \in Requests, k \in Steps :
        /\ At(q, "claimed", k)' <=> At(q, "claimed", k) /\ q # r
        /\ At(q, "created", k)' <=> At(q, "created", k) \/ (q = r /\ k = i)
        /\ q = r => ~At(q, "created", k) /\ (At(q, "claimed", k) => k = i)
  BY <1>2, <1>7 DEF At
<1>10. PlanReferences'
  <2>1. \A p \in Pollers : poll[p].job \in Jobs \cup {NoJob}
    BY <1>1 DEF PlanTypes, PollRecord
  <2>2. \A k \in Steps : step[k].job \in Jobs \cup {NoJob}
    BY <1>1 DEF PlanTypes, StepRecord
  <2> QED
    BY <1>1, <1>2, <1>4, <1>5, <1>7, <2>1, <2>2, IdAssumption DEF PlanReferences
<1>11. ASSUME ~overrun
       PROVE  (StepsAreOrdered /\ ClaimantIsAlone /\ LiveJobIsAwaited /\ SuccessIsFinal)'
  <2>1. StepsAreOrdered /\ ClaimantIsAlone /\ LiveJobIsAwaited /\ SuccessIsFinal
    BY <1>1, <1>11 DEF PlanOrder
  <2>2. /\ step[i].status = "running" /\ step[i].job = NoJob
        /\ \A q \in Requests : Claimant(q, i) => q = r
    BY <1>2, <2>1 DEF ClaimantIsAlone, Claimant
  <2>3. StepsAreOrdered'
    BY <1>2, <2>1 DEF StepsAreOrdered
  <2>4. ClaimantIsAlone'
    BY <1>2, <1>9, <2>1, <2>2 DEF ClaimantIsAlone, Claimant
  <2>5. ASSUME NEW h \in Jobs, NEW k \in Steps, origin'[h] = k,
               worker'[h] \in {"claimed", "handling"}
        PROVE  /\ step'[k].status = "running"
               /\ step'[k].job \in {NoJob, h}
               /\ \A q \in Requests :
                    /\ ~At(q, "claimed", k)'
                    /\ At(q, "created", k)' => request'[q].job = h
    <3>1. CASE h = j
      <4>1. k = i
        BY <1>5, <2>5, <3>1
      <4>2. \A q \in Requests : q # r => ~At(q, "claimed", i) /\ ~At(q, "created", i)
        BY <2>2 DEF Claimant
      <4> QED
        BY <1>2, <1>7, <1>9, <2>2, <3>1, <4>1, <4>2
    <3>2. CASE h # j
      <4>1. /\ step[k].status = "running"
            /\ step[k].job \in {NoJob, h}
            /\ \A q \in Requests :
                 /\ ~At(q, "claimed", k)
                 /\ At(q, "created", k) => request[q].job = h
        BY <1>4, <1>5, <2>1, <2>5, <3>2 DEF LiveJobIsAwaited
      <4>2. k # i
        BY <1>2, <4>1
      <4> QED
        BY <1>2, <1>7, <1>9, <4>1, <4>2
    <3> QED
      BY <3>1, <3>2
  <2>6. LiveJobIsAwaited'
    BY <2>5 DEF LiveJobIsAwaited, At
  <2>7. SuccessIsFinal'
    <3>1. \A k \in Steps : step[k].job # NoJob => step[k].job \in Jobs \ {j}
      BY <1>1, <1>4 DEF PlanTypes, StepRecord, PlanReferences
    <3> QED
      BY <1>2, <1>4, <2>1, <3>1 DEF SuccessIsFinal
  <2> QED
    BY <2>3, <2>4, <2>6, <2>7
<1> QED
  BY <1>2, <1>3, <1>8, <1>10, <1>11 DEF PlanInv, PlanOrder

\* Linking the job ends the claim; the job's handler, if it still runs, is awaited.
LEMMA LinkJobPreservesPlanInv ==
  ASSUME PlanInv, NEW r \in Requests, NEW i \in Steps,
         LinkJob(r, i)
  PROVE  PlanInv'
<1>1. RegistryInv /\ PlanTypes /\ PlanReferences /\ PlanOrder
  BY DEF PlanInv
<1>2. /\ At(r, "created", i)
      /\ step' = [step EXCEPT ![i].job = request[r].job]
      /\ Return(r)
      /\ UNCHANGED <<jobs, job, worker, origin, poll, overrun>>
  BY DEF LinkJob, registryVars
<1>3. RegistryInv'
  BY <1>1, IdleRegistryPreservesRegistryInv DEF LinkJob
<1>4. /\ request' \in [Requests -> RequestRecord]
      /\ request'[r].pc = "idle"
      /\ \A q \in Requests \ {r} : request'[q] = request[q]
  BY <1>1, <1>2, ReturnStep
<1>5. /\ request[r].job \in Jobs
      /\ worker[request[r].job] # "none" /\ origin[request[r].job] = i
  BY <1>1, <1>2 DEF PlanReferences, At
<1>6. PlanTypes'
  BY <1>1, <1>2, <1>4, <1>5 DEF PlanTypes, StepRecord
<1>7. /\ step'[i].status = step[i].status /\ step'[i].job = request[r].job
      /\ \A k \in Steps \ {i} : step'[k] = step[k]
  BY <1>1, <1>2 DEF PlanTypes, StepRecord
<1>8. \A q \in Requests, k \in Steps :
        /\ At(q, "claimed", k)' <=> At(q, "claimed", k)
        /\ At(q, "created", k)' <=> At(q, "created", k) /\ q # r
  BY <1>2, <1>4 DEF At
<1>9. PlanReferences'
  BY <1>1, <1>2, <1>4, <1>5, <1>7 DEF PlanReferences
<1>10. ASSUME ~overrun
       PROVE  (StepsAreOrdered /\ ClaimantIsAlone /\ LiveJobIsAwaited /\ SuccessIsFinal)'
  <2>1. StepsAreOrdered /\ ClaimantIsAlone /\ LiveJobIsAwaited /\ SuccessIsFinal
    BY <1>1, <1>10 DEF PlanOrder
  <2>2. /\ step[i].status = "running" /\ step[i].job = NoJob
        /\ \A q \in Requests : Claimant(q, i) => q = r
    BY <1>2, <2>1 DEF ClaimantIsAlone, Claimant
  <2>3. StepsAreOrdered'
    BY <1>7, <2>1, <2>2, StepsAreNumbered DEF StepsAreOrdered
  <2>4. ClaimantIsAlone'
    BY <1>2, <1>7, <1>8, <2>1, <2>2 DEF ClaimantIsAlone, Claimant, At
  <2>5. LiveJobIsAwaited'
    BY <1>2, <1>4, <1>7, <1>8, <2>1, <2>2 DEF LiveJobIsAwaited
  <2>6. SuccessIsFinal'
    BY <1>2, <1>7, <2>1, <2>2 DEF SuccessIsFinal
  <2> QED
    BY <2>3, <2>4, <2>5, <2>6
<1> QED
  BY <1>2, <1>3, <1>6, <1>9, <1>10 DEF PlanInv, PlanOrder

\* An edit that is not an overrun finds a step nobody executes and clears its job.
LEMMA WriteEditPreservesPlanInv ==
  ASSUME PlanInv, NEW r \in Requests, NEW i \in Steps,
         WriteEdit(r, i)
  PROVE  PlanInv'
<1>1. RegistryInv /\ PlanTypes /\ PlanReferences /\ PlanOrder
  BY DEF PlanInv
<1>2. /\ At(r, "editing", i)
      /\ Return(r)
      /\ overrun' = (overrun \/ step[i].status \notin {"pending", "failed"})
      /\ UNCHANGED <<jobs, job, worker, origin, poll>>
  BY DEF WriteEdit, registryVars
<1>3. RegistryInv'
  BY <1>1, IdleRegistryPreservesRegistryInv DEF WriteEdit
<1>4. /\ request' \in [Requests -> RequestRecord]
      /\ request'[r].pc = "idle"
      /\ \A q \in Requests \ {r} : request'[q] = request[q]
  BY <1>1, <1>2, ReturnStep
<1>5. step' = [k \in Steps |-> CASE k < i -> step[k]
                                      [] k = i -> Edited(step[k])
                                      [] k > i -> [step[k] EXCEPT !.approved = FALSE]]
  BY DEF WriteEdit
<1>6. \A k \in Steps : k \in Nat
  BY StepsAreNumbered
<1>7. /\ step'[i] = Edited(step[i])
      /\ \A k \in Steps \ {i} :
           step'[k] = step[k] \/ step'[k] = [step[k] EXCEPT !.approved = FALSE]
  BY <1>5, <1>6
<1>8. /\ step'[i] \in StepRecord /\ step'[i].status = "pending" /\ step'[i].job = NoJob
      /\ \A k \in Steps \ {i} :
           /\ step'[k] \in StepRecord
           /\ step'[k].status = step[k].status /\ step'[k].job = step[k].job
  <2>1. ASSUME NEW s \in StepRecord
        PROVE  /\ Edited(s) \in StepRecord
               /\ Edited(s).status = "pending" /\ Edited(s).job = NoJob
               /\ [s EXCEPT !.approved = FALSE] \in StepRecord
               /\ [s EXCEPT !.approved = FALSE].status = s.status
               /\ [s EXCEPT !.approved = FALSE].job = s.job
    <3>1. s.params + 1 \in Nat
      BY DEF StepRecord
    <3>2. Edited(s) \in StepRecord
      BY <3>1 DEF StepRecord, Edited
    <3>3. Edited(s).status = "pending" /\ Edited(s).job = NoJob
      BY DEF StepRecord, Edited
    <3>4. /\ [s EXCEPT !.approved = FALSE] \in StepRecord
          /\ [s EXCEPT !.approved = FALSE].status = s.status
          /\ [s EXCEPT !.approved = FALSE].job = s.job
      BY DEF StepRecord
    <3> QED
      BY <3>2, <3>3, <3>4
  <2>2. \A k \in Steps : step[k] \in StepRecord
    BY <1>1 DEF PlanTypes
  <2>3. /\ step'[i] \in StepRecord
        /\ step'[i].status = "pending" /\ step'[i].job = NoJob
    <3>1. PICK s \in StepRecord : s = step[i]
      BY <2>2
    <3>2. step'[i] = Edited(s)
      BY <1>7, <3>1
    <3> QED
      BY <2>1, <3>2
  <2>4. ASSUME NEW k \in Steps \ {i}
        PROVE  /\ step'[k] \in StepRecord
               /\ step'[k].status = step[k].status /\ step'[k].job = step[k].job
    <3>1. CASE step'[k] = step[k]
      BY <2>2, <3>1
    <3>2. CASE step'[k] = [step[k] EXCEPT !.approved = FALSE]
      BY <2>1, <2>2, <3>2
    <3> QED
      BY <1>7, <3>1, <3>2
  <2> QED
    BY <2>3, <2>4
<1>9. PlanTypes'
  BY <1>1, <1>2, <1>4, <1>5, <1>8 DEF PlanTypes
<1>10. \A q \in Requests, k \in Steps :
        /\ At(q, "claimed", k)' <=> At(q, "claimed", k)
        /\ At(q, "created", k)' <=> At(q, "created", k)
        /\ At(q, "created", k) => request'[q].job = request[q].job
  BY <1>2, <1>4 DEF At
<1>11. PlanReferences'
  BY <1>1, <1>2, <1>4, <1>8 DEF PlanReferences
<1>12. ASSUME ~overrun'
       PROVE  (StepsAreOrdered /\ ClaimantIsAlone /\ LiveJobIsAwaited /\ SuccessIsFinal)'
  <2>1. /\ StepsAreOrdered /\ ClaimantIsAlone /\ LiveJobIsAwaited /\ SuccessIsFinal
        /\ step[i].status \in {"pending", "failed"}
    BY <1>1, <1>2, <1>12 DEF PlanOrder
  <2>2. StepsAreOrdered'
    BY <1>8, <2>1, StepsAreNumbered DEF StepsAreOrdered
  <2>3. ClaimantIsAlone'
    BY <1>8, <1>10, <2>1 DEF ClaimantIsAlone, Claimant
  <2>4. LiveJobIsAwaited'
    BY <1>2, <1>8, <1>10, <2>1 DEF LiveJobIsAwaited
  <2>5. SuccessIsFinal'
    BY <1>2, <1>8, <2>1 DEF SuccessIsFinal
  <2> QED
    BY <2>2, <2>3, <2>4, <2>5
<1> QED
  BY <1>3, <1>9, <1>11, <1>12 DEF PlanInv, PlanOrder

LEMMA LookupPreservesPlanInv ==
  ASSUME PlanInv, NEW p \in Pollers,
         GetJob(p) \/ \E i \in Steps : TestRunning(p, i)
  PROVE  PlanInv'
<1>1. RegistryInv /\ PlanTypes /\ PlanReferences /\ PlanOrder
  BY DEF PlanInv
<1>2. UNCHANGED <<jobs, job, worker, step, origin, request, overrun>>
  BY DEF GetJob, TestRunning, registryVars
<1>3. RegistryInv'
  BY <1>1, IdleRegistryPreservesRegistryInv
  DEF GetJob, TestRunning
<1>4. PICK w \in PollRecord :
        /\ poll' = [poll EXCEPT ![p] = w]
        /\ w.step \in Steps
        /\ w.pc = "looking" => w.job \in Jobs
        /\ w.pc = "missing" => w.job \notin Range(jobs)
        /\ w.job # NoJob => worker[w.job] # "none"
  <2>1. CASE GetJob(p)
    <3>1. poll[p] \in PollRecord /\ poll[p].step \in Steps
      BY <1>1, <2>1 DEF PlanTypes, PlanReferences, GetJob
    <3>2. PICK j : j = step[poll[p].step].job
      OBVIOUS
    <3>3. /\ j \in Jobs \cup {NoJob}
          /\ j # NoJob => worker[j] # "none"
      BY <1>1, <3>1, <3>2 DEF PlanTypes, PlanReferences, StepRecord
    <3>4. PICK pc \in {"looking", "missing"} :
            /\ poll' = [poll EXCEPT ![p].pc = pc, ![p].job = j]
            /\ pc = "looking" => j \in Range(jobs)
            /\ pc = "missing" => j \notin Range(jobs)
      BY <2>1, <3>2 DEF GetJob, Range, Range
    <3> DEFINE w == [poll[p] EXCEPT !.pc = pc, !.job = j]
    <3>5. w \in PollRecord /\ w.step \in Steps /\ w.pc = pc /\ w.job = j
      BY <3>1, <3>3 DEF PollRecord
    <3>6. poll' = [poll EXCEPT ![p] = w]
      BY <3>4
    <3>7. j \in Range(jobs) => j \in Jobs
      BY <1>1, HistoryHoldsJobs DEF RegistryInv
    <3> QED
      BY <3>3, <3>4, <3>5, <3>6, <3>7
  <2>2. ASSUME NEW i \in Steps, TestRunning(p, i)
        PROVE  \E w \in PollRecord :
                 /\ poll' = [poll EXCEPT ![p] = w]
                 /\ w.step \in Steps
                 /\ w.pc = "testing" /\ w.job = NoJob
    <3> DEFINE w == [Idle EXCEPT !.pc = "testing", !.step = i]
    <3>1. w \in PollRecord /\ w.pc = "testing" /\ w.step = i /\ w.job = NoJob
      BY DEF Idle, PollRecord
    <3>2. poll' = [poll EXCEPT ![p] = w]
      BY <2>2 DEF TestRunning
    <3> QED
      BY <3>1, <3>2
  <2> QED
    BY <2>1, <2>2
<1>5. PlanTypes'
  BY <1>1, <1>2, <1>4 DEF PlanTypes
<1>6. poll'[p] = w /\ \A q \in Pollers \ {p} : poll'[q] = poll[q]
  BY <1>1, <1>4 DEF PlanTypes
<1>7. PlanReferences'
  BY <1>1, <1>2, <1>4, <1>6 DEF PlanReferences
<1>8. PlanOrder'
  BY <1>1, <1>2
  DEF PlanOrder, StepsAreOrdered, ClaimantIsAlone, Claimant, At, LiveJobIsAwaited,
      SuccessIsFinal
<1> QED
  BY <1>3, <1>5, <1>7, <1>8 DEF PlanInv

\* What a poll may write over a step: the end of the job the step still awaits, while
\* that job has no live handler; a recorded success stays.
LEMMA PollWritesTheEnd ==
  ASSUME PlanInv, NEW p \in Pollers,
         MarkEvicted(p) \/ CopyStatus(p), ~overrun', step' # step
  PROVE  \E i \in Steps, st \in Terminal :
           /\ step' = [step EXCEPT ![i].status = st]
           /\ step[i].job \in Jobs
           /\ worker[step[i].job] \notin {"claimed", "handling"}
           /\ step[i].status = "succeeded" => st = "succeeded"
           /\ st = "succeeded" => job[step[i].job].status = "succeeded"
<1>1. /\ RegistryInv /\ PlanTypes /\ PlanReferences
      /\ ~overrun /\ SuccessIsFinal
  BY DEF PlanInv, PlanOrder, MarkEvicted, CopyStatus
<1>2. PICK i, j : i = poll[p].step /\ j = poll[p].job
  OBVIOUS
<1>3. poll[p].pc \in {"missing", "looking"}
  BY DEF MarkEvicted, CopyStatus
<1>4. i \in Steps /\ j \in Jobs \cup {NoJob}
  BY <1>1, <1>2, <1>3 DEF PlanTypes, PlanReferences, PollRecord
<1>5. ~MovedOn(p)
  BY <1>1 DEF MarkEvicted, CopyStatus, PlanTypes
<1>6. /\ j \in Jobs /\ step[i].job = j
      /\ poll[p].pc = "missing" => step[i].status # "succeeded"
  BY <1>2, <1>4, <1>5 DEF MovedOn
<1>7. CASE MarkEvicted(p)
  <2>1. step' = [step EXCEPT ![i].status = "failed"] /\ poll[p].pc = "missing"
    BY <1>2, <1>7 DEF MarkEvicted
  <2>2. j \notin Range(jobs)
    BY <1>1, <1>2, <2>1 DEF PlanReferences
  <2>3. worker[j] \notin {"claimed", "handling"}
    BY <1>1, <1>6, <2>2, FinishFindsItsJob DEF Live
  <2> QED
    BY <1>4, <1>6, <2>1, <2>3 DEF Terminal
<1>8. CASE CopyStatus(p)
  <2>1. /\ job[j].status \in Terminal
        /\ step' = [step EXCEPT ![i].status = job[j].status]
    BY <1>2, <1>8 DEF CopyStatus
  <2>2. worker[j] \notin {"claimed", "handling"}
    BY <1>1, <1>6, <2>1 DEF RegistryInv, RecordFollowsWorker, Terminal
  <2>3. step[i].status = "succeeded" => job[j].status = "succeeded"
    BY <1>1, <1>4, <1>6, IdAssumption DEF SuccessIsFinal
  <2> QED
    BY <1>4, <1>6, <2>1, <2>2, <2>3
<1> QED
  BY <1>7, <1>8

LEMMA PollWritePreservesPlanInv ==
  ASSUME PlanInv, NEW p \in Pollers,
         MarkEvicted(p) \/ CopyStatus(p)
  PROVE  PlanInv'
<1>1. RegistryInv /\ PlanTypes /\ PlanReferences /\ PlanOrder
  BY DEF PlanInv
<1>2. /\ poll' = [poll EXCEPT ![p] = Idle]
      /\ overrun' \in BOOLEAN /\ (overrun => overrun')
      /\ UNCHANGED <<jobs, job, worker, origin, request>>
  BY <1>1 DEF MarkEvicted, CopyStatus, registryVars, PlanTypes, MovedOn
<1>3. RegistryInv'
  BY <1>1, IdleRegistryPreservesRegistryInv
  DEF MarkEvicted, CopyStatus
<1>4. poll[p].step \in Steps
  BY <1>1 DEF MarkEvicted, CopyStatus, PlanReferences
<1>5. PICK st \in {"succeeded", "failed"} :
        step' = step \/ step' = [step EXCEPT ![poll[p].step].status = st]
  BY DEF MarkEvicted, CopyStatus, Terminal
<1>6. PlanTypes'
  <2>1. step' \in [Steps -> StepRecord]
    <3>1. step[poll[p].step] \in StepRecord
      BY <1>1, <1>4 DEF PlanTypes
    <3>2. [step[poll[p].step] EXCEPT !.status = st] \in StepRecord
      BY <3>1 DEF StepRecord
    <3> QED
      BY <1>1, <1>4, <1>5, <3>2 DEF PlanTypes
  <2>2. poll' \in [Pollers -> PollRecord]
    BY <1>1, <1>2 DEF PlanTypes, PollRecord, Idle, NoStep
  <2> QED
    BY <1>1, <1>2, <2>1, <2>2 DEF PlanTypes
<1>7. \A k \in Steps : step'[k].job = step[k].job
  BY <1>1, <1>4, <1>5 DEF PlanTypes, StepRecord
<1>8. PlanReferences'
  BY <1>1, <1>2, <1>7 DEF PlanReferences, PlanTypes, Idle
<1>9. ASSUME ~overrun', step' = step PROVE PlanOrder'
  BY <1>1, <1>2, <1>9
  DEF PlanOrder, StepsAreOrdered, ClaimantIsAlone, Claimant, At, LiveJobIsAwaited,
      SuccessIsFinal
<1>10. ASSUME ~overrun', step' # step
       PROVE  (StepsAreOrdered /\ ClaimantIsAlone /\ LiveJobIsAwaited /\ SuccessIsFinal)'
  <2>1. StepsAreOrdered /\ ClaimantIsAlone /\ LiveJobIsAwaited /\ SuccessIsFinal
    BY <1>1, <1>2, <1>10 DEF PlanOrder
  <2>2. PICK i \in Steps, en \in Terminal :
          /\ step' = [step EXCEPT ![i].status = en]
          /\ step[i].job \in Jobs
          /\ worker[step[i].job] \notin {"claimed", "handling"}
          /\ step[i].status = "succeeded" => en = "succeeded"
          /\ en = "succeeded" => job[step[i].job].status = "succeeded"
    BY <1>10, PollWritesTheEnd
  <2>3. /\ step'[i].status = en /\ en \in {"succeeded", "failed"}
        /\ \A k \in Steps \ {i} : step'[k] = step[k]
    BY <1>1, <2>2 DEF PlanTypes, StepRecord, Terminal
  <2>4. step[i].status # "pending"
    BY <2>1, <2>2, IdAssumption DEF StepsAreOrdered
  <2>5. StepsAreOrdered'
    BY <1>7, <2>1, <2>2, <2>3, <2>4, StepsAreNumbered DEF StepsAreOrdered
  <2>6. \A r \in Requests : ~Claimant(r, i)
    BY <2>1, <2>2, IdAssumption DEF ClaimantIsAlone
  <2>7. ClaimantIsAlone'
    BY <1>2, <2>1, <2>3, <2>6 DEF ClaimantIsAlone, Claimant, At
  <2>8. \A j \in Jobs : origin[j] = i => worker[j] \notin {"claimed", "handling"}
    BY <2>1, <2>2, IdAssumption DEF LiveJobIsAwaited
  <2>9. LiveJobIsAwaited'
    BY <1>2, <2>1, <2>3, <2>8 DEF LiveJobIsAwaited, At
  <2>10. SuccessIsFinal'
    BY <1>2, <1>7, <2>1, <2>2, <2>3 DEF SuccessIsFinal
  <2> QED
    BY <2>5, <2>7, <2>9, <2>10
<1> QED
  BY <1>3, <1>6, <1>8, <1>9, <1>10 DEF PlanInv, PlanOrder

\* The registry runs on: no job becomes live but one posted directly, which is no
\* step's; no recorded status changes; a job that was evicted stays out.
LEMMA RegistryStepPreservesPlanInv ==
  ASSUME PlanInv, NEW j \in Jobs, PostJob(j) \/ JobThread(j)
  PROVE  PlanInv'
<1>1. RegistryInv /\ PlanTypes /\ PlanReferences /\ PlanOrder
  BY DEF PlanInv
<1>2. UNCHANGED <<step, origin, request, poll, overrun>>
  BY DEF PostJob, JobThread
<1>3. \/ CreateAndStart(j)
      \/ StartThread(j)
      \/ \E st \in Terminal : FinishStatus(j, st)
      \/ FinishOutcome(j)
  BY DEF PostJob, JobThread
<1>4. RegistryInv'
  BY <1>1, <1>3, CreateAndStartPreservesRegistryInv, StartThreadPreservesRegistryInv,
     FinishStatusPreservesRegistryInv, FinishOutcomePreservesRegistryInv
<1>5. /\ \A k \in Jobs \ {j} : worker'[k] = worker[k] /\ job'[k] = job[k]
      /\ worker'[j] # "none"
      /\ Range(jobs') \subseteq Range(jobs) \cup (IF worker[j] = "none" THEN {j} ELSE {})
      /\ worker'[j] \in {"claimed", "handling"} =>
           worker[j] \in {"none", "claimed", "handling"}
      /\ job[j].status = "succeeded" /\ worker[j] # "none" => job'[j].status = "succeeded"
  <2>1. CASE CreateAndStart(j)
    BY <1>1, <2>1, CreationEffect
  <2>2. CASE StartThread(j)
    BY <1>1, <2>2 DEF RegistryInv, RegistryTypes, StartThread
  <2>3. CASE \E st \in Terminal : FinishStatus(j, st)
    BY <1>1, <2>3 DEF RegistryInv, RegistryTypes, FinishStatus, RecordFollowsWorker
  <2>4. CASE FinishOutcome(j)
    <3>1. CASE FinishField(j)
      BY <1>1, <3>1, FinishFieldEffect
    <3>2. CASE FinishRelease(j)
      BY <1>1, <3>2 DEF RegistryInv, RegistryTypes, FinishRelease
    <3> QED
      BY <2>4, <3>1, <3>2 DEF FinishOutcome
  <2> QED
    BY <1>3, <2>1, <2>2, <2>3, <2>4
<1>6. PlanTypes'
  BY <1>1, <1>2 DEF PlanTypes
<1>7. \A k \in Jobs : worker[k] # "none" => worker'[k] # "none"
  BY <1>5
<1>8. \A k : worker[k] # "none" /\ k \in Jobs /\ k \notin Range(jobs) => k \notin Range(jobs')
  BY <1>5
<1>9. PlanReferences'
  <2>1. \A p \in Pollers : poll[p].job \in Jobs \cup {NoJob}
    BY <1>1 DEF PlanTypes, PollRecord
  <2>2. \A k \in Steps : step[k].job \in Jobs \cup {NoJob}
    BY <1>1 DEF PlanTypes, StepRecord
  <2>3. NoJob \notin Range(jobs')
    BY <1>4, HistoryHoldsJobs, IdAssumption DEF RegistryInv, RegistryTypes, Range
  <2> QED
    BY <1>1, <1>2, <1>7, <1>8, <2>1, <2>2, <2>3 DEF PlanReferences
<1>10. ASSUME ~overrun
       PROVE  (StepsAreOrdered /\ ClaimantIsAlone /\ LiveJobIsAwaited /\ SuccessIsFinal)'
  <2>1. StepsAreOrdered /\ ClaimantIsAlone /\ LiveJobIsAwaited /\ SuccessIsFinal
    BY <1>1, <1>10 DEF PlanOrder
  <2>2. StepsAreOrdered' /\ ClaimantIsAlone'
    BY <1>2, <2>1 DEF StepsAreOrdered, ClaimantIsAlone, Claimant, At
  <2>3. ASSUME NEW h \in Jobs, NEW k \in Steps, origin[h] = k,
               worker'[h] \in {"claimed", "handling"}
        PROVE  worker[h] \in {"claimed", "handling"}
    BY <1>1, <1>5, <2>3, StepsAreNumbered DEF PlanReferences
  <2>4. LiveJobIsAwaited'
    BY <1>2, <2>1, <2>3 DEF LiveJobIsAwaited, At
  <2>5. \A k \in Steps : step[k].job # NoJob =>
          step[k].job \in Jobs /\ worker[step[k].job] # "none"
    BY <1>1 DEF PlanTypes, StepRecord, PlanReferences
  <2>6. SuccessIsFinal'
    BY <1>2, <1>5, <2>1, <2>5 DEF SuccessIsFinal
  <2> QED
    BY <2>2, <2>4, <2>6
<1> QED
  BY <1>2, <1>4, <1>6, <1>9, <1>10 DEF PlanInv, PlanOrder

LEMMA NextPreservesPlanInv ==
  PlanInv /\ [PlanNext]_planVars => PlanInv'
<1> SUFFICES ASSUME PlanInv, [PlanNext]_planVars PROVE PlanInv'
  OBVIOUS
<1>1. ASSUME NEW r \in Requests, Begin(r) PROVE PlanInv'
  BY <1>1, ApprovePreservesPlanInv, TestEditablePreservesPlanInv DEF Begin
<1>2. ASSUME NEW r \in Requests, Serve(r) PROVE PlanInv'
  BY <1>2, ClaimPreservesPlanInv, EndOfClaimPreservesPlanInv, CreateJobPreservesPlanInv,
     LinkJobPreservesPlanInv, UnapprovePreservesPlanInv, WriteEditPreservesPlanInv
  DEF Serve
<1>3. ASSUME NEW p \in Pollers, Poll(p) PROVE PlanInv'
  BY <1>3, LookupPreservesPlanInv, PollWritePreservesPlanInv DEF Poll
<1>4. ASSUME NEW j \in Jobs, PostJob(j) \/ JobThread(j) PROVE PlanInv'
  BY <1>4, RegistryStepPreservesPlanInv
<1>5. CASE UNCHANGED planVars
  <2>1. RegistryInv'
    BY <1>5, IdleRegistryPreservesRegistryInv DEF PlanInv, planVars
  <2>2. (PlanTypes /\ PlanReferences /\ PlanOrder)'
    BY <1>5
    DEF PlanInv, PlanTypes, PlanReferences, PlanOrder, StepsAreOrdered, ClaimantIsAlone,
        Claimant, LiveJobIsAwaited, SuccessIsFinal, At, planVars, registryVars
  <2> QED
    BY <2>1, <2>2 DEF PlanInv
<1> QED
  BY <1>1, <1>2, <1>3, <1>4, <1>5 DEF PlanNext

\* Every reachable state of RoutePlan satisfies its inductive invariant, for every plan,
\* every number of requests, editors, pollers and edits, and every history bound.
THEOREM RoutePlanInvariant ==
  PlanSpec => []PlanInv
BY InitEstablishesPlanInv, NextPreservesPlanInv, PTL DEF PlanSpec

\* The steps, the requests and the polls keep their types.
THEOREM PlanTypeCorrect == PlanSpec => []PlanTypeOK
<1>1. PlanInv => PlanTypeOK
  BY DEF PlanInv, RegistryInv, PlanTypes, PlanTypeOK
<1> QED
  BY <1>1, RoutePlanInvariant, PTL

\* RoutePlan implements SingleFlight too: a job that a step dispatches and one that is
\* posted beside the plan never run at the same time, and none runs twice.
THEOREM RoutePlanIsSingleFlight == PlanSpec => Abstract!Safety
<1>1. PlanInit => Abstract!Init
  BY DEF PlanInit, RegistryInit, Abstract!Init
<1>2. PlanInv /\ [PlanNext]_planVars => [Abstract!Next]_(Abstract!sfVars)
  <2> SUFFICES ASSUME PlanInv, [PlanNext]_planVars
               PROVE  Abstract!Next \/ UNCHANGED <<runningJobId, Finished>>
    BY DEF Abstract!sfVars, Finished
  <2>1. ASSUME UNCHANGED registryVars PROVE UNCHANGED <<runningJobId, Finished>>
    BY <2>1 DEF registryVars, Finished
  <2>2. ASSUME NEW r \in Requests, Begin(r) PROVE UNCHANGED registryVars
    BY <2>2 DEF Begin, Approve, TestEditable
  <2>3. ASSUME NEW r \in Requests, Serve(r)
        PROVE  UNCHANGED registryVars \/ \E j \in Jobs : CreateAndStart(j)
    BY <2>3 DEF Serve, Claim, ExecuteInline, CreateJob, SlotTaken, LinkJob, Unapprove, WriteEdit
  <2>4. ASSUME NEW p \in Pollers, Poll(p) PROVE UNCHANGED registryVars
    BY <2>4 DEF Poll, TestRunning, GetJob, MarkEvicted, CopyStatus
  <2>5. ASSUME NEW j \in Jobs, PostJob(j) \/ JobThread(j) \/ CreateAndStart(j)
        PROVE  Abstract!Next \/ UNCHANGED <<runningJobId, Finished>>
    BY <2>5, StoreStepIsSingleFlight DEF PlanInv, PostJob, JobThread
  <2>6. CASE UNCHANGED planVars
    BY <2>1, <2>6 DEF planVars
  <2> QED
    BY <2>1, <2>2, <2>3, <2>4, <2>5, <2>6 DEF PlanNext
<1> QED
  BY <1>1, <1>2, RoutePlanInvariant, PTL DEF PlanSpec, Abstract!Safety

\* Unless an edit or a poll wrote over a step that moved on, a step runs only when all
\* earlier ones have succeeded, and nothing takes that success back.
THEOREM StepsRunInTheirOrder ==
  PlanSpec => []StepsRunInOrder
<1>1. PlanInv => StepsRunInOrder
  BY DEF PlanInv, PlanOrder, StepsAreOrdered, StepsRunInOrder
<1> QED
  BY <1>1, RoutePlanInvariant, PTL

\* Unless an edit or a poll wrote over a step that moved on, no two threads ever execute
\* one step: neither two requests, nor a request and a job, nor two jobs.
THEOREM StepsExecuteOnce ==
  PlanSpec => []OneExecutionPerStep
<1>1. PlanInv => OneExecutionPerStep
  <2> SUFFICES ASSUME PlanInv, ~overrun, NEW i \in Steps
               PROVE  /\ \A x, y \in Executing(i) : x = y
                      /\ (\E r \in Requests : At(r, "claimed", i)) =>
                           step[i].status = "running"
    BY DEF OneExecutionPerStep
  <2>1. ClaimantIsAlone /\ LiveJobIsAwaited /\ SlotIsLiveWorker
    BY DEF PlanInv, PlanOrder, RegistryInv
  <2>2. \A q, r \in Requests : At(q, "claimed", i) /\ At(r, "claimed", i) => q = r
    BY <2>1 DEF ClaimantIsAlone, Claimant
  <2>3. \A h, j \in Jobs : worker[h] \in Live /\ worker[j] \in Live => h = j
    BY <2>1 DEF SlotIsLiveWorker
  <2>4. \A j \in Jobs : origin[j] = i /\ worker[j] \in {"claimed", "handling"} =>
          \A r \in Requests : ~At(r, "claimed", i)
    BY <2>1 DEF LiveJobIsAwaited
  <2>5. ASSUME NEW x \in Executing(i), NEW y \in Executing(i) PROVE x = y
    BY <2>2, <2>3, <2>4, <2>5 DEF Executing, Live
  <2>6. (\E r \in Requests : At(r, "claimed", i)) => step[i].status = "running"
    BY <2>1 DEF ClaimantIsAlone, Claimant
  <2> QED
    BY <2>5, <2>6
<1> QED
  BY <1>1, RoutePlanInvariant, PTL

\* Unless an edit or a poll wrote over a step that moved on, a job-backed step that reads
\* "succeeded" was executed by the job it names, and that job succeeded.
THEOREM ReportedSuccessIsReal ==
  PlanSpec => []SuccessIsTheJobs
<1>1. PlanInv => SuccessIsTheJobs
  BY DEF PlanInv, PlanOrder, SuccessIsFinal, PlanReferences, SuccessIsTheJobs
<1> QED
  BY <1>1, RoutePlanInvariant, PTL
=============================================================================
