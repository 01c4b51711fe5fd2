------------------------ MODULE PlanSubstrate_proofs ------------------------
(***************************************************************************)
(* Theorems about PlanSubstrate, for any number of jobs, uploads, findings *)
(* and `rhino adapt` processes, and any length of history.                 *)
(*                                                                         *)
(* The invariant says of each handler's local variables what it has        *)
(* established by the point it is at (TaskOK), against a disk that other   *)
(* processes write at any moment.  It does not use that one job runs at a  *)
(* time: signatures and provenance are only ever added, so what a handler  *)
(* established stays true.                                                 *)
(***************************************************************************)
EXTENDS PlanSubstrate, TLAPS

Types ==
  /\ task \in [Jobs -> Task]
  /\ plan \in Plan \cup {NoPlan}
  /\ contract \in [Uploads -> [state : {"none", "proposed", "confirmed"}, revision : Revisions]]
  /\ cli \in [Processes -> [doing : {"nothing", "proposing", "confirming"},
                           upload : Uploads \cup {Native}, revision : Revisions]]
  /\ written \in Revisions
  /\ export \in Export \cup {NoPlan}

\* A confirmed contract is a revision that was signed.
ConfirmedIsSigned ==
  \A u \in Uploads : contract[u].state = "confirmed" => Signature(u, contract[u].revision)

TaskOK(t) ==
  /\ t.kind \notin Runs \/ t.pc \notin {"idle", "start", "returned"} => t.source \in Sources
  /\ t.provisional => t.kind \in Runs /\ t.source \in Uploads
  /\ t.pc \in {"start", "proposing", "resolving", "loading", "submitting", "marking"} => ~ t.provisional
  /\ t.pc = "recording" => t.provisional
  /\ t.pc \in {"running", "exporting"} /\ ~ t.provisional /\ t.source \in Uploads =>
       Signature(t.source, t.revision)
  /\ t.pc = "exporting" /\ t.provisional => \A f \in t.found : <<f, t.source>> \in provenance
  /\ t.pc = "submitting" => plan # NoPlan

ExportIsOfUpload == export # NoPlan /\ export.provisional => export.source \in Uploads

IInv ==
  /\ Types /\ ConfirmedIsSigned /\ (\A j \in Jobs : TaskOK(task[j]))
  /\ ExportIsOfUpload /\ UnsignedIsNeverPassedOff /\ ProvenancePrecedesExport

-----------------------------------------------------------------------------
LEMMA ZeroIsARevision == 0 \in Revisions
BY RevisionAssumption DEF Revisions

LEMMA NoTaskIsIdle ==
  NoTask \in Task /\ NoTask.pc = "idle" /\ ~ NoTask.provisional /\ NoTask.source \in Sources
BY ZeroIsARevision DEF NoTask, Task, Sources, Kinds

LEMMA InitIInv == Init => IInv
<1> SUFFICES ASSUME Init PROVE IInv
  OBVIOUS
<1>1. Types
  BY ZeroIsARevision, NoTaskIsIdle DEF Init, Types, NoCommand
<1>2. \A j \in Jobs : TaskOK(task[j])
  BY NoTaskIsIdle DEF Init, TaskOK
<1> QED
  BY <1>1, <1>2 DEF Init, IInv, ConfirmedIsSigned, ExportIsOfUpload, UnsignedIsNeverPassedOff,
     ProvenancePrecedesExport

\* What a handler established stays true: signatures and provenance are only added, and a
\* plan is only replaced.
Grows ==
  /\ signed \subseteq signed' /\ provenance \subseteq provenance'
  /\ plan # NoPlan => plan' # NoPlan

LEMMA TaskOKIsStable ==
  ASSUME NEW t, TaskOK(t), Grows
  PROVE  TaskOK(t)'
BY DEF TaskOK, Grows, Signature

\* One handler moves to t.
LEMMA HandlerMoves ==
  ASSUME IInv, NEW j \in Jobs, NEW t \in Task, task' = [task EXCEPT ![j] = t], Grows, TaskOK(t)'
  PROVE  task' \in [Jobs -> Task] /\ \A i \in Jobs : TaskOK(task[i])'
<1>1. task \in [Jobs -> Task]
  BY DEF IInv, Types
<1>2. task' \in [Jobs -> Task] /\ task'[j] = t /\ \A i \in Jobs : i # j => task'[i] = task[i]
  BY <1>1
<1>3. ASSUME NEW i \in Jobs, i # j PROVE TaskOK(task[i])'
  <2> DEFINE u == task[i]
  <2>1. PICK v : v = task[i] /\ v = task'[i]
    BY <1>2, <1>3
  <2>2. TaskOK(v)
    BY <2>1 DEF IInv
  <2>3. TaskOK(v)'
    BY <2>2, TaskOKIsStable
  <2> QED BY <2>1, <2>3 DEF TaskOK
<1>4. TaskOK(task[j])'
  BY <1>2 DEF TaskOK
<1> QED BY <1>2, <1>3, <1>4

\* A step of a handler that leaves the plan and the disk alone.
LEMMA LocalStepPreservesIInv ==
  ASSUME IInv, NEW j \in Jobs, NEW t \in Task, task' = [task EXCEPT ![j] = t], TaskOK(t),
         UNCHANGED <<plan, disk, cli>>
  PROVE  IInv'
<1>1. Grows
  BY DEF Grows, disk
<1>2. TaskOK(t)'
  BY <1>1, TaskOKIsStable
<1>3. task' \in [Jobs -> Task] /\ \A i \in Jobs : TaskOK(task[i])'
  BY <1>1, <1>2, HandlerMoves
<1> QED
  BY <1>3 DEF IInv, Types, disk, ConfirmedIsSigned, Signature, ExportIsOfUpload, UnsignedIsNeverPassedOff,
     ProvenancePrecedesExport, IsUpload

-----------------------------------------------------------------------------
(* The handlers *)

Pcs == {"idle", "start", "proposing", "resolving", "loading", "running",
        "recording", "submitting", "marking", "exporting", "returned"}

\* The rest of a handler's variables, next to its pc and result.
SameRest(t, u) ==
  /\ t.kind = u.kind /\ t.source = u.source /\ t.provisional = u.provisional
  /\ t.revision = u.revision /\ t.found = u.found

LEMMA GotoMoves ==
  ASSUME IInv, NEW j \in Jobs, NEW pc \in Pcs, Goto(j, pc)
  PROVE  \E t \in Task : task' = [task EXCEPT ![j] = t] /\ t.pc = pc /\ SameRest(t, task[j])
<1> DEFINE t == [task[j] EXCEPT !.pc = pc]
<1>1. task[j] \in Task /\ task \in [Jobs -> Task]
  BY DEF IInv, Types
<1>2. task' = [task EXCEPT ![j] = t]
  BY <1>1 DEF Goto
<1>3. t \in Task /\ t.pc = pc /\ SameRest(t, task[j])
  BY <1>1 DEF Task, Pcs, SameRest
<1> HIDE DEF t
<1> QED BY <1>2, <1>3

LEMMA ReturnMoves ==
  ASSUME IInv, NEW j \in Jobs, NEW st \in {"succeeded", "failed"}, Return(j, st)
  PROVE  \E t \in Task : task' = [task EXCEPT ![j] = t] /\ t.pc = "returned" /\ SameRest(t, task[j])
<1> DEFINE t == [task[j] EXCEPT !.pc = "returned", !.result = st]
<1>1. task[j] \in Task /\ task \in [Jobs -> Task]
  BY DEF IInv, Types
<1>2. task' = [task EXCEPT ![j] = t]
  BY <1>1 DEF Return
<1>3. t \in Task /\ t.pc = "returned" /\ SameRest(t, task[j])
  BY <1>1 DEF Task, Registry!Terminal, SameRest
<1> HIDE DEF t
<1> QED BY <1>2, <1>3

\* A handler that has returned has nothing left to keep true.
LEMMA ReturnedIsOK ==
  ASSUME IInv, NEW j \in Jobs, NEW t \in Task, t.pc = "returned", SameRest(t, task[j])
  PROVE  TaskOK(t)
BY DEF IInv, TaskOK, SameRest

LEMMA LocalReturnPreservesIInv ==
  ASSUME IInv, NEW j \in Jobs, NEW st \in {"succeeded", "failed"}, Return(j, st),
         UNCHANGED <<plan, disk, cli>>
  PROVE  IInv'
<1>1. PICK t \in Task : task' = [task EXCEPT ![j] = t] /\ t.pc = "returned" /\ SameRest(t, task[j])
  BY ReturnMoves
<1> QED BY <1>1, ReturnedIsOK, LocalStepPreservesIInv

\* A step to the next point of a handler, where no more holds than before.
LEMMA LocalGotoPreservesIInv ==
  ASSUME IInv, NEW j \in Jobs, NEW pc \in {"proposing", "resolving", "loading", "submitting", "marking"},
         Goto(j, pc), ~ task[j].provisional, task[j].source \in Sources,
         pc = "submitting" => plan # NoPlan,
         UNCHANGED <<plan, disk, cli>>
  PROVE  IInv'
<1>1. PICK t \in Task : task' = [task EXCEPT ![j] = t] /\ t.pc = pc /\ SameRest(t, task[j])
  BY GotoMoves DEF Pcs
<1>2. TaskOK(t)
  BY <1>1 DEF TaskOK, SameRest
<1> QED BY <1>1, <1>2, LocalStepPreservesIInv

\* The steps of a handler that read the plan and the disk.
ReadingStep(j) ==
  \/ CheckProposal(j) \/ ProposeIncomplete(j)
  \/ ResolveSource(j) \/ Seed(j) \/ SubmitWithoutExport(j) \/ CheckMark(j) \/ Fail(j)

LEMMA ReadingStepPreservesIInv ==
  ASSUME IInv, NEW j \in Jobs, ReadingStep(j)
  PROVE  IInv'
<1>1. UNCHANGED <<plan, disk, cli>>
  BY DEF ReadingStep, CheckProposal, ProposeIncomplete, ResolveSource, Seed, SubmitWithoutExport, CheckMark, Fail
<1>2. TaskOK(task[j])
  BY DEF IInv
<1>3. \/ Return(j, "succeeded") \/ Return(j, "failed")
      \/ /\ ~ task[j].provisional /\ task[j].source \in Sources
         /\ \/ Goto(j, "proposing") \/ Goto(j, "loading") \/ Goto(j, "marking")
            \/ plan # NoPlan /\ Goto(j, "submitting")
  <2>1. CASE CheckProposal(j)
    BY <1>2, <2>1 DEF CheckProposal, At, TaskOK, Runs
  <2>2. CASE ResolveSource(j)
    BY <1>2, <2>2 DEF ResolveSource, At, TaskOK
  <2>3. CASE Seed(j)
    BY <1>2, <2>3 DEF Seed, At, TaskOK, Runs
  <2>4. CASE CheckMark(j)
    BY <1>2, <2>4 DEF CheckMark, At, TaskOK, Runs
  <2>5. CASE ProposeIncomplete(j) \/ SubmitWithoutExport(j) \/ Fail(j)
    BY <2>5 DEF ProposeIncomplete, SubmitWithoutExport, Fail
  <2> QED BY <2>1, <2>2, <2>3, <2>4, <2>5 DEF ReadingStep
<1>4. CASE Return(j, "succeeded") \/ Return(j, "failed")
  BY <1>1, <1>4, LocalReturnPreservesIInv
<1>5. CASE /\ ~ task[j].provisional /\ task[j].source \in Sources
           /\ \/ Goto(j, "proposing") \/ Goto(j, "loading") \/ Goto(j, "marking")
              \/ plan # NoPlan /\ Goto(j, "submitting")
  BY <1>1, <1>5, LocalGotoPreservesIInv
<1> QED BY <1>3, <1>4, <1>5

LEMMA ResolveProvisionalPreservesIInv ==
  ASSUME IInv, NEW j \in Jobs, ResolveProvisional(j)
  PROVE  IInv'
<1> DEFINE s == task[j].source
<1>1. /\ task \in [Jobs -> Task] /\ task[j] \in Task /\ TaskOK(task[j])
      /\ task[j].pc = "start" /\ task[j].kind \in Runs /\ ~ task[j].provisional
      /\ UNCHANGED <<plan, disk, cli>>
  BY DEF IInv, Types, ResolveProvisional, At, TaskOK
<1>2. CASE s = Rerun /\ plan = NoPlan
  BY <1>1, <1>2, LocalReturnPreservesIInv DEF ResolveProvisional
<1>3. CASE s = Rerun /\ plan # NoPlan
  <2> DEFINE t == [task[j] EXCEPT !.source = plan.source, !.pc = "loading"]
  <2>1. plan.source \in Sources
    BY <1>3 DEF IInv, Types, Plan
  <2>2. task' = [task EXCEPT ![j] = t]
    BY <1>1, <1>3 DEF ResolveProvisional
  <2>3. t \in Task /\ t.pc = "loading" /\ t.source \in Sources /\ ~ t.provisional
    BY <1>1, <2>1 DEF Task
  <2> HIDE DEF t
  <2>4. TaskOK(t)
    BY <2>3 DEF TaskOK
  <2> QED BY <1>1, <2>2, <2>3, <2>4, LocalStepPreservesIInv
<1>4. CASE s # Rerun /\ IsUpload(s) /\ contract[s].state = "proposed"
  <2> DEFINE t == [task[j] EXCEPT !.revision = contract[s].revision, !.provisional = TRUE, !.pc = "running"]
  <2>1. contract[s].revision \in Revisions /\ s \in Uploads
    BY <1>4 DEF IInv, Types, IsUpload
  <2>2. task' = [task EXCEPT ![j] = t]
    BY <1>1, <1>4 DEF ResolveProvisional
  <2>3. t \in Task /\ t.pc = "running" /\ t.source \in Uploads /\ t.provisional /\ t.kind \in Runs
    BY <1>1, <2>1 DEF Task
  <2> HIDE DEF t
  <2>4. TaskOK(t)
    BY <2>3 DEF TaskOK, Sources
  <2> QED BY <1>1, <2>2, <2>3, <2>4, LocalStepPreservesIInv
<1>5. CASE s # Rerun /\ ~ (IsUpload(s) /\ contract[s].state = "proposed")
  <2>1. s \in Sources /\ Goto(j, "resolving")
    BY <1>1, <1>5 DEF ResolveProvisional, Task
  <2> QED BY <1>1, <2>1, LocalGotoPreservesIInv
<1> QED BY <1>2, <1>3, <1>4, <1>5

\* assert_confirmed: what is loaded is signed.
LEMMA LoadPreservesIInv ==
  ASSUME IInv, NEW j \in Jobs, Load(j)
  PROVE  IInv'
<1> DEFINE s == task[j].source
<1>1. /\ task \in [Jobs -> Task] /\ task[j] \in Task /\ TaskOK(task[j])
      /\ task[j].pc = "loading" /\ s \in Sources /\ ~ task[j].provisional
      /\ UNCHANGED <<plan, disk, cli>>
  BY DEF IInv, Types, Load, At, TaskOK
<1>2. CASE ~ IsUpload(s)
  <2>1. PICK t \in Task : task' = [task EXCEPT ![j] = t] /\ t.pc = "running" /\ SameRest(t, task[j])
    BY <1>2, GotoMoves DEF Load, Pcs
  <2>2. TaskOK(t)
    BY <1>1, <1>2, <2>1 DEF TaskOK, SameRest, IsUpload
  <2> QED BY <1>1, <2>1, <2>2, LocalStepPreservesIInv
<1>3. CASE IsUpload(s) /\ contract[s].state = "confirmed"
  <2> DEFINE t == [task[j] EXCEPT !.revision = contract[s].revision, !.pc = "running"]
  <2>1. contract[s].revision \in Revisions /\ s \in Uploads /\ Signature(s, contract[s].revision)
    BY <1>3 DEF IInv, Types, IsUpload, ConfirmedIsSigned
  <2>2. task' = [task EXCEPT ![j] = t]
    BY <1>1, <1>3 DEF Load
  <2>3. /\ t \in Task /\ t.pc = "running" /\ t.source = s /\ ~ t.provisional
        /\ t.revision = contract[s].revision
    BY <1>1, <2>1 DEF Task
  <2> HIDE DEF t
  <2>4. TaskOK(t)
    BY <1>1, <2>1, <2>3 DEF TaskOK
  <2> QED BY <1>1, <2>2, <2>3, <2>4, LocalStepPreservesIInv
<1>4. CASE IsUpload(s) /\ contract[s].state # "confirmed"
  BY <1>1, <1>4, LocalReturnPreservesIInv DEF Load
<1> QED BY <1>2, <1>3, <1>4

LEMMA ReplanPreservesIInv ==
  ASSUME IInv, NEW j \in Jobs, NEW fs \in SUBSET Findings, Replan(j, fs)
  PROVE  IInv'
<1> DEFINE t == [task[j] EXCEPT !.source = plan.source, !.revision = plan.revision,
                                !.found = fs, !.pc = "exporting"]
<1>1. /\ task \in [Jobs -> Task] /\ task[j] \in Task /\ ~ task[j].provisional /\ plan \in Plan
      /\ plan.source \in Uploads => Signature(plan.source, plan.revision)
      /\ UNCHANGED <<plan, disk, cli>>
  BY DEF IInv, Types, Replan, At, TaskOK, UnsignedIsNeverPassedOff, IsUpload
<1>2. plan.source \in Sources /\ plan.revision \in Revisions
  BY <1>1 DEF Plan
<1>3. task' = [task EXCEPT ![j] = t]
  BY <1>1 DEF Replan
<1>4. /\ t \in Task /\ t.pc = "exporting" /\ t.source = plan.source /\ ~ t.provisional
      /\ t.revision = plan.revision
  BY <1>1, <1>2 DEF Task
<1> HIDE DEF t
<1>5. TaskOK(t)
  BY <1>1, <1>2, <1>4 DEF TaskOK
<1> QED BY <1>1, <1>3, <1>4, <1>5, LocalStepPreservesIInv

\* A run becomes the plan only if its mapping was signed.
LEMMA RunPreservesIInv ==
  ASSUME IInv, NEW j \in Jobs, NEW fs \in SUBSET Findings, Run(j, fs)
  PROVE  IInv'
<1> DEFINE new == [source |-> task[j].source, revision |-> task[j].revision]
<1>1. /\ task \in [Jobs -> Task] /\ task[j] \in Task /\ TaskOK(task[j]) /\ task[j].pc = "running"
      /\ plan' = IF Commits(task[j]) THEN new ELSE plan
      /\ UNCHANGED <<disk, cli>>
  BY DEF IInv, Types, Run, At
<1>2. new \in Plan /\ new # NoPlan /\ new.source = task[j].source /\ new.revision = task[j].revision
  <2>1. task[j].source \in Sources /\ task[j].revision \in Revisions
    BY <1>1 DEF TaskOK, Task
  <2> QED BY <2>1, NoPlanAssumption DEF Plan
<1> HIDE DEF new
<1>3. AfterRun(task[j]) \in {"submitting", "recording", "exporting"}
  BY DEF AfterRun
<1>4. PICK t : t = [task[j] EXCEPT !.found = fs, !.pc = AfterRun(task[j])] /\ task' = [task EXCEPT ![j] = t]
  BY <1>1 DEF Run
<1>5. t \in Task /\ t.pc = AfterRun(task[j]) /\ t.kind = task[j].kind /\ t.source = task[j].source
      /\ t.provisional = task[j].provisional /\ t.revision = task[j].revision
  BY <1>1, <1>3, <1>4 DEF Task
<1>6. Grows
  BY <1>1, <1>2 DEF Grows, disk
<1>7. TaskOK(t)'
  <2>1. /\ task[j].provisional => task[j].kind \in Runs /\ task[j].source \in Uploads
        /\ ~ task[j].provisional /\ task[j].source \in Uploads => Signature(task[j].source, task[j].revision)
        /\ task[j].source \in Sources
    BY <1>1 DEF TaskOK
  <2>2. /\ AfterRun(task[j]) = "submitting" => task[j].kind = "constraint_submit" /\ ~ task[j].provisional
        /\ AfterRun(task[j]) = "recording" => task[j].provisional
        /\ AfterRun(task[j]) = "exporting" => ~ task[j].provisional
    BY <2>1 DEF AfterRun, Runs
  <2>3. AfterRun(task[j]) = "submitting" => plan' # NoPlan
    BY <1>1, <1>2, <2>2 DEF Commits
  <2> QED BY <1>1, <1>3, <1>5, <2>1, <2>2, <2>3 DEF TaskOK, Signature, disk
<1>8. task' \in [Jobs -> Task] /\ \A i \in Jobs : TaskOK(task[i])'
  BY <1>4, <1>5, <1>6, <1>7, HandlerMoves
<1>9. plan' \in Plan \cup {NoPlan}
  BY <1>1, <1>2 DEF IInv, Types
<1>10. Types'
  BY <1>1, <1>8, <1>9 DEF IInv, Types, disk
<1>11. plan' # NoPlan /\ plan'.source \in Uploads => Signature(plan'.source, plan'.revision)
  BY <1>1, <1>2 DEF IInv, UnsignedIsNeverPassedOff, IsUpload, Commits, TaskOK
<1>12. UnsignedIsNeverPassedOff'
  BY <1>1, <1>11 DEF IInv, UnsignedIsNeverPassedOff, IsUpload, Signature, disk
<1> QED
  BY <1>1, <1>8, <1>10, <1>12 DEF IInv, ConfirmedIsSigned, Signature, ExportIsOfUpload,
     ProvenancePrecedesExport, disk

\* The provenance of a provisional run's findings is on disk from here on.
LEMMA RecordProvenancePreservesIInv ==
  ASSUME IInv, NEW j \in Jobs, RecordProvenance(j)
  PROVE  IInv'
<1>1. /\ TaskOK(task[j]) /\ task[j].pc = "recording" /\ task[j].provisional
      /\ provenance' = provenance \cup (task[j].found \X {task[j].source})
      /\ UNCHANGED <<plan, contract, export, written, signed, cli>>
  BY DEF IInv, RecordProvenance, At, TaskOK
<1>2. PICK t \in Task : task' = [task EXCEPT ![j] = t] /\ t.pc = "exporting" /\ SameRest(t, task[j])
  BY GotoMoves DEF RecordProvenance, Pcs
<1>3. Grows
  BY <1>1 DEF Grows
<1>4. TaskOK(t)'
  BY <1>1, <1>2 DEF TaskOK, SameRest
<1>5. task' \in [Jobs -> Task] /\ \A i \in Jobs : TaskOK(task[i])'
  BY <1>2, <1>3, <1>4, HandlerMoves
<1>6. ProvenancePrecedesExport'
  BY <1>1 DEF IInv, ProvenancePrecedesExport
<1> QED
  BY <1>1, <1>5, <1>6 DEF IInv, Types, ConfirmedIsSigned, Signature, ExportIsOfUpload,
     UnsignedIsNeverPassedOff, IsUpload

LEMMA WriteExportPreservesIInv ==
  ASSUME IInv, NEW j \in Jobs, WriteExport(j)
  PROVE  IInv'
<1> DEFINE new == Exported(task[j])
<1>1. /\ task[j] \in Task /\ TaskOK(task[j]) /\ task[j].pc = "exporting" /\ export' = new
      /\ UNCHANGED <<plan, contract, provenance, written, signed, cli>>
  BY DEF IInv, Types, WriteExport, At
<1>2. PICK t \in Task : task' = [task EXCEPT ![j] = t] /\ t.pc = "returned" /\ SameRest(t, task[j])
  BY ReturnMoves DEF WriteExport
<1>3. Grows
  BY <1>1 DEF Grows
<1>4. TaskOK(t)'
  BY <1>2, <1>3, ReturnedIsOK, TaskOKIsStable
<1>5. task' \in [Jobs -> Task] /\ \A i \in Jobs : TaskOK(task[i])'
  BY <1>2, <1>3, <1>4, HandlerMoves
<1>6. /\ new \in Export /\ new.source = task[j].source /\ new.revision = task[j].revision
      /\ new.provisional = task[j].provisional /\ new.found = task[j].found
  <2>1. task[j].source \in Sources
    BY <1>1 DEF TaskOK
  <2> QED BY <1>1, <2>1 DEF Exported, Export, Task
<1> HIDE DEF new
<1>7. /\ new.provisional => new.source \in Uploads
      /\ new.provisional => \A f \in new.found : <<f, new.source>> \in provenance
      /\ ~ new.provisional /\ new.source \in Uploads => Signature(new.source, new.revision)
  BY <1>1, <1>6 DEF TaskOK
<1>8. export'.provisional => export'.source \in Uploads
  BY <1>1, <1>7
<1>9. export'.provisional => \A f \in export'.found : <<f, export'.source>> \in provenance
  BY <1>1, <1>7
<1>10. ~ export'.provisional /\ export'.source \in Uploads => Signature(export'.source, export'.revision)
  BY <1>1, <1>7
<1>11. ExportIsOfUpload' /\ ProvenancePrecedesExport'
  BY <1>1, <1>8, <1>9 DEF ExportIsOfUpload, ProvenancePrecedesExport
<1>12. UnsignedIsNeverPassedOff'
  BY <1>1, <1>10 DEF IInv, UnsignedIsNeverPassedOff, Signature, IsUpload
<1>13. Types'
  BY <1>1, <1>5, <1>6 DEF IInv, Types
<1> QED
  BY <1>1, <1>5, <1>11, <1>12, <1>13 DEF IInv, ConfirmedIsSigned, Signature

LEMMA MarkPreservesIInv ==
  ASSUME IInv, NEW j \in Jobs, Mark(j)
  PROVE  IInv'
<1>1. UNCHANGED <<plan, contract, provenance, export, written, signed, cli>>
  BY DEF Mark
<1>2. PICK t \in Task : task' = [task EXCEPT ![j] = t] /\ t.pc = "returned" /\ SameRest(t, task[j])
  BY ReturnMoves DEF Mark
<1>3. Grows
  BY <1>1 DEF Grows
<1>4. TaskOK(t)'
  BY <1>2, <1>3, ReturnedIsOK, TaskOKIsStable
<1>5. task' \in [Jobs -> Task] /\ \A i \in Jobs : TaskOK(task[i])'
  BY <1>2, <1>3, <1>4, HandlerMoves
<1> QED
  BY <1>1, <1>5 DEF IInv, Types, ConfirmedIsSigned, Signature, ExportIsOfUpload, UnsignedIsNeverPassedOff,
     ProvenancePrecedesExport, IsUpload

\* A proposal is not confirmed: no signature is claimed for it.
LEMMA WriteProposalPreservesDisk ==
  ASSUME IInv, NEW u, WriteProposal(u)
  PROVE  /\ Grows \/ ~ (plan # NoPlan => plan' # NoPlan)
         /\ contract' \in [Uploads -> [state : {"none", "proposed", "confirmed"}, revision : Revisions]]
         /\ written' \in Revisions /\ ConfirmedIsSigned'
         /\ UNCHANGED <<provenance, export, signed>>
<1>1. /\ written' = written + 1 /\ written < MaxRevisions /\ written \in Revisions
      /\ contract \in [Uploads -> [state : {"none", "proposed", "confirmed"}, revision : Revisions]]
      /\ contract' = [contract EXCEPT ![u] = [state |-> "proposed", revision |-> written']]
      /\ UNCHANGED <<provenance, export, signed>>
  BY DEF IInv, Types, WriteProposal
<1>2. written' \in Revisions
  BY <1>1, RevisionAssumption DEF Revisions
<1>3. contract' \in [Uploads -> [state : {"none", "proposed", "confirmed"}, revision : Revisions]]
  BY <1>1, <1>2
<1>4. \A v \in Uploads : contract'[v] = contract[v] \/ contract'[v].state = "proposed"
  BY <1>1
<1>5. ConfirmedIsSigned'
  BY <1>1, <1>4 DEF IInv, ConfirmedIsSigned, Signature
<1> QED BY <1>1, <1>2, <1>3, <1>5 DEF Grows

LEMMA ProposePreservesIInv ==
  ASSUME IInv, NEW j \in Jobs, Propose(j)
  PROVE  IInv'
<1>1. WriteProposal(task[j].source) /\ UNCHANGED <<plan, cli>>
  BY DEF Propose
<1>2. /\ Grows /\ ConfirmedIsSigned' /\ written' \in Revisions
      /\ contract' \in [Uploads -> [state : {"none", "proposed", "confirmed"}, revision : Revisions]]
      /\ UNCHANGED <<provenance, export, signed>>
  BY <1>1, WriteProposalPreservesDisk
<1>3. PICK t \in Task : task' = [task EXCEPT ![j] = t] /\ t.pc = "returned" /\ SameRest(t, task[j])
  BY ReturnMoves DEF Propose
<1>4. TaskOK(t)'
  BY <1>2, <1>3, ReturnedIsOK, TaskOKIsStable
<1>5. task' \in [Jobs -> Task] /\ \A i \in Jobs : TaskOK(task[i])'
  BY <1>2, <1>3, <1>4, HandlerMoves
<1> QED
  BY <1>1, <1>2, <1>5 DEF IInv, Types, Signature, ExportIsOfUpload, UnsignedIsNeverPassedOff,
     ProvenancePrecedesExport, IsUpload

-----------------------------------------------------------------------------
(* Everything else *)

LEMMA InputsAreStarts ==
  ASSUME NEW input \in Inputs
  PROVE  /\ input \in Task /\ input.pc = "start" /\ ~ input.provisional
         /\ input.kind \notin Runs => input.source \in Sources
<1>1. ASSUME NEW kind \in Kinds, NEW source \in Sources \cup {Rerun}, NEW finding \in Findings \cup {"none"},
             NEW t, t = Input(kind, source, finding)
      PROVE  t \in Task /\ t.pc = "start" /\ ~ t.provisional /\ t.kind = kind /\ t.source = source
  BY <1>1, NoTaskIsIdle DEF Input, Task
<1>2. /\ Runs \subseteq Kinds /\ {"ingest_propose", "run_agents", "constraint_submit", "remediation_mark"} \subseteq Kinds
      /\ Uploads \subseteq Sources /\ Native \in Sources /\ "run_agents" \in Runs
  BY DEF Runs, Kinds, Sources
<1>3. CASE input \in {Input("ingest_propose", u, "none") : u \in Uploads}
  <2>1. PICK u \in Uploads : input = Input("ingest_propose", u, "none")
    BY <1>3
  <2> QED BY <1>1, <1>2, <2>1
<1>4. CASE input \in {Overwriting(Input("ingest_propose", u, "none")) : u \in Uploads}
  <2>1. PICK u \in Uploads : input = Overwriting(Input("ingest_propose", u, "none"))
    BY <1>4
  <2>2. PICK t : t = Input("ingest_propose", u, "none")
    OBVIOUS
  <2>3. t \in Task /\ t.pc = "start" /\ ~ t.provisional /\ t.kind = "ingest_propose" /\ t.source = u
    BY <1>1, <1>2, <2>2
  <2>4. input = [t EXCEPT !.overwrite = TRUE]
    BY <2>1, <2>2 DEF Overwriting
  <2> QED BY <1>2, <2>3, <2>4 DEF Task
<1>5. CASE input \in {Input(k, s, "none") : k \in Runs, s \in Sources}
  <2>1. PICK k \in Runs, s \in Sources : input = Input(k, s, "none")
    BY <1>5
  <2> QED BY <1>1, <1>2, <2>1
<1>6. CASE input = Input("run_agents", Rerun, "none")
  BY <1>1, <1>2, <1>6
<1>7. CASE input = Input("constraint_submit", Native, "none")
  BY <1>1, <1>2, <1>7
<1>8. CASE input \in {Input("remediation_mark", Native, f) : f \in Findings}
  <2>1. PICK f \in Findings : input = Input("remediation_mark", Native, f)
    BY <1>8
  <2> QED BY <1>1, <1>2, <2>1
<1> QED BY <1>3, <1>4, <1>5, <1>6, <1>7, <1>8 DEF Inputs

LEMMA SubmitPreservesIInv ==
  ASSUME IInv, NEW j \in Jobs, NEW input \in Inputs, Submit(j, input)
  PROVE  IInv'
<1>1. task' = [task EXCEPT ![j] = input] /\ UNCHANGED <<plan, disk, cli>>
  BY DEF Submit
<1>2. /\ input \in Task /\ input.pc = "start" /\ ~ input.provisional
      /\ input.kind \notin Runs => input.source \in Sources
  BY InputsAreStarts
<1>3. TaskOK(input)
  BY <1>2 DEF TaskOK
<1> QED BY <1>1, <1>2, <1>3, LocalStepPreservesIInv

LEMMA IdlePreservesIInv ==
  ASSUME IInv, UNCHANGED <<task, plan, disk>>,
         cli' \in [Processes -> [doing : {"nothing", "proposing", "confirming"},
                                 upload : Uploads \cup {Native}, revision : Revisions]]
  PROVE  IInv'
BY DEF IInv, Types, disk, ConfirmedIsSigned, Signature, TaskOK, ExportIsOfUpload, UnsignedIsNeverPassedOff,
   ProvenancePrecedesExport, IsUpload

LEMMA ThreadPreservesIInv ==
  ASSUME IInv, NEW j \in Jobs, Thread(j)
  PROVE  IInv'
<1>1. UNCHANGED <<plan, disk, cli>> /\ (UNCHANGED task \/ task' = [task EXCEPT ![j] = NoTask])
  BY DEF Thread
<1>2. CASE UNCHANGED task
  BY <1>1, <1>2, IdlePreservesIInv DEF IInv, Types
<1>3. CASE task' = [task EXCEPT ![j] = NoTask]
  <2>1. TaskOK(NoTask)
    BY NoTaskIsIdle DEF TaskOK
  <2> QED BY <1>1, <1>3, <2>1, NoTaskIsIdle, LocalStepPreservesIInv
<1> QED BY <1>1, <1>2, <1>3

LEMMA CommandPreservesIInv ==
  ASSUME IInv, NEW p \in Processes, Command(p)
  PROVE  IInv'
<1>1. /\ cli \in [Processes -> [doing : {"nothing", "proposing", "confirming"},
                               upload : Uploads \cup {Native}, revision : Revisions]]
      /\ contract \in [Uploads -> [state : {"none", "proposed", "confirmed"}, revision : Revisions]]
      /\ NoCommand \in [doing : {"nothing", "proposing", "confirming"},
                        upload : Uploads \cup {Native}, revision : Revisions]
  BY ZeroIsARevision DEF IInv, Types, NoCommand
<1>2. ASSUME NEW u \in Uploads, NEW doing \in {"proposing", "confirming"}, BeginCommand(p, u, doing)
      PROVE  IInv'
  <2>1. UNCHANGED <<task, plan, disk>>
    BY <1>2 DEF BeginCommand
  <2>2. cli' \in [Processes -> [doing : {"nothing", "proposing", "confirming"},
                               upload : Uploads \cup {Native}, revision : Revisions]]
    BY <1>1, <1>2, ZeroIsARevision DEF BeginCommand
  <2> QED BY <2>1, <2>2, IdlePreservesIInv
<1>3. CASE AbandonCommand(p)
  <2>1. UNCHANGED <<task, plan, disk>> /\ cli' = [cli EXCEPT ![p] = NoCommand]
    BY <1>3 DEF AbandonCommand
  <2> QED BY <1>1, <2>1, IdlePreservesIInv
<1>4. CASE Sign(p)
  <2> DEFINE u == cli[p].upload
             r == cli[p].revision
  <2>1. /\ contract' = [contract EXCEPT ![u] = [state |-> "confirmed", revision |-> r]]
        /\ signed' = signed \cup {<<u, r>>} /\ cli' = [cli EXCEPT ![p] = NoCommand]
        /\ UNCHANGED <<task, plan, provenance, export, written>> /\ r \in Revisions
    BY <1>1, <1>4 DEF Sign
  <2> HIDE DEF u, r
  <2>2. Grows
    BY <2>1 DEF Grows
  <2>3. \A i \in Jobs : TaskOK(task[i])'
    <3> SUFFICES ASSUME NEW i \in Jobs PROVE TaskOK(task[i])'
      OBVIOUS
    <3>1. PICK t : t = task[i] /\ t = task'[i]
      BY <2>1
    <3>2. TaskOK(t)'
      BY <2>2, <3>1, TaskOKIsStable DEF IInv
    <3> QED BY <3>1, <3>2 DEF TaskOK
  <2>4. contract' \in [Uploads -> [state : {"none", "proposed", "confirmed"}, revision : Revisions]]
    BY <1>1, <2>1
  <2>5. ConfirmedIsSigned'
    <3>1. \A v \in Uploads : contract'[v] = contract[v] \/ (v = u /\ contract'[v].revision = r)
      BY <1>1, <2>1
    <3> QED BY <2>1, <3>1 DEF IInv, ConfirmedIsSigned, Signature
  <2>6. Types'
    BY <1>1, <2>1, <2>4 DEF IInv, Types
  <2> QED
    BY <2>1, <2>3, <2>5, <2>6 DEF IInv, ExportIsOfUpload, UnsignedIsNeverPassedOff, Signature,
       ProvenancePrecedesExport, IsUpload
<1>5. CASE ProposeElsewhere(p)
  <2>1. WriteProposal(cli[p].upload) /\ UNCHANGED <<task, plan>> /\ cli' = [cli EXCEPT ![p] = NoCommand]
    BY <1>5 DEF ProposeElsewhere
  <2>2. /\ ConfirmedIsSigned' /\ written' \in Revisions
        /\ contract' \in [Uploads -> [state : {"none", "proposed", "confirmed"}, revision : Revisions]]
        /\ UNCHANGED <<provenance, export, signed>>
    BY <2>1, WriteProposalPreservesDisk
  <2>3. cli' \in [Processes -> [doing : {"nothing", "proposing", "confirming"},
                               upload : Uploads \cup {Native}, revision : Revisions]]
    BY <1>1, <2>1
  <2> QED
    BY <2>1, <2>2, <2>3 DEF IInv, Types, TaskOK, ExportIsOfUpload, UnsignedIsNeverPassedOff, Signature,
       ProvenancePrecedesExport, IsUpload
<1> QED BY <1>2, <1>3, <1>4, <1>5 DEF Command

LEMMA RestartPreservesIInv ==
  ASSUME IInv, Restart
  PROVE  IInv'
<1>1. task' = [j \in Jobs |-> NoTask] /\ plan' = NoPlan /\ UNCHANGED <<disk, cli>>
  BY DEF Restart
<1>2. task' \in [Jobs -> Task] /\ \A j \in Jobs : TaskOK(task[j])'
  BY <1>1, NoTaskIsIdle DEF TaskOK
<1> QED
  BY <1>1, <1>2 DEF IInv, Types, disk, ConfirmedIsSigned, Signature, ExportIsOfUpload,
     UnsignedIsNeverPassedOff, ProvenancePrecedesExport, IsUpload

LEMMA NextPreservesIInv ==
  ASSUME IInv, [Next]_vars
  PROVE  IInv'
<1>1. ASSUME NEW j \in Jobs, HandlerStep(j) PROVE IInv'
  <2>1. CASE ReadingStep(j)
    BY <2>1, ReadingStepPreservesIInv
  <2>2. CASE ResolveProvisional(j) \/ Load(j)
    BY <2>2, ResolveProvisionalPreservesIInv, LoadPreservesIInv
  <2>3. CASE \E fs \in SUBSET Findings : Run(j, fs) \/ Replan(j, fs)
    BY <2>3, RunPreservesIInv, ReplanPreservesIInv
  <2>4. CASE Propose(j) \/ RecordProvenance(j) \/ WriteExport(j) \/ Mark(j)
    BY <2>4, ProposePreservesIInv, RecordProvenancePreservesIInv, WriteExportPreservesIInv, MarkPreservesIInv
  <2> QED BY <1>1, <2>1, <2>2, <2>3, <2>4 DEF HandlerStep, ReadingStep
<1>2. CASE UNCHANGED vars
  <2>1. UNCHANGED <<task, plan, disk, cli>>
    BY <1>2 DEF vars
  <2> QED BY <2>1, IdlePreservesIInv DEF IInv, Types
<1> QED
  BY <1>1, <1>2, SubmitPreservesIInv, ThreadPreservesIInv, CommandPreservesIInv, RestartPreservesIInv DEF Next

\* Only CheckMark takes a handler to "marking".
LEMMA MarkingIsCheckMarks ==
  ASSUME IInv, [Next]_vars, NEW j \in Jobs, task'[j].pc = "marking", task[j].pc # "marking"
  PROVE  CheckMark(j)
<1>1. task \in [Jobs -> Task]
  BY DEF IInv, Types
<1>2. ASSUME NEW i \in Jobs, HandlerStep(i) PROVE CheckMark(j)
  <2> DEFINE Stays == task'[j].pc = task[j].pc \/ task'[j].pc # "marking"
  <2>1. ASSUME NEW pc \in Pcs \ {"marking"}, Goto(i, pc) PROVE Stays
    BY <1>1, <2>1 DEF Goto
  <2>2. ASSUME NEW st \in {"succeeded", "failed"}, Return(i, st) PROVE Stays
    BY <1>1, <2>2 DEF Return
  <2>3. CASE ReadingStep(i) /\ ~ CheckMark(i)
    <3>1. \/ Return(i, "succeeded") \/ Return(i, "failed")
          \/ Goto(i, "proposing") \/ Goto(i, "loading") \/ Goto(i, "submitting")
      BY <2>3 DEF ReadingStep, CheckProposal, ProposeIncomplete, ResolveSource, Seed, SubmitWithoutExport, Fail
    <3> QED BY <2>1, <2>2, <3>1 DEF Pcs
  <2>4. CASE CheckMark(i)
    <3>1. i = j
      BY <1>1, <2>4 DEF CheckMark, Goto, Return
    <3> QED BY <2>4, <3>1
  <2>0. task[i] \in Task
    BY <1>1
  <2>5. ASSUME NEW t, t.pc # "marking", task' = [task EXCEPT ![i] = t] PROVE Stays
    BY <1>1, <2>5
  <2>6. CASE ResolveProvisional(i) \/ Load(i) \/ \E fs \in SUBSET Findings : Run(i, fs) \/ Replan(i, fs)
    <3>1. ASSUME NEW r, NEW pc \in Pcs \ {"marking"},
                 task' = [task EXCEPT ![i].revision = r, ![i].provisional = TRUE, ![i].pc = pc]
          PROVE  Stays
      <4>1. PICK t : t = [task[i] EXCEPT !.revision = r, !.provisional = TRUE, !.pc = pc] /\ task' = [task EXCEPT ![i] = t]
        BY <1>1, <3>1
      <4>2. t.pc = pc
        BY <2>0, <4>1 DEF Task
      <4> QED BY <2>5, <4>1, <4>2
    <3>2. ASSUME NEW r, NEW pc \in Pcs \ {"marking"},
                 task' = [task EXCEPT ![i].revision = r, ![i].pc = pc]
          PROVE  Stays
      <4>1. PICK t : t = [task[i] EXCEPT !.revision = r, !.pc = pc] /\ task' = [task EXCEPT ![i] = t]
        BY <1>1, <3>2
      <4>2. t.pc = pc
        BY <2>0, <4>1 DEF Task
      <4> QED BY <2>5, <4>1, <4>2
    <3>3. ASSUME NEW x, NEW pc \in Pcs \ {"marking"},
                 task' = [task EXCEPT ![i].source = x, ![i].pc = pc]
          PROVE  Stays
      <4>1. PICK t : t = [task[i] EXCEPT !.source = x, !.pc = pc] /\ task' = [task EXCEPT ![i] = t]
        BY <1>1, <3>3
      <4>2. t.pc = pc
        BY <2>0, <4>1 DEF Task
      <4> QED BY <2>5, <4>1, <4>2
    <3>9. ASSUME NEW x, NEW pc \in Pcs \ {"marking"},
                 task' = [task EXCEPT ![i].found = x, ![i].pc = pc]
          PROVE  Stays
      <4>1. PICK t : t = [task[i] EXCEPT !.found = x, !.pc = pc] /\ task' = [task EXCEPT ![i] = t]
        BY <1>1, <3>9
      <4>2. t.pc = pc
        BY <2>0, <4>1 DEF Task
      <4> QED BY <2>5, <4>1, <4>2
    <3>4. ASSUME NEW x, NEW r, NEW fs,
                 task' = [task EXCEPT ![i].source = x, ![i].revision = r, ![i].found = fs, ![i].pc = "exporting"]
          PROVE  Stays
      <4>1. PICK t : /\ t = [task[i] EXCEPT !.source = x, !.revision = r, !.found = fs, !.pc = "exporting"]
                     /\ task' = [task EXCEPT ![i] = t]
        BY <1>1, <3>4
      <4>2. t.pc = "exporting"
        BY <2>0, <4>1 DEF Task
      <4> QED BY <2>5, <4>1, <4>2
    <3>5. CASE ResolveProvisional(i)
      <4>1. \/ Return(i, "failed") \/ Goto(i, "resolving")
            \/ task' = [task EXCEPT ![i].source = plan.source, ![i].pc = "loading"]
            \/ \E r : task' = [task EXCEPT ![i].revision = r, ![i].provisional = TRUE, ![i].pc = "running"]
        BY <3>5 DEF ResolveProvisional
      <4>2. ASSUME NEW r, task' = [task EXCEPT ![i].revision = r, ![i].provisional = TRUE, ![i].pc = "running"]
            PROVE  Stays
        <5>1. "running" \in Pcs \ {"marking"}
          BY DEF Pcs
        <5> QED BY ONLY <3>1, <4>2, <5>1
      <4>3. ASSUME task' = [task EXCEPT ![i].source = plan.source, ![i].pc = "loading"] PROVE Stays
        <5>1. "loading" \in Pcs \ {"marking"}
          BY DEF Pcs
        <5> QED BY ONLY <3>3, <4>3, <5>1
      <4>4. CASE Return(i, "failed") \/ Goto(i, "resolving")
        BY <2>1, <2>2, <4>4 DEF Pcs
      <4> QED BY <4>1, <4>2, <4>3, <4>4
    <3>6. CASE Load(i)
      <4>1. \/ Return(i, "failed") \/ Goto(i, "running")
            \/ \E r : task' = [task EXCEPT ![i].revision = r, ![i].pc = "running"]
        BY <3>6 DEF Load
      <4>2. ASSUME NEW r, task' = [task EXCEPT ![i].revision = r, ![i].pc = "running"] PROVE Stays
        <5>1. "running" \in Pcs \ {"marking"}
          BY DEF Pcs
        <5> QED BY ONLY <3>2, <4>2, <5>1
      <4>3. CASE Return(i, "failed") \/ Goto(i, "running")
        BY <2>1, <2>2, <4>3 DEF Pcs
      <4> QED BY <4>1, <4>2, <4>3
    <3>7. ASSUME NEW fs \in SUBSET Findings, Run(i, fs) PROVE Stays
      <4>1. AfterRun(task[i]) \in Pcs \ {"marking"} /\ task' = [task EXCEPT ![i].found = fs, ![i].pc = AfterRun(task[i])]
        BY <3>7 DEF AfterRun, Run, Pcs
      <4> QED BY <3>9, <4>1
    <3>8. ASSUME NEW fs \in SUBSET Findings, Replan(i, fs) PROVE Stays
      BY <3>4, <3>8 DEF Replan
    <3> QED BY <2>6, <3>5, <3>6, <3>7, <3>8
  <2>8. CASE RecordProvenance(i) \/ WriteExport(i) \/ Mark(i) \/ Propose(i)
    <3>1. Return(i, "succeeded") \/ Goto(i, "exporting")
      BY <2>8 DEF RecordProvenance, WriteExport, Mark, Propose
    <3> QED BY <2>1, <2>2, <3>1 DEF Pcs
  <2> QED BY <1>2, <2>3, <2>4, <2>6, <2>8 DEF HandlerStep, ReadingStep
<1>3. ASSUME NEW i \in Jobs, NEW input \in Inputs, Submit(i, input) PROVE FALSE
  <2>1. input.pc = "start"
    BY InputsAreStarts
  <2> QED BY <1>1, <1>3, <2>1 DEF Submit
<1>4. ASSUME NEW i \in Jobs, Thread(i) PROVE FALSE
  BY <1>1, <1>4, NoTaskIsIdle DEF Thread
<1>5. ASSUME NEW p \in Processes, Command(p) PROVE FALSE
  BY <1>5 DEF Command, BeginCommand, Sign, ProposeElsewhere, AbandonCommand
<1>6. CASE Restart
  BY <1>6, NoTaskIsIdle DEF Restart
<1>7. CASE UNCHANGED vars
  BY <1>7 DEF vars
<1> QED
  BY <1>2, <1>3, <1>4, <1>5, <1>6, <1>7 DEF Next

-----------------------------------------------------------------------------
(* Theorems *)

\* The inductive invariant of the plan and what is on disk.
THEOREM InductiveInvariant == Spec => []IInv
<1>1. Init => IInv
  BY InitIInv
<1>2. IInv /\ [Next]_vars => IInv'
  BY NextPreservesIInv
<1> QED
  BY <1>1, <1>2, PTL DEF Spec

\* UnsignedIsNeverPassedOff, for any number of jobs and of processes that sign or propose.
THEOREM PlansAndExportsAreSigned == Spec => []UnsignedIsNeverPassedOff
<1>1. IInv => UnsignedIsNeverPassedOff
  BY DEF IInv
<1> QED
  BY <1>1, InductiveInvariant, PTL

\* ProvenancePrecedesExport, through failures and restarts at any point.
THEOREM GuardIsOnDiskFirst == Spec => []ProvenancePrecedesExport
<1>1. IInv => ProvenancePrecedesExport
  BY DEF IInv
<1> QED
  BY <1>1, InductiveInvariant, PTL

\* ShownFindingIsGated: a step to "marking" is CheckMark's, and the finding has provenance
\* under the format of the export that shows it.
THEOREM MarksPassTheGate == Spec => ShownFindingIsGated
<1> DEFINE Gated ==
      \A j \in Jobs :
        (task'[j].pc = "marking" /\ task[j].pc # "marking"
         /\ export # NoPlan /\ export.provisional /\ task[j].finding \in export.found)
        => contract[export.source].state = "confirmed"
<1>1. ASSUME IInv, [Next]_vars PROVE Gated
  <2> SUFFICES ASSUME NEW j \in Jobs, task'[j].pc = "marking", task[j].pc # "marking",
                      export # NoPlan, export.provisional, task[j].finding \in export.found
               PROVE  contract[export.source].state = "confirmed"
    OBVIOUS
  <2>1. /\ task \in [Jobs -> Task] /\ export.source \in Uploads
        /\ <<task[j].finding, export.source>> \in provenance
    BY <1>1 DEF IInv, Types, ExportIsOfUpload, ProvenancePrecedesExport
  <2>2. CheckMark(j)
    BY <1>1, <2>1, MarkingIsCheckMarks
  <2>3. MayMark(task[j].finding)
    <3>1. task[j] \in Task
      BY <2>1
    <3>2. ~ Return(j, "failed")
      BY <2>1, <3>1 DEF Return, Task
    <3> QED BY <2>2, <3>2 DEF CheckMark
  <2> QED BY <2>1, <2>3 DEF MayMark, Formats
<1> QED
  BY <1>1, InductiveInvariant, PTL DEF Spec, ShownFindingIsGated
=============================================================================
