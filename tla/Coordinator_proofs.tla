-------------------------- MODULE Coordinator_proofs --------------------------
(***************************************************************************)
(* What holds of the agent pipeline for every set of findings and of       *)
(* constraints, every scope and every rule of what is contested: a         *)
(* dispatch accounts for its targets, no recommendation lacks its          *)
(* evidence, a re-plan leaves no older score unless an agent repeats one,  *)
(* and the current plan is replaced whole or in its targets only.          *)
(*                                                                         *)
(* The second half is about TreeOfThought, the search behind SearchDone:   *)
(* its books, its critiques and its verdicts, for every beam width, depth  *)
(* and margin.                                                             *)
(***************************************************************************)
EXTENDS Coordinator, TreeOfThought, TLAPS, FiniteSetTheorems

Dispatching == phase \in {"dispatch", "kickoff", "tot"}

\* Which states exist and which sets are in use follows from the phase.
PhaseShape ==
  /\ Dispatching => Work \in RunState
  /\ phase \in {"interpreting", "exporting"} \/ Replanning => state["current"] \in RunState
  /\ phase \in {"idle", "interpreting"} => ~ Replanning
  /\ phase = "recording" => Replanning
  /\ Dispatching /\ ~ Replanning => target = Findings
  /\ queue \cup completed \subseteq target
  /\ phase \in {"idle", "interpreting", "dispatch", "recording", "exporting"} => queue = {}
  /\ phase # "kickoff" => completed = {}
  /\ phase \in {"tot", "recording"} => stage = "risk"
  /\ phase = "dispatch" \/ stage # "risk" \/ ~ Replanning => called = {}

\* In the middle of a stage a target has a result, a failure, or a task to come, and no
\* result before its task is resolved.
Accounting ==
  /\ phase = "kickoff" =>
       /\ target \subseteq Work.done[stage] \cup Work.failed[stage] \cup queue \cup completed
       /\ (queue \cup completed) \cap Work.done[stage] = {}
  /\ EveryTargetIsAccounted

\* While Risk runs, what it has done and will do has its evidence.
Evidence ==
  /\ phase = "kickoff" /\ stage = "risk" =>
       queue \cup completed \cup (target \cap Work.done["risk"])
         \subseteq Work.done["research"] \cap Work.done["environment"]
  /\ EvidenceIsThere

\* Once Risk calls the tool for a finding, what the log says last of it has the submitted
\* constraint folded in, and so has the score that is accepted after it.
FoldedIn(c) ==
  /\ phase = "kickoff" /\ stage = "risk" =>
       \A f \in called : \A cs \in Work.log[f] : c \in cs
  /\ \/ phase = "kickoff" /\ stage = "risk"
     \/ phase \in {"tot", "recording", "exporting"}
     => \A f \in called \cap target \cap Work.done["risk"] : c \in Work.applied[f]

Freshness ==
  \A c \in submitted :
    /\ constraint[c] # "new"
    /\ target \subseteq Scope[c]
    /\ constraint[c] = "retracted" \/ FoldedIn(c)

\* The inductive invariant.
IInv == TypeOK /\ PhaseShape /\ Accounting /\ Evidence /\ Freshness

-----------------------------------------------------------------------------
(* What the stages share.                                                  *)

LEMMA EmptyStateIsTyped == EmptyState \in RunState
BY DEF EmptyState, RunState, NothingApplied, Calls

\* A stage writes one RunState and leaves the other alone.
LEMMA WriteWork ==
  ASSUME TypeOK, NEW s \in RunState, state' = [state EXCEPT ![Slot] = s], UNCHANGED submitted
  PROVE  /\ state' \in [{"current", "fresh"} -> RunState \cup {NoState}]
         /\ Work' = s
         /\ Replanning => state'["current"] = s
         /\ ~ Replanning => state'["current"] = state["current"]
BY DEF TypeOK, Slot, Work, Replanning

LEMMA KeepWork ==
  ASSUME UNCHANGED <<state, submitted>>
  PROVE  Work' = Work /\ Replanning' = Replanning
BY DEF Work, Slot, Replanning

-----------------------------------------------------------------------------
(* Starting and ending a job.                                              *)

LEMMA InitEstablishesIInv == Init => IInv
<1> SUFFICES ASSUME Init PROVE IInv
  OBVIOUS
<1>1. export \in [{} -> Row]
  BY DEF Init
<1>2. TypeOK
  BY <1>1, MaxJobsAssumption
  DEF Init, TypeOK, Kinds, Phases, Stages, NothingApplied
<1> QED
  BY <1>2
  DEF Init, IInv, PhaseShape, Accounting, Evidence, Freshness, FoldedIn, EveryTargetIsAccounted,
      EvidenceIsThere, Dispatching, Replanning

\* A job that ends leaves nothing in use.
LEMMA EndJobPreservesIInv ==
  ASSUME IInv, EndJob, UNCHANGED <<constraint, started>>,
         state' \in [{"current", "fresh"} -> RunState \cup {NoState}],
         \E fs \in SUBSET Findings : export' \in [fs -> Row]
  PROVE  IInv'
<1> USE DEF EndJob
<1>1. TypeOK'
  BY DEF IInv, TypeOK, Kinds, Phases, Stages, NothingApplied
<1> QED
  BY <1>1
  DEF IInv, PhaseShape, Accounting, Evidence, Freshness, FoldedIn, EveryTargetIsAccounted,
      EvidenceIsThere, Dispatching, Replanning

LEMMA StartJobPreservesIInv ==
  ASSUME IInv, NEW k \in Kinds \ {"none"}, StartJob(k)
  PROVE  IInv'
<1> USE DEF IInv, StartJob
<1>1. ~ Replanning /\ queue = {} /\ completed = {} /\ submitted' = {}
  BY DEF PhaseShape, Replanning
<1>2. CASE phase' = "interpreting" /\ UNCHANGED <<state, target>> /\ state["current"] # NoState
  <2>1. TypeOK' /\ state'["current"] \in RunState
    BY <1>2, MaxJobsAssumption DEF TypeOK, Phases
  <2> QED
    BY <1>1, <1>2, <2>1
    DEF PhaseShape, Accounting, Evidence, Freshness, FoldedIn, EveryTargetIsAccounted, EvidenceIsThere,
        Dispatching, Replanning
<1>3. CASE StartRun
  <2>1. Work' = EmptyState /\ state' \in [{"current", "fresh"} -> RunState \cup {NoState}]
    BY <1>1, <1>3, EmptyStateIsTyped DEF StartRun, TypeOK, Work, Slot, Replanning
  <2>2. TypeOK'
    BY <1>3, <2>1, MaxJobsAssumption DEF StartRun, TypeOK, Phases
  <2> QED
    BY <1>1, <1>3, <2>1, <2>2, EmptyStateIsTyped
    DEF StartRun, PhaseShape, Accounting, Evidence, Freshness, FoldedIn, EveryTargetIsAccounted,
        EvidenceIsThere, Dispatching, Replanning
<1> QED
  BY <1>2, <1>3

-----------------------------------------------------------------------------
(* The steps of a stage.                                                   *)

\* _dispatch_environment, _dispatch_risk and _dispatch_research: every target is
\* either queued with its evidence or recorded as failed.
LEMMA BeginStagePreservesIInv == IInv /\ BeginStage => IInv'
<1> SUFFICES ASSUME IInv, BeginStage PROVE IInv'
  OBVIOUS
<1> USE DEF IInv, BeginStage, outside
<1> DEFINE w == Work
           s == [Invalidated(w, stage) EXCEPT !.failed[stage] = @ \cup (target \ Upstream(w, stage))]
<1>1. w \in RunState /\ queue = {} /\ completed = {} /\ stage \in Stages /\ target \subseteq Findings
  BY DEF PhaseShape, Dispatching, TypeOK
<1>2. Upstream(w, stage) \subseteq Findings
  BY <1>1 DEF Upstream, RunState, Stages, StagesAndTot
<1>3. /\ s \in RunState
      /\ s.done = [w.done EXCEPT ![stage] = @ \ target]
      /\ s.failed[stage] = w.failed[stage] \cup (target \ Upstream(w, stage))
      /\ s.applied = w.applied
  BY <1>1 DEF Invalidated, RunState, Stages, StagesAndTot
<1>4. state' = [state EXCEPT ![Slot] = s]
  BY DEF Work, Invalidated
<1>5. /\ state' \in [{"current", "fresh"} -> RunState \cup {NoState}]
      /\ Work' = s /\ Replanning' = Replanning
      /\ Replanning => state'["current"] = s
  BY <1>3, <1>4, WriteWork DEF Replanning
<1>6. TypeOK'
  BY <1>1, <1>5 DEF TypeOK, Phases
<1>7. PhaseShape'
  BY <1>1, <1>3, <1>5 DEF PhaseShape, Dispatching
<1>8. Accounting'
  <2>1. s.done[stage] \cap target = {} /\ queue' \subseteq target /\ completed' = {}
    BY <1>1, <1>3 DEF RunState, Stages, StagesAndTot
  <2>2. target \subseteq s.failed[stage] \cup queue'
    BY <1>1, <1>3
  <2>3. stage' = stage /\ target' = target /\ phase' = "kickoff"
    OBVIOUS
  <2> HIDE DEF s
  <2> QED
    BY <2>1, <2>2, <2>3, <1>5 DEF Accounting, EveryTargetIsAccounted
<1> HIDE DEF s
<1>9. stage = "risk" => /\ s.done["risk"] \cap target = {}
                        /\ s.done["research"] = w.done["research"]
                        /\ s.done["environment"] = w.done["environment"]
                        /\ Upstream(w, stage) = w.done["research"] \cap w.done["environment"]
  BY <1>1, <1>3 DEF Upstream, RunState, Stages, StagesAndTot
<1>10. Evidence'
  <2>1. CASE stage = "risk"
    BY <1>1, <1>9, <1>5, <2>1 DEF Evidence, EvidenceIsThere
  <2>2. CASE stage # "risk"
    BY <2>2 DEF Evidence, EvidenceIsThere
  <2> QED
    BY <2>1, <2>2
<1>11. Freshness'
  <2>1. stage = "risk" /\ Replanning => called = {}
    BY DEF PhaseShape
  <2> QED
    BY <1>1, <1>5, <2>1 DEF Freshness, FoldedIn, Replanning, PhaseShape
<1> QED
  BY <1>6, <1>7, <1>8, <1>10, <1>11

LEMMA ResearchToolsFailPreservesIInv == IInv /\ ResearchToolsFail => IInv'
<1> SUFFICES ASSUME IInv, ResearchToolsFail PROVE IInv'
  OBVIOUS
<1> USE DEF IInv, ResearchToolsFail, outside
<1> DEFINE w == Work
           s == [Invalidated(w, stage) EXCEPT !.failed[stage] = @ \cup target]
<1>1. w \in RunState /\ queue = {} /\ completed = {} /\ stage = "research" /\ target \subseteq Findings
  BY DEF PhaseShape, Dispatching, TypeOK
<1>2. s \in RunState /\ target \subseteq s.failed[stage]
  BY <1>1 DEF Invalidated, RunState, StagesAndTot, Stages
<1>3. state' = [state EXCEPT ![Slot] = s]
  BY DEF Work, Invalidated
<1>4. /\ state' \in [{"current", "fresh"} -> RunState \cup {NoState}]
      /\ Work' = s /\ Replanning' = Replanning
      /\ Replanning => state'["current"] = s
  BY <1>2, <1>3, WriteWork DEF Replanning
<1>5. TypeOK'
  BY <1>4 DEF TypeOK, Phases
<1> QED
  BY <1>1, <1>2, <1>4, <1>5
  DEF PhaseShape, Dispatching, Accounting, EveryTargetIsAccounted, Evidence, EvidenceIsThere,
      Freshness, FoldedIn

\* Whether or not the agent calls the tool, its work changes the log of its own finding
\* only, and a call of this re-plan folds the submitted constraint in.
LEMMA CallToolsEffect ==
  ASSUME IInv, phase = "kickoff", NEW f \in Findings, f \in target \ Work.done[stage],
         CallTools(f), UNCHANGED <<constraint, phase, stage, target, submitted>>
  PROVE  /\ state' \in [{"current", "fresh"} -> RunState \cup {NoState}]
         /\ Work' \in RunState /\ Replanning' = Replanning
         /\ Work'.done = Work.done /\ Work'.failed = Work.failed
         /\ Replanning => state'["current"] \in RunState
         /\ called' \subseteq Findings
         /\ stage # "risk" \/ ~ Replanning => called' = called
         /\ Freshness'
<1> USE DEF IInv
<1>1. Work \in RunState /\ stage \in Stages /\ called \subseteq Findings
  BY DEF PhaseShape, Dispatching, TypeOK
<1>2. CASE UNCHANGED <<state, called>>
  <2>1. Work' = Work /\ Replanning' = Replanning
    BY <1>2, KeepWork
  <2>2. Freshness'
    BY <1>2, <2>1 DEF Freshness, FoldedIn
  <2> QED
    BY <1>1, <1>2, <2>1, <2>2 DEF TypeOK, PhaseShape
<1>3. CASE /\ stage = "risk"
           /\ state' = [state EXCEPT ![Slot].log[f] = {Live(f)}]
           /\ called' = IF Replanning THEN called \cup {f} ELSE called
  <2> DEFINE w == Work
             s == [w EXCEPT !.log[f] = {Live(f)}]
  <2>1. Live(f) \in SUBSET Constraints
    BY DEF Live
  <2>2. /\ s \in RunState /\ s.done = w.done /\ s.failed = w.failed /\ s.applied = w.applied
        /\ s.log[f] = {Live(f)}
        /\ \A g \in Findings : g # f => s.log[g] = w.log[g]
    BY <1>1, <2>1 DEF RunState, Calls
  <2>3. state' = [state EXCEPT ![Slot] = s]
    BY <1>3 DEF Work
  <2> HIDE DEF s
  <2>4. /\ state' \in [{"current", "fresh"} -> RunState \cup {NoState}]
        /\ Work' = s /\ Replanning' = Replanning
        /\ Replanning => state'["current"] = s
    BY <2>2, <2>3, WriteWork DEF Replanning
  <2>5. Freshness'
    <3> SUFFICES ASSUME NEW c \in submitted, constraint[c] # "retracted"
                 PROVE  FoldedIn(c)'
      BY DEF Freshness
    <3>1. c \in Constraints /\ constraint[c] = "active" /\ f \in Scope[c] /\ FoldedIn(c)
      BY DEF Freshness, TypeOK
    <3>2. c \in Live(f)
      BY <3>1 DEF Live
    <3>3. \A g \in called' : \A cs \in s.log[g] : c \in cs
      BY <1>1, <1>3, <2>2, <3>1, <3>2 DEF FoldedIn
    <3>4. \A g \in called' \cap target \cap s.done["risk"] : c \in s.applied[g]
      BY <1>1, <1>3, <2>2, <3>1 DEF FoldedIn
    <3> QED
      BY <2>4, <3>3, <3>4 DEF FoldedIn
  <2> QED
    BY <1>1, <1>3, <2>2, <2>4, <2>5
<1> QED
  BY <1>2, <1>3 DEF CallTools

LEMMA RunTaskPreservesIInv ==
  ASSUME IInv, NEW f \in Findings, RunTask(f)
  PROVE  IInv'
<1> USE DEF IInv, RunTask, outside
<1>1. f \in target \ Work.done[stage]
  BY DEF PhaseShape, Accounting
<1>2. /\ state' \in [{"current", "fresh"} -> RunState \cup {NoState}]
      /\ Work' \in RunState /\ Replanning' = Replanning
      /\ Work'.done = Work.done /\ Work'.failed = Work.failed
      /\ Replanning => state'["current"] \in RunState
      /\ called' \subseteq Findings
      /\ stage # "risk" \/ ~ Replanning => called' = called
      /\ Freshness'
  BY <1>1, CallToolsEffect
<1>3. TypeOK'
  BY <1>2 DEF TypeOK
<1>4. PhaseShape'
  BY <1>2 DEF PhaseShape, Dispatching
<1>5. Accounting' /\ Evidence'
  BY <1>2 DEF Accounting, EveryTargetIsAccounted, Evidence, EvidenceIsThere
<1> QED
  BY <1>2, <1>3, <1>4, <1>5

LEMMA KickoffFailsPreservesIInv == IInv /\ KickoffFails => IInv'
<1> SUFFICES ASSUME IInv, KickoffFails PROVE IInv'
  OBVIOUS
<1> USE DEF IInv, KickoffFails, outside
<1> DEFINE w == Work
           s == [w EXCEPT !.failed[stage] = @ \cup queue]
<1>1. w \in RunState /\ stage \in Stages /\ queue \subseteq Findings
  BY DEF PhaseShape, Dispatching, TypeOK
<1>2. /\ s \in RunState /\ s.done = w.done /\ s.applied = w.applied /\ s.log = w.log
      /\ s.failed[stage] = w.failed[stage] \cup queue
  BY <1>1 DEF RunState, StagesAndTot, Stages
<1>3. state' = [state EXCEPT ![Slot] = s]
  BY DEF Work
<1>4. /\ state' \in [{"current", "fresh"} -> RunState \cup {NoState}]
      /\ Work' = s /\ Replanning' = Replanning
      /\ Replanning => state'["current"] = s
  BY <1>2, <1>3, WriteWork DEF Replanning
<1>5. TypeOK'
  BY <1>4 DEF TypeOK
<1> QED
  BY <1>2, <1>4, <1>5
  DEF PhaseShape, Dispatching, Accounting, EveryTargetIsAccounted, Evidence, EvidenceIsThere,
      Freshness, FoldedIn

LEMMA AcceptPreservesIInv ==
  ASSUME IInv, NEW f \in Findings, Accept(f)
  PROVE  IInv'
<1> USE DEF IInv, Accept, Resolving, outside
<1> DEFINE w == Work
<1>1. PICK folded \in Agreed(f) :
        state' = [state EXCEPT
          ![Slot] = [w EXCEPT !.done[stage] = @ \cup {f}, !.applied[f] = folded]]
  OBVIOUS
<1> DEFINE s == [w EXCEPT !.done[stage] = @ \cup {f}, !.applied[f] = folded]
<1>2. w \in RunState /\ stage \in Stages /\ f \in target /\ queue = {}
  BY DEF PhaseShape, Dispatching, TypeOK
<1>3. folded \in SUBSET Constraints /\ (stage = "risk" => folded \in w.log[f])
  BY <1>1, <1>2 DEF Agreed, RunState, Calls
<1>4. /\ s \in RunState /\ s.failed = w.failed
      /\ s.done[stage] = w.done[stage] \cup {f}
      /\ \A st \in Stages : st # stage => s.done[st] = w.done[st]
      /\ \A g \in Findings : g # f => s.applied[g] = w.applied[g]
      /\ s.applied[f] = folded /\ s.log = w.log
  BY <1>2, <1>3 DEF RunState, StagesAndTot, Stages
<1> HIDE DEF s
<1>5. /\ state' \in [{"current", "fresh"} -> RunState \cup {NoState}]
      /\ Work' = s /\ Replanning' = Replanning
      /\ Replanning => state'["current"] = s
  <2>1. state' = [state EXCEPT ![Slot] = s]
    BY <1>1 DEF s
  <2> QED
    BY <1>4, <2>1, WriteWork DEF Replanning
<1>6. TypeOK'
  BY <1>5 DEF TypeOK
<1>7. PhaseShape'
  BY <1>4, <1>5 DEF PhaseShape, Dispatching
<1>8. Accounting'
  BY <1>2, <1>4, <1>5 DEF Accounting, EveryTargetIsAccounted
<1>9. Evidence'
  BY <1>4, <1>5 DEF Evidence, EvidenceIsThere, Stages
<1>10. Freshness'
  <2> SUFFICES ASSUME NEW c \in submitted, constraint[c] # "retracted", stage = "risk"
               PROVE  /\ \A g \in called : \A cs \in s.log[g] : c \in cs
                      /\ \A g \in called \cap target \cap s.done["risk"] : c \in s.applied[g]
    BY <1>5 DEF Freshness, FoldedIn
  <2>1. /\ \A g \in called : \A cs \in w.log[g] : c \in cs
        /\ \A g \in called \cap target \cap w.done["risk"] : c \in w.applied[g]
    BY DEF Freshness, FoldedIn
  <2>2. target \subseteq Findings
    BY DEF TypeOK
  <2> QED
    BY <1>3, <1>4, <2>1, <2>2
<1> QED
  BY <1>6, <1>7, <1>8, <1>9, <1>10

LEMMA RetryPreservesIInv ==
  ASSUME IInv, NEW f \in Findings, Retry(f)
  PROVE  IInv'
<1> USE DEF IInv, Retry, Resolving, outside
<1>1. f \in target \ Work.done[stage]
  BY DEF PhaseShape, Accounting
<1>2. /\ state' \in [{"current", "fresh"} -> RunState \cup {NoState}]
      /\ Work' \in RunState /\ Replanning' = Replanning
      /\ Work'.done = Work.done /\ Work'.failed = Work.failed
      /\ Replanning => state'["current"] \in RunState
      /\ called' \subseteq Findings
      /\ stage # "risk" \/ ~ Replanning => called' = called
      /\ Freshness'
  BY <1>1, CallToolsEffect
<1>3. TypeOK'
  BY <1>2 DEF TypeOK
<1>4. PhaseShape'
  BY <1>2 DEF PhaseShape, Dispatching
<1>5. Accounting' /\ Evidence'
  BY <1>2 DEF Accounting, EveryTargetIsAccounted, Evidence, EvidenceIsThere
<1> QED
  BY <1>2, <1>3, <1>4, <1>5

LEMMA GiveUpPreservesIInv ==
  ASSUME IInv, NEW f \in Findings, GiveUp(f)
  PROVE  IInv'
<1> USE DEF IInv, GiveUp, Resolving, outside
<1> DEFINE w == Work
           s == [w EXCEPT !.failed[stage] = @ \cup {f}]
<1>1. w \in RunState /\ stage \in Stages
  BY DEF PhaseShape, Dispatching, TypeOK
<1>2. /\ s \in RunState /\ s.done = w.done /\ s.applied = w.applied /\ s.log = w.log
      /\ s.failed[stage] = w.failed[stage] \cup {f}
  BY <1>1 DEF RunState, StagesAndTot, Stages
<1>3. state' = [state EXCEPT ![Slot] = s]
  BY DEF Work
<1> HIDE DEF s
<1>4. /\ state' \in [{"current", "fresh"} -> RunState \cup {NoState}]
      /\ Work' = s /\ Replanning' = Replanning
      /\ Replanning => state'["current"] = s
  BY <1>2, <1>3, WriteWork DEF Replanning
<1>5. TypeOK'
  BY <1>4 DEF TypeOK
<1>6. PhaseShape' /\ Accounting'
  BY <1>2, <1>4 DEF PhaseShape, Dispatching, Accounting, EveryTargetIsAccounted
<1>7. Evidence' /\ Freshness'
  BY <1>2, <1>4 DEF Evidence, EvidenceIsThere, Freshness, FoldedIn
<1> QED
  BY <1>5, <1>6, <1>7

LEMMA NextStagePreservesIInv == IInv /\ NextStage => IInv'
<1> SUFFICES ASSUME IInv, NextStage PROVE IInv'
  OBVIOUS
<1> USE DEF IInv, NextStage, outside
<1>1. Work' = Work /\ Replanning' = Replanning
  BY KeepWork
<1>2. TypeOK'
  BY DEF TypeOK, Phases, Stages
<1>3. queue' \subseteq target
  BY DEF PhaseShape
<1>4. PhaseShape'
  BY <1>1, <1>3 DEF PhaseShape, Dispatching
<1>5. Accounting' /\ Evidence'
  BY <1>1 DEF Accounting, EveryTargetIsAccounted, Accounted, Evidence, EvidenceIsThere
<1>6. Freshness'
  BY <1>1 DEF Freshness, FoldedIn
<1> QED
  BY <1>2, <1>4, <1>5, <1>6

LEMMA SearchDonePreservesIInv ==
  ASSUME IInv, NEW f \in Findings, NEW dict \in {"done", "failed"}, SearchDone(f, dict)
  PROVE  IInv'
<1> USE DEF IInv, SearchDone, outside
<1> DEFINE w == Work
           s == IF dict = "done" THEN [w EXCEPT !.done["tot"] = @ \cup {f}]
                                 ELSE [w EXCEPT !.failed["tot"] = @ \cup {f}]
<1>1. w \in RunState
  BY DEF PhaseShape, Dispatching
<1>2. /\ s \in RunState /\ s.applied = w.applied
      /\ \A st \in Stages : s.done[st] = w.done[st] /\ s.failed[st] = w.failed[st]
  BY <1>1 DEF RunState, StagesAndTot, Stages
<1>3. state' = [state EXCEPT ![Slot] = s]
  BY DEF Work
<1> HIDE DEF s
<1>4. /\ state' \in [{"current", "fresh"} -> RunState \cup {NoState}]
      /\ Work' = s /\ Replanning' = Replanning
      /\ Replanning => state'["current"] = s
  BY <1>2, <1>3, WriteWork DEF Replanning
<1>5. TypeOK'
  BY <1>4 DEF TypeOK
<1> QED
  BY <1>2, <1>4, <1>5
  DEF PhaseShape, Dispatching, Accounting, EveryTargetIsAccounted, Accounted, Evidence,
      EvidenceIsThere, Freshness, FoldedIn, Stages

-----------------------------------------------------------------------------
(* The rest of the handlers, and the constraints table's other writers.    *)

LEMMA CommitPreservesIInv == IInv /\ Commit => IInv'
<1> SUFFICES ASSUME IInv, Commit PROVE IInv'
  OBVIOUS
<1> USE DEF IInv, Commit, outside
<1>1. ~ Replanning /\ ~ Replanning' /\ state["fresh"] \in RunState
  BY DEF PhaseShape, Dispatching, Work, Slot, Replanning
<1>2. /\ state' \in [{"current", "fresh"} -> RunState \cup {NoState}]
      /\ state'["current"] \in RunState
  BY <1>1 DEF TypeOK
<1>3. TypeOK' /\ completed' = {}
  BY <1>2 DEF TypeOK, Phases, PhaseShape
<1> QED
  BY <1>1, <1>2, <1>3
  DEF PhaseShape, Dispatching, Accounting, EveryTargetIsAccounted, Evidence, EvidenceIsThere,
      Freshness, FoldedIn, Replanning

LEMMA RaisePreservesIInv == IInv /\ Raise => IInv'
<1> SUFFICES ASSUME IInv, Raise PROVE IInv'
  OBVIOUS
<1>1. state' \in [{"current", "fresh"} -> RunState \cup {NoState}]
  BY DEF IInv, TypeOK, Raise
<1> QED
  BY <1>1, EndJobPreservesIInv DEF Raise, IInv, TypeOK

\* The phases after a dispatch leave the plan and the targets as they are.
LEMMA LaterPhasePreservesIInv ==
  ASSUME IInv, UNCHANGED <<outside, state, stage, target, queue, completed, called>>,
         \/ phase = "tot" /\ queue = {} /\ Replanning /\ phase' = "recording"
         \/ phase \in {"interpreting", "recording"} /\ phase' = "exporting"
  PROVE  IInv'
<1> USE DEF IInv, outside
<1>1. Work' = Work /\ Replanning' = Replanning
  BY KeepWork
<1>2. TypeOK'
  BY DEF TypeOK, Phases
<1>3. PhaseShape'
  BY <1>1 DEF PhaseShape, Dispatching
<1>4. phase = "interpreting" => submitted = {}
  BY DEF PhaseShape, Replanning
<1> QED
  BY <1>1, <1>2, <1>3, <1>4
  DEF Accounting, EveryTargetIsAccounted, Evidence, EvidenceIsThere, Freshness, FoldedIn

LEMMA SubmitAssetPreservesIInv ==
  ASSUME IInv, NEW c \in Constraints, NEW affected \in SUBSET Findings, SubmitAsset(c, affected)
  PROVE  IInv'
<1> USE DEF IInv, SubmitAsset
<1>1. Replanning' /\ state["current"] \in RunState /\ Work' = state["current"]
  BY DEF PhaseShape, Replanning, Work, Slot
<1>2. TypeOK'
  BY DEF TypeOK, Phases, Stages
<1>3. constraint'[c] = "active" /\ submitted' = {c} /\ target' \subseteq Scope[c]
  BY DEF TypeOK
<1> QED
  BY <1>1, <1>2, <1>3
  DEF PhaseShape, Dispatching, Accounting, EveryTargetIsAccounted, Evidence, EvidenceIsThere,
      Freshness, FoldedIn

LEMMA ExportPreservesIInv == IInv /\ Finish => IInv'
<1> SUFFICES ASSUME IInv, Finish PROVE IInv'
  OBVIOUS
<1>1. CASE WriteExport
  <2> DEFINE s == state["current"]
             fs == s.done["risk"]
  <2>1. s \in RunState /\ fs \in SUBSET Findings
    BY <1>1 DEF WriteExport, IInv, PhaseShape, RunState, Stages, StagesAndTot
  <2>2. \A f \in fs : RowOf(s, f) \in Row
    BY <2>1 DEF RowOf, Row, Live, RunState
  <2>3. export' \in [fs -> Row]
    BY <1>1, <2>2 DEF WriteExport
  <2>4. state' \in [{"current", "fresh"} -> RunState \cup {NoState}]
    BY <1>1 DEF WriteExport, IInv, TypeOK
  <2> QED
    BY <1>1, <2>1, <2>3, <2>4, EndJobPreservesIInv DEF WriteExport
<1>2. CASE ExportFails
  BY <1>2, EndJobPreservesIInv DEF ExportFails, IInv, TypeOK
<1> QED
  BY <1>1, <1>2 DEF Finish

\* A constraint of the job in progress was submitted, so nobody adds it again.
LEMMA OtherWritersPreserveIInv ==
  ASSUME IInv, NEW c \in Constraints, AddElsewhere(c) \/ Retract(c)
  PROVE  IInv'
<1> USE DEF IInv, AddElsewhere, Retract, dispatchVars
<1>1. Work' = Work /\ Replanning' = Replanning
  BY KeepWork
<1>2. TypeOK'
  BY DEF TypeOK
<1>3. PhaseShape' /\ Accounting' /\ Evidence'
  BY <1>1
  DEF PhaseShape, Dispatching, Accounting, EveryTargetIsAccounted, Accounted, Evidence,
      EvidenceIsThere
<1>4. \A d \in submitted :
        /\ constraint'[d] # "new"
        /\ constraint[d] = "retracted" => constraint'[d] = "retracted"
  BY DEF TypeOK, Freshness
<1>5. UNCHANGED <<phase, stage, target, completed, called, submitted>>
  OBVIOUS
<1>6. \A d : FoldedIn(d) => FoldedIn(d)'
  BY <1>1, <1>5 DEF FoldedIn
<1>7. Freshness'
  BY <1>4, <1>5, <1>6 DEF Freshness
<1> QED
  BY <1>2, <1>3, <1>7

LEMMA NextPreservesIInv == IInv /\ [Next]_vars => IInv'
<1> SUFFICES ASSUME IInv, [Next]_vars PROVE IInv'
  OBVIOUS
<1>1. CASE Dispatch
  BY <1>1, BeginStagePreservesIInv, ResearchToolsFailPreservesIInv, KickoffFailsPreservesIInv,
     NextStagePreservesIInv, RaisePreservesIInv, RunTaskPreservesIInv, RetryPreservesIInv,
     AcceptPreservesIInv, GiveUpPreservesIInv, SearchDonePreservesIInv
  DEF Dispatch, Resolve, Search
<1>2. CASE EndReplan \/ SubmitCapacity \/ RecordDecisions
  BY <1>2, LaterPhasePreservesIInv DEF EndReplan, SubmitCapacity, RecordDecisions
<1>3. CASE NothingToApply
  BY <1>3, EndJobPreservesIInv DEF NothingToApply, IInv, TypeOK
<1>4. CASE Handler
  BY <1>2, <1>3, <1>4, CommitPreservesIInv, ExportPreservesIInv, SubmitAssetPreservesIInv
  DEF Handler
<1>5. CASE UNCHANGED vars
  BY <1>5, KeepWork
  DEF vars, dispatchVars, IInv, TypeOK, PhaseShape, Dispatching, Accounting,
      EveryTargetIsAccounted, Accounted, Evidence, EvidenceIsThere, Freshness, FoldedIn
<1> QED
  BY <1>1, <1>4, <1>5, StartJobPreservesIInv, OtherWritersPreserveIInv DEF Next

LEMMA InductiveInvariant == Spec => []IInv
<1> QED
  BY InitEstablishesIInv, NextPreservesIInv, PTL DEF Spec

-----------------------------------------------------------------------------
\* Every reachable state is typed, for every value of the constants.
THEOREM TypeCorrect == Spec => []TypeOK
<1>1. IInv => TypeOK
  BY DEF IInv
<1> QED
  BY <1>1, InductiveInvariant, PTL

\* _kickoff_batch, _resolve_output: whichever stage, task or attempt fails, every
\* finding of a dispatch ends it with a result or a recorded failure.
THEOREM NoTargetIsLost == Spec => []EveryTargetIsAccounted
<1>1. IInv => EveryTargetIsAccounted
  BY DEF IInv, Accounting
<1> QED
  BY <1>1, InductiveInvariant, PTL

\* _dispatch_risk: what _dispatch_tot and the delta loop look up is there.
THEOREM NoRecommendationWithoutEvidence == Spec => []EvidenceIsThere
<1>1. IInv => EvidenceIsThere
  BY DEF IInv, Evidence
<1> QED
  BY <1>1, InductiveInvariant, PTL

\* replan: no affected finding for which the tool was called keeps a score from before the
\* constraint.  (For the others the code itself accepts the last call before.)
THEOREM NoStaleScoreAfterReplan == Spec => []ReplanIsFresh
<1>1. IInv => ReplanIsFresh
  BY DEF IInv, Freshness, FoldedIn, ReplanIsFresh
<1> QED
  BY <1>1, InductiveInvariant, PTL

\* What one step may do to the plan that other requests and later jobs see.
PlanStep ==
  state'["current"] # state["current"] =>
    IF Replanning
      THEN \A f \in Findings \ target : Agree(state'["current"], state["current"], f)
      ELSE \A f \in Findings : Accounted(state'["current"], f)

\* A step of a stage writes to the dictionaries at the keys of its targets only.
LEMMA StageKeepsOthers ==
  ASSUME IInv, Dispatching, UNCHANGED submitted, NEW w \in RunState,
         state' = [state EXCEPT ![Slot] = w],
         \A f \in Findings \ target : Agree(w, Work, f)
  PROVE  PlanStep
<1>1. CASE Replanning
  <2>1. state'["current"] = w /\ Work = state["current"]
    BY <1>1, WriteWork DEF IInv, Work, Slot
  <2> QED
    BY <1>1, <2>1 DEF PlanStep
<1>2. CASE ~ Replanning
  BY <1>2, WriteWork DEF IInv, PlanStep
<1> QED
  BY <1>1, <1>2

\* A RunState whose dictionaries differ from the working one's at targets only.
TargetsWritten(w) == w \in RunState /\ \A f \in Findings \ target : Agree(w, Work, f)

LEMMA StageWritesTargets ==
  ASSUME IInv, NEW f,
         \/ BeginStage \/ ResearchToolsFail \/ KickoffFails
         \/ f \in Findings /\ (RunTask(f) \/ Retry(f) \/ Resolve(f) \/ Search(f))
  PROVE  \E w : state' = [state EXCEPT ![Slot] = w] /\ TargetsWritten(w)
<1> DEFINE v == Work
<1>1. v \in RunState /\ stage \in Stages /\ queue \cup completed \subseteq target
  BY DEF IInv, PhaseShape, Dispatching, TypeOK, BeginStage, ResearchToolsFail, KickoffFails,
         RunTask, Retry, Resolve, Accept, GiveUp, Resolving, Search, SearchDone
<1>2. target \subseteq Findings
  BY DEF IInv, TypeOK
<1>3. CASE BeginStage
  <2> DEFINE w == [Invalidated(v, stage) EXCEPT !.failed[stage] = @ \cup (target \ Upstream(v, stage))]
  <2>1. TargetsWritten(w)
    BY <1>1, <1>2 DEF TargetsWritten, Agree, Invalidated, RunState, Stages, StagesAndTot
  <2> QED
    BY <1>3, <2>1 DEF BeginStage
<1>4. CASE ResearchToolsFail
  <2> DEFINE w == [Invalidated(v, stage) EXCEPT !.failed[stage] = @ \cup target]
  <2>1. TargetsWritten(w)
    BY <1>1, <1>2 DEF TargetsWritten, Agree, Invalidated, RunState, Stages, StagesAndTot
  <2> QED
    BY <1>4, <2>1 DEF ResearchToolsFail
<1>5. CASE KickoffFails
  <2> DEFINE w == [v EXCEPT !.failed[stage] = @ \cup queue]
  <2>1. TargetsWritten(w)
    BY <1>1, <1>2 DEF TargetsWritten, Agree, RunState, Stages, StagesAndTot
  <2> QED
    BY <1>5, <2>1 DEF KickoffFails, Work
<1>6. CASE Accept(f)
  <2>1. PICK folded \in Agreed(f) :
          state' = [state EXCEPT
            ![Slot] = [v EXCEPT !.done[stage] = @ \cup {f}, !.applied[f] = folded]]
    BY <1>6 DEF Accept
  <2> DEFINE w == [v EXCEPT !.done[stage] = @ \cup {f}, !.applied[f] = folded]
  <2>2. f \in target /\ folded \in SUBSET Constraints
    BY <1>1, <1>2, <1>6, <2>1 DEF Accept, Resolving, Agreed, RunState, Calls
  <2>3. TargetsWritten(w)
    BY <1>1, <1>2, <2>2 DEF TargetsWritten, Agree, RunState, Stages, StagesAndTot
  <2> QED
    BY <2>1, <2>3
<1>7. CASE GiveUp(f)
  <2> DEFINE w == [v EXCEPT !.failed[stage] = @ \cup {f}]
  <2>1. f \in target
    BY <1>1, <1>7 DEF GiveUp, Resolving
  <2>2. TargetsWritten(w)
    BY <1>1, <1>2, <2>1 DEF TargetsWritten, Agree, RunState, Stages, StagesAndTot
  <2> QED
    BY <1>7, <2>2 DEF GiveUp, Work
<1>8. ASSUME NEW dict \in {"done", "failed"}, SearchDone(f, dict)
      PROVE  \E w : state' = [state EXCEPT ![Slot] = w] /\ TargetsWritten(w)
  <2> DEFINE w == IF dict = "done" THEN [v EXCEPT !.done["tot"] = @ \cup {f}]
                                   ELSE [v EXCEPT !.failed["tot"] = @ \cup {f}]
  <2>1. f \in target
    BY <1>1, <1>8 DEF SearchDone
  <2>2. TargetsWritten(w)
    BY <1>1, <1>2, <2>1 DEF TargetsWritten, Agree, RunState, Stages, StagesAndTot
  <2> QED
    BY <1>8, <2>2 DEF SearchDone, Work
<1>9. CASE f \in Findings /\ CallTools(f)
  <2>1. CASE UNCHANGED state
    <3>1. TargetsWritten(v) /\ state' = [state EXCEPT ![Slot] = v]
      BY <1>1, <2>1 DEF TargetsWritten, Agree, Work, Slot, IInv, TypeOK
    <3> QED
      BY <3>1
  <2>2. CASE state' = [state EXCEPT ![Slot].log[f] = {Live(f)}]
    <3> DEFINE w == [v EXCEPT !.log[f] = {Live(f)}]
    <3>1. Live(f) \in SUBSET Constraints
      BY DEF Live
    <3>2. TargetsWritten(w)
      BY <1>1, <3>1 DEF TargetsWritten, Agree, RunState, Calls
    <3> QED
      BY <2>2, <3>2 DEF Work
  <2> QED
    BY <1>9, <2>1, <2>2 DEF CallTools
<1> QED
  BY <1>3, <1>4, <1>5, <1>6, <1>7, <1>8, <1>9 DEF Resolve, Search, RunTask, Retry

LEMMA StepsReplaceWhole == IInv /\ [Next]_vars => PlanStep
<1> SUFFICES ASSUME IInv, [Next]_vars PROVE PlanStep
  OBVIOUS
<1>1. ASSUME state'["current"] = state["current"] PROVE PlanStep
  BY <1>1 DEF PlanStep
<1>2. ASSUME NEW f,
             \/ BeginStage \/ ResearchToolsFail \/ KickoffFails
             \/ f \in Findings /\ (RunTask(f) \/ Retry(f) \/ Resolve(f) \/ Search(f))
      PROVE  PlanStep
  <2>1. PICK w : state' = [state EXCEPT ![Slot] = w] /\ TargetsWritten(w)
    BY <1>2, StageWritesTargets
  <2>2. Dispatching /\ UNCHANGED submitted
    BY <1>2 DEF Dispatching, BeginStage, ResearchToolsFail, KickoffFails, RunTask, Retry, Resolve,
                Accept, GiveUp, Resolving, Search, SearchDone, outside
  <2> QED
    BY <2>1, <2>2, StageKeepsOthers DEF TargetsWritten
<1>3. CASE Commit
  <2>1. ~ Replanning /\ state["fresh"] = Work /\ target = Findings
    BY <1>3 DEF Commit, IInv, PhaseShape, Dispatching, Work, Slot
  <2>2. \A f \in Findings : Accounted(state["fresh"], f)
    BY <1>3, <2>1 DEF Commit, IInv, Accounting, EveryTargetIsAccounted
  <2>3. state'["current"] = state["fresh"]
    BY <1>3 DEF Commit, IInv, TypeOK
  <2> QED
    BY <2>1, <2>2, <2>3 DEF PlanStep
<1>4. CASE Raise \/ \E k \in Kinds : StartJob(k)
  BY <1>1, <1>4 DEF Raise, StartJob, StartRun, IInv, TypeOK
<1>5. CASE UNCHANGED state
  BY <1>1, <1>5
<1> QED
  BY <1>2, <1>3, <1>4, <1>5
  DEF Next, Dispatch, NextStage, Handler, EndReplan, NothingToApply, SubmitCapacity,
      RecordDecisions, Finish, WriteExport, ExportFails, SubmitAsset, AddElsewhere, Retract, vars

\* run and replan: whatever fails, other requests see a plan that is either
\* replaced by one that accounts for every finding, or changed in the targets of
\* a re-plan only.
THEOREM PlanReplacedWhole == Spec => PlanIsReplacedWhole
<1>1. IInv /\ [Next]_vars => [PlanStep]_vars
  BY StepsReplaceWhole
<1> QED
  BY <1>1, InductiveInvariant, PTL DEF Spec, PlanIsReplacedWhole, PlanStep

-----------------------------------------------------------------------------
(* The search each contested finding gets: TreeOfThought.  Its books, its   *)
(* critiques and its verdicts, for any strategies, scores, margin, beam     *)
(* width and depth.  Positions and ranks are numbers of elements, so what   *)
(* a sorted or a filtered list contains is a matter of counting.            *)

\* Numbers that tell n things apart and lie in 1..n are all of them taken.
LEMMA EveryNumberIsTaken ==
  ASSUME NEW D, IsFiniteSet(D), NEW f \in [D -> 1..Cardinality(D)],
         \A x, y \in D : f[x] = f[y] => x = y
  PROVE  \A k \in 1..Cardinality(D) : \E x \in D : f[x] = k
<1> SUFFICES ASSUME NEW k \in 1..Cardinality(D), \A x \in D : f[x] # k
             PROVE  FALSE
  OBVIOUS
<1> DEFINE I == 1..Cardinality(D)
<1>1. Cardinality(D) \in Nat
  BY FS_CardinalityType
<1>2. IsFiniteSet(I) /\ Cardinality(I) = Cardinality(D)
  BY <1>1, FS_Interval
<1>3. IsFiniteSet(I \ {k}) /\ Cardinality(I \ {k}) = Cardinality(D) - 1
  BY <1>2, FS_RemoveElement
<1>4. f \in [D -> I \ {k}]
  OBVIOUS
<1> HIDE DEF I
<1>5. Cardinality(I \ {k}) < Cardinality(D)
  BY <1>1, <1>3
<1>6. \E x, y \in D : x # y /\ f[x] = f[y]
  BY <1>3, <1>4, <1>5, FS_PigeonHole
<1> QED BY <1>6

\* A set of positions is finite, and the positions up to one of them are counted.
LEMMA RankTellsPositionsApart ==
  ASSUME NEW N \in Nat, NEW P \in SUBSET (1..N)
  PROVE  /\ IsFiniteSet(P) /\ Cardinality(P) \in Nat
         /\ \A i \in P : Rank(i, P) \in 1..Cardinality(P)
         /\ \A i, j \in P : Rank(i, P) = Rank(j, P) => i = j
<1>1. IsFiniteSet(P) /\ Cardinality(P) \in Nat
  <2>1. IsFiniteSet(1..N)
    BY FS_Interval
  <2> QED BY <2>1, FS_Subset, FS_CardinalityType
<1> DEFINE UpTo(i) == {j \in P : j <= i}
<1>2. ASSUME NEW i \in P
      PROVE  /\ IsFiniteSet(UpTo(i)) /\ Cardinality(UpTo(i)) \in Nat
             /\ Cardinality(UpTo(i)) <= Cardinality(P) /\ Cardinality(UpTo(i)) # 0
  <2>1. UpTo(i) \in SUBSET P /\ i \in UpTo(i)
    OBVIOUS
  <2> HIDE DEF UpTo
  <2>2. IsFiniteSet(UpTo(i)) /\ Cardinality(UpTo(i)) <= Cardinality(P)
    BY <1>1, <2>1, FS_Subset
  <2> QED BY <2>1, <2>2, FS_EmptySet, FS_CardinalityType
<1>3. ASSUME NEW i \in P, NEW j \in P, i < j, Cardinality(UpTo(i)) = Cardinality(UpTo(j))
      PROVE  FALSE
  <2>1. ~(j <= i) /\ j <= j /\ \A k \in P : k <= i => k <= j
    BY <1>3
  <2>2. UpTo(i) \in SUBSET UpTo(j) /\ j \in UpTo(j) /\ j \notin UpTo(i)
    BY <1>3, <2>1
  <2> HIDE DEF UpTo
  <2>3. UpTo(j) = UpTo(i)
    BY <1>2, <1>3, <2>2, FS_Subset
  <2> QED BY <2>2, <2>3
<1>4. \A i, j \in P : Cardinality(UpTo(i)) = Cardinality(UpTo(j)) => i = j
  <2> SUFFICES ASSUME NEW i \in P, NEW j \in P, Cardinality(UpTo(i)) = Cardinality(UpTo(j)), i # j
               PROVE  FALSE
    OBVIOUS
  <2>1. i < j \/ j < i
    OBVIOUS
  <2> HIDE DEF UpTo
  <2> QED BY <1>3, <2>1
<1>5. \A i : Rank(i, P) = Cardinality(UpTo(i))
  BY DEF Rank
<1> HIDE DEF UpTo
<1> QED BY <1>1, <1>2, <1>4, <1>5

\* The n-th position is the one of rank n, and there is one.
LEMMA NthHasRank ==
  ASSUME NEW N \in Nat, NEW P \in SUBSET (1..N)
  PROVE  /\ \A i \in P : Nth(Rank(i, P), P) = i
         /\ \A n \in 1..Cardinality(P) : Nth(n, P) \in P /\ Rank(Nth(n, P), P) = n
<1>1. /\ IsFiniteSet(P)
      /\ \A i \in P : Rank(i, P) \in 1..Cardinality(P)
      /\ \A i, j \in P : Rank(i, P) = Rank(j, P) => i = j
  BY RankTellsPositionsApart
<1>2. \A n : Nth(n, P) = CHOOSE i \in P : Rank(i, P) = n
  BY DEF Nth, Rank
<1>3. \A n \in 1..Cardinality(P) : \E i \in P : Rank(i, P) = n
  <2> DEFINE f == [i \in P |-> Rank(i, P)]
  <2>1. f \in [P -> 1..Cardinality(P)] /\ \A i, j \in P : f[i] = f[j] => i = j
    BY <1>1
  <2>2. \A n \in 1..Cardinality(P) : \E i \in P : f[i] = n
    <3> HIDE DEF f
    <3> QED BY <1>1, <2>1, EveryNumberIsTaken
  <2> QED BY <2>2
<1>4. \A n \in 1..Cardinality(P) : Nth(n, P) \in P /\ Rank(Nth(n, P), P) = n
  BY <1>2, <1>3
<1> QED BY <1>1, <1>4

\* The list of what still has something to add: every such member, in its place.
LEMMA StillActiveProperties ==
  ASSUME NEW S, NEW t \in Seq(S)
  PROVE  LET U == Unexhausted(t)
             a == StillActive(t)
         IN /\ a \in Seq(S) /\ Len(a) = Cardinality(U) /\ Cardinality(U) \in Nat
            /\ \A i \in U : Rank(i, U) \in 1..Len(a) /\ a[Rank(i, U)] = t[i]
            /\ a = <<>> => U = {}
<1> DEFINE U == Unexhausted(t)
           a == StillActive(t)
<1>1. Len(t) \in Nat /\ DOMAIN t = 1..Len(t) /\ U \in SUBSET (1..Len(t))
  BY DEF Unexhausted
<1>2. \A i \in 1..Len(t) : t[i] \in S
  OBVIOUS
<1>3. a = [n \in 1..Cardinality(U) |-> t[Nth(n, U)]]
  BY DEF StillActive
<1> HIDE DEF a, U
<1>4. /\ Cardinality(U) \in Nat /\ IsFiniteSet(U)
      /\ \A i \in U : Rank(i, U) \in 1..Cardinality(U)
  BY <1>1, RankTellsPositionsApart
<1>5. /\ \A i \in U : Nth(Rank(i, U), U) = i
      /\ \A n \in 1..Cardinality(U) : Nth(n, U) \in U
  BY <1>1, NthHasRank
<1>6. a \in Seq(S) /\ Len(a) = Cardinality(U)
  <2>1. a \in [1..Cardinality(U) -> S]
    BY <1>1, <1>2, <1>3, <1>5
  <2> QED BY <1>4, <2>1
<1>7. a = <<>> => U = {}
  BY <1>4, <1>6, FS_EmptySet
<1> QED BY <1>3, <1>4, <1>5, <1>6, <1>7 DEF a, U

\* Sorting: the same thoughts, each once, best first.
LEMMA RankedProperties ==
  ASSUME NEW t, t \in Seq(Thought), Scores \subseteq Nat
  PROVE  LET r == Ranked(t)
         IN /\ r \in Seq(Thought) /\ Len(r) = Len(t)
            /\ \A k, l \in 1..Len(t) : k <= l => Score(r[l]) <= Score(r[k])
            /\ \E p \in [1..Len(t) -> 1..Len(t)] :
                 /\ \A k \in 1..Len(t) : r[k] = t[p[k]]
                 /\ \A i \in 1..Len(t) : \E k \in 1..Len(t) : p[k] = i
                 /\ \A k, l \in 1..Len(t) : p[k] = p[l] => k = l
<1> DEFINE D == DOMAIN t
           N(i) == NotBehind(t, i)
           r == Ranked(t)
<1>1. Len(t) \in Nat /\ D = 1..Len(t) /\ IsFiniteSet(D) /\ Cardinality(D) = Len(t)
  <2>1. Len(t) \in Nat /\ D = 1..Len(t)
    OBVIOUS
  <2>2. /\ IsFiniteSet(1..Len(t))
        /\ Cardinality(1..Len(t)) = IF 1 > Len(t) THEN 0 ELSE Len(t) - 1 + 1
    BY <2>1, FS_Interval
  <2> QED BY <2>1, <2>2
<1>2. \A i \in D : t[i] \in Thought /\ Score(t[i]) \in Nat /\ i \in Nat
  <2>1. \A i \in D : t[i] \in Thought /\ i \in Nat
    BY <1>1
  <2>2. \A x \in Thought : Score(x) \in Nat
    BY DEF Thought, Critics, Score
  <2> QED BY <2>1, <2>2
<1>3. \A i, j \in D : j \in N(i) <=> (\/ Score(t[j]) > Score(t[i])
                                    \/ (Score(t[j]) = Score(t[i]) /\ j <= i))
  BY <1>1 DEF NotBehind
<1>4. \A i : N(i) \in SUBSET D
  BY <1>1 DEF NotBehind
<1>5. r = [k \in D |-> t[CHOOSE i \in D : Cardinality(N(i)) = k]]
  BY DEF Ranked
<1> HIDE DEF N, r, D
<1>6. ASSUME NEW i \in D
      PROVE  IsFiniteSet(N(i)) /\ Cardinality(N(i)) \in 1..Cardinality(D)
  <2>1. i \in N(i)
    BY <1>2, <1>3
  <2>2. IsFiniteSet(N(i)) /\ Cardinality(N(i)) <= Cardinality(D)
    BY <1>1, <1>4, FS_Subset
  <2> QED BY <1>1, <2>1, <2>2, FS_EmptySet, FS_CardinalityType
<1>7. ASSUME NEW i \in D, NEW j \in D, i \in N(j)
      PROVE  N(i) \in SUBSET N(j)
  BY <1>2, <1>3, <1>4, <1>7
<1>8. ASSUME NEW i \in D, NEW j \in D, Cardinality(N(i)) = Cardinality(N(j))
      PROVE  i = j
  <2>1. i \in N(j) \/ j \in N(i)
    BY <1>2, <1>3
  <2>2. N(i) = N(j)
    BY <1>6, <1>7, <1>8, <2>1, FS_Subset
  <2>3. i \in N(i) /\ j \in N(j)
    BY <1>2, <1>3
  <2> QED BY <1>2, <1>3, <2>2, <2>3
<1>9. \A k \in D : \E i \in D : Cardinality(N(i)) = k
  <2> DEFINE f == [i \in D |-> Cardinality(N(i))]
  <2>1. f \in [D -> 1..Cardinality(D)] /\ \A i, j \in D : f[i] = f[j] => i = j
    BY <1>6, <1>8
  <2>2. \A k \in 1..Cardinality(D) : \E i \in D : f[i] = k
    <3>1. IsFiniteSet(D)
      BY <1>1
    <3> HIDE DEF f
    <3> QED BY <2>1, <3>1, EveryNumberIsTaken
  <2> QED BY <1>1, <2>2
<1>10. PICK p : p = [k \in D |-> CHOOSE i \in D : Cardinality(N(i)) = k]
  OBVIOUS
<1>11. p \in [D -> D] /\ \A k \in D : Cardinality(N(p[k])) = k
  BY <1>9, <1>10
<1>12. \A k \in D : r[k] = t[p[k]]
  BY <1>5, <1>10
<1>13. r \in Seq(Thought) /\ Len(r) = Len(t)
  <2>1. r \in [D -> Thought]
    <3>1. r = [k \in D |-> r[k]]
      BY <1>5
    <3>2. \A k \in D : r[k] \in Thought
      BY <1>2, <1>11, <1>12
    <3> QED BY <3>1, <3>2
  <2> QED BY <1>1, <2>1
<1>14. \A i \in D : \E k \in D : p[k] = i
  <2> TAKE i \in D
  <2>1. Cardinality(N(i)) \in D
    BY <1>1, <1>6
  <2> QED BY <1>8, <1>11, <2>1
<1>15. \A k, l \in D : p[k] = p[l] => k = l
  BY <1>11
<1>16. ASSUME NEW k \in D, NEW l \in D, k <= l
       PROVE  Score(r[l]) <= Score(r[k])
  <2>1. ASSUME Score(t[p[l]]) > Score(t[p[k]])
        PROVE  FALSE
    <3>1. p[l] \in N(p[k]) /\ p[k] \notin N(p[l])
      BY <1>2, <1>3, <1>11, <2>1
    <3>2. N(p[l]) \in SUBSET N(p[k])
      BY <1>7, <1>11, <3>1
    <3>3. l <= k
      BY <1>6, <1>11, <3>2, FS_Subset
    <3>4. k = l
      BY <1>1, <1>16, <3>3
    <3> QED BY <1>2, <1>11, <2>1, <3>4
  <2> QED BY <1>2, <1>11, <1>12, <2>1
<1> QED BY <1>11, <1>12, <1>13, <1>14, <1>15, <1>16, <1>1 DEF r

\* Two thoughts, one of them a best one, that no clear winner separates.
Close(t) ==
  \E i, j \in DOMAIN t :
    /\ i # j
    /\ \A k \in DOMAIN t : Score(t[k]) <= Score(t[i])
    /\ Score(t[i]) < Score(t[j]) + ClearWinnerMargin

\* _score_gap, which looks at the first two of the sorted list, finds a clear winner
\* exactly if no two are close.
LEMMA ClearGapMeansNoneIsClose ==
  ASSUME NEW t, t \in Seq(Thought), Scores \subseteq Nat, ClearWinnerMargin \in Nat \ {0}
  PROVE  ClearGap(t) <=> ~Close(t)
<1> DEFINE r == Ranked(t)
           D == 1..Len(t)
           S(i) == Score(t[i])
<1>1. Len(t) \in Nat /\ DOMAIN t = D
  OBVIOUS
<1>2. \A i \in D : S(i) \in Nat
  <2>1. \A i \in D : t[i] \in Thought
    OBVIOUS
  <2>2. \A x \in Thought : Score(x) \in Nat
    BY DEF Thought, Critics, Score
  <2> QED BY <2>1, <2>2
<1>3. /\ Len(r) = Len(t)
      /\ \A k, l \in D : k <= l => Score(r[l]) <= Score(r[k])
  BY RankedProperties
<1>4. PICK p \in [D -> D] :
        /\ \A k \in D : r[k] = t[p[k]]
        /\ \A i \in D : \E k \in D : p[k] = i
        /\ \A k, l \in D : p[k] = p[l] => k = l
  BY RankedProperties
<1>5. ClearGap(t) <=> Len(r) < 2 \/ Score(r[1]) >= Score(r[2]) + ClearWinnerMargin
  BY DEF ClearGap
<1>6. Close(t) <=> \E i, j \in D : /\ i # j /\ \A k \in D : S(k) <= S(i)
                                   /\ S(i) < S(j) + ClearWinnerMargin
  BY <1>1 DEF Close
<1>7. \A k \in D : Score(r[k]) = S(p[k])
  BY <1>4
<1>8. \A k, l \in D : k <= l => S(p[l]) <= S(p[k])
  BY <1>3, <1>7
<1> HIDE DEF r, S
<1>9. ASSUME ClearGap(t), Close(t) PROVE FALSE
  <2>1. PICK i \in D, j \in D : /\ i # j /\ \A k \in D : S(k) <= S(i)
                                /\ S(i) < S(j) + ClearWinnerMargin
    BY <1>6, <1>9
  <2>2. PICK a \in D, b \in D : p[a] = i /\ p[b] = j
    BY <1>4
  <2>3. 1 \in D /\ 2 \in D /\ a # b /\ Len(t) >= 2
    BY <1>1, <2>1, <2>2
  <2>4. S(p[1]) >= S(p[2]) + ClearWinnerMargin
    BY <1>3, <1>5, <1>7, <1>9, <2>3
  <2>5. S(p[1]) <= S(i) /\ p[1] \in D /\ p[2] \in D
    BY <1>4, <2>1, <2>3
  <2>6. CASE b = 1
    <3>1. a >= 2
      BY <2>3, <2>6
    <3>2. S(i) <= S(p[2])
      BY <1>8, <2>2, <2>3, <3>1
    <3> QED BY <1>2, <2>4, <2>5, <3>2
  <2>7. CASE b # 1
    <3>1. b >= 2
      BY <2>3, <2>7
    <3>2. S(j) <= S(p[2])
      BY <1>8, <2>2, <2>3, <3>1
    <3> QED BY <1>2, <2>1, <2>4, <2>5, <3>2
  <2> QED BY <2>6, <2>7
<1>10. ASSUME ~ClearGap(t) PROVE Close(t)
  <2>1. 1 \in D /\ 2 \in D /\ Len(t) >= 2
    BY <1>1, <1>3, <1>5, <1>10
  <2>2. p[1] \in D /\ p[2] \in D /\ p[1] # p[2]
    BY <1>4, <2>1
  <2>3. S(p[1]) < S(p[2]) + ClearWinnerMargin
    BY <1>2, <1>3, <1>5, <1>7, <1>10, <2>1, <2>2
  <2>4. \A k \in D : S(k) <= S(p[1])
    <3> TAKE k \in D
    <3>1. PICK a \in D : p[a] = k
      BY <1>4
    <3> QED BY <1>8, <2>1, <3>1
  <2> QED BY <1>6, <2>2, <2>3, <2>4
<1> QED BY <1>9, <1>10

\* Sorting changes neither who is close nor what the thoughts have in common.
LEMMA RankedIsAsClose ==
  ASSUME NEW t, t \in Seq(Thought), Scores \subseteq Nat, ClearWinnerMargin \in Nat \ {0}
  PROVE  LET r == Ranked(t)
         IN /\ ClearGap(r) <=> ClearGap(t)
            /\ ClearGap(r) <=> ~Close(r)
            /\ \A k \in DOMAIN r : \E i \in DOMAIN t : r[k] = t[i]
            /\ \A k \in DOMAIN r : Score(r[k]) <= Score(r[1])
<1> DEFINE r == Ranked(t)
           D == 1..Len(t)
<1>1. Len(t) \in Nat /\ DOMAIN t = D
  OBVIOUS
<1>2. /\ r \in Seq(Thought) /\ Len(r) = Len(t) /\ DOMAIN r = D
      /\ \A k, l \in D : k <= l => Score(r[l]) <= Score(r[k])
  BY RankedProperties
<1>3. PICK p \in [D -> D] :
        /\ \A k \in D : r[k] = t[p[k]]
        /\ \A i \in D : \E k \in D : p[k] = i
        /\ \A k, l \in D : p[k] = p[l] => k = l
  BY RankedProperties
<1> HIDE DEF r
<1>4. (ClearGap(r) <=> ~Close(r)) /\ (ClearGap(t) <=> ~Close(t))
  BY <1>2, ClearGapMeansNoneIsClose
<1>5. Close(r) => Close(t)
  <2> SUFFICES ASSUME NEW k \in D, NEW l \in D, k # l,
                      \A m \in D : Score(r[m]) <= Score(r[k]),
                      Score(r[k]) < Score(r[l]) + ClearWinnerMargin
               PROVE  Close(t)
    BY <1>2 DEF Close
  <2>1. p[k] \in D /\ p[l] \in D /\ p[k] # p[l] /\ r[k] = t[p[k]] /\ r[l] = t[p[l]]
    BY <1>3
  <2>2. \A i \in D : Score(t[i]) <= Score(t[p[k]])
    <3> TAKE i \in D
    <3>1. PICK m \in D : p[m] = i
      BY <1>3
    <3>2. r[m] = t[i] /\ r[k] = t[p[k]] /\ Score(r[m]) <= Score(r[k])
      BY <1>3, <3>1
    <3> QED BY <3>2
  <2> QED BY <1>1, <2>1, <2>2 DEF Close
<1>6. Close(t) => Close(r)
  <2> SUFFICES ASSUME NEW i \in D, NEW j \in D, i # j,
                      \A m \in D : Score(t[m]) <= Score(t[i]),
                      Score(t[i]) < Score(t[j]) + ClearWinnerMargin
               PROVE  Close(r)
    BY <1>1 DEF Close
  <2>1. PICK k \in D, l \in D : p[k] = i /\ p[l] = j
    BY <1>3
  <2>2. k # l /\ r[k] = t[i] /\ r[l] = t[j]
    BY <1>3, <2>1
  <2>3. \A m \in D : Score(r[m]) <= Score(r[k])
    BY <1>3, <2>2
  <2> QED BY <1>2, <2>2, <2>3 DEF Close
<1>7. \A k \in D : Score(r[k]) <= Score(r[1])
  BY <1>1, <1>2
<1> QED BY <1>1, <1>2, <1>3, <1>4, <1>5, <1>6, <1>7 DEF r

\* The answers so far, against what was asked: a plan as it was asked for, a critique
\* that echoes its plan, a refinement that keeps its strategy.
AnswersFit(what, a) ==
  CASE what = "propose" -> a \in Seq(Raw)
    [] what = "critique" -> /\ a \in Seq(Critics)
                            /\ \A i \in DOMAIN a : /\ a[i].strategy = asked[i].strategy
                                                   /\ a[i].text = asked[i].text
    [] what = "refine" -> /\ a \in Seq(Raw)
                          /\ \A i \in DOMAIN a : a[i].strategy = asked[i].strategy
    [] OTHER -> a = <<>>

\* A round's refinements: one of each member that still had something to add.
Refines(r) ==
  /\ r \in Seq(Raw) /\ Len(r) = Cardinality(Unexhausted(beam))
  /\ \A i \in Unexhausted(beam) :
       r[Rank(i, Unexhausted(beam))].strategy = beam[i].strategy

\* What a batch is about, by phase.
BatchIsTheRounds ==
  /\ waiting \in {"propose", "critique", "refine", "loop", "raised", "done"}
  /\ waiting # "raised" => AnswersFit(waiting, answers) /\ Len(answers) <= Len(asked)
  /\ waiting = "propose" => asked \in Seq(Raw) /\ depth = 1
  /\ waiting = "critique" =>
       /\ asked \in Seq(Raw)
       /\ depth > 1 => Refines(refined) /\ asked = StillActive(refined)
  /\ waiting = "refine" => asked = StillActive(beam)
  /\ waiting \in {"loop", "done"} => asked = <<>>
  /\ depth \in 1..MaxDepth /\ beam \in Seq(Thought)

\* The meters, and that the trackers are even with them between two kickoffs.
BooksAreEven ==
  /\ meter \in [Agents -> Nat] /\ usage \in Nat /\ total \in Nat
  /\ waiting # "raised" => baseline = meter
  /\ SpendIsRecorded

\* The inductive invariant of TreeOfThought.
SearchInv == BooksAreEven /\ BatchIsTheRounds /\ CritiqueIsItsOwn /\ VerdictIsEarned


\* A thought with the critique it should have.
OwnsItsCritique(t) ==
  /\ t \in Thought
  /\ t.critic.strategy = t.strategy
  /\ t.exhausted \/ t.critic.text = t.text

\* A kickoff is booked as it is metered.
LEMMA KickoffIsBooked ==
  ASSUME BooksAreEven, waiting # "raised", waiting' # "raised", NEW n \in Nat, Kickoff(n),
         UNCHANGED total
  PROVE  BooksAreEven'
<1>1. /\ Agent \in Agents /\ baseline = meter
      /\ total + usage = meter["strategist"] + meter["critic"]
      /\ meter \in [Agents -> Nat] /\ usage \in Nat /\ total \in Nat
  BY DEF BooksAreEven, Agent, Agents, SpendIsRecorded
<1>2. PICK a \in Agents : a = Agent
  BY <1>1
<1>3. /\ meter' = [meter EXCEPT ![a] = meter[a] + n]
      /\ usage' = usage + (meter[a] + n - baseline[a])
      /\ baseline' = [baseline EXCEPT ![a] = meter[a] + n]
  <2>1. /\ meter' = [meter EXCEPT ![Agent] = meter[Agent] + n]
        /\ usage' = usage + (meter[Agent] + n - baseline[Agent])
        /\ baseline' = [baseline EXCEPT ![Agent] = meter[Agent] + n]
    BY <1>1 DEF Kickoff, Spent
  <2> QED BY <1>2, <2>1
<1>4. meter[a] \in Nat /\ meter["strategist"] \in Nat /\ meter["critic"] \in Nat
  BY <1>1 DEF Agents
<1>5. usage' = usage + n /\ usage' \in Nat
  BY <1>1, <1>3, <1>4
<1>6. meter' \in [Agents -> Nat] /\ baseline' = meter'
  BY <1>1, <1>3, <1>4
<1>7. meter'["strategist"] + meter'["critic"] = meter["strategist"] + meter["critic"] + n
  BY <1>1, <1>2, <1>3, <1>4 DEF Agents
<1> QED
  BY <1>1, <1>4, <1>5, <1>6, <1>7 DEF BooksAreEven, SpendIsRecorded

\* Whatever is booked stays booked: an answer that is asked for again, and a search that
\* ends in either way, are added once.
LEMMA BooksStayEven ==
  ASSUME SearchInv, SearchNext
  PROVE  BooksAreEven'
<1> USE DEF SearchInv
<1>1. ASSUME UNCHANGED <<meter, baseline, usage, total>>, waiting # "raised", waiting' # "raised"
      PROVE  BooksAreEven'
  BY <1>1 DEF BooksAreEven, SpendIsRecorded
<1>2. ASSUME NEW outcome, EndSearch(outcome), waiting # "raised"
      PROVE  BooksAreEven'
  <2>1. /\ total' = total + usage /\ usage' = 0 /\ baseline' = meter /\ UNCHANGED meter
        /\ waiting' # "raised"
    BY <1>2 DEF EndSearch, Ask
  <2> QED BY <1>2, <2>1 DEF BooksAreEven, SpendIsRecorded
<1>3. CASE DispatchBatch
  <2>1. Len(asked) \in Nat /\ waiting # "raised" /\ waiting' # "raised"
    BY <1>3, StillActiveProperties DEF DispatchBatch, BatchIsTheRounds
  <2> QED BY <1>3, <2>1, KickoffIsBooked DEF DispatchBatch
<1>4. CASE AskAgain
  BY <1>4, KickoffIsBooked DEF AskAgain, Unresolved
<1>5. CASE KickoffRaises
  BY <1>5 DEF KickoffRaises, Agent, Agents, BooksAreEven, SpendIsRecorded
<1>6. CASE AcceptAnswer
  BY <1>1, <1>6 DEF AcceptAnswer, Unresolved
<1>7. CASE Proposed \/ Critiqued \/ Refined \/ Deepen
  BY <1>1, <1>7 DEF Proposed, Critiqued, Refined, Deepen, Ask
<1>8. CASE AbandonSearch \/ Conclude
  BY <1>2, <1>8 DEF AbandonSearch, Conclude, Unresolved
<1> QED BY <1>3, <1>4, <1>5, <1>6, <1>7, <1>8 DEF SearchNext

\* The first round: the best of the critiqued plans, each with its own critique.
LEMMA PrunedOwnTheirCritiques ==
  ASSUME NEW plans \in Seq(Raw), NEW critiques \in Seq(Critics), Len(critiques) = Len(plans),
         \A i \in DOMAIN critiques : /\ critiques[i].strategy = plans[i].strategy
                                     /\ critiques[i].text = plans[i].text
  PROVE  LET b == Prune([i \in DOMAIN plans |-> Scored(plans[i], critiques[i])])
         IN b \in Seq(Thought) /\ \A k \in DOMAIN b : OwnsItsCritique(b[k])
<1> DEFINE t == [i \in DOMAIN plans |-> Scored(plans[i], critiques[i])]
           b == Prune(t)
<1>1. ASSUME NEW i \in DOMAIN plans PROVE OwnsItsCritique(Scored(plans[i], critiques[i]))
  <2>1. plans[i] \in Raw /\ critiques[i] \in Critics /\ i \in DOMAIN critiques
    OBVIOUS
  <2> QED BY <2>1 DEF Raw, Thought, Scored, OwnsItsCritique
<1>2. /\ t \in Seq(Thought) /\ Len(t) \in Nat
      /\ \A i \in 1..Len(t) : OwnsItsCritique(t[i])
  <2>1. t \in [1..Len(plans) -> Thought] /\ Len(plans) \in Nat
    BY <1>1 DEF OwnsItsCritique
  <2> QED BY <1>1, <2>1
<1> HIDE DEF t
<1>3. Scores \subseteq Nat /\ BeamWidth \in Nat
  BY BoundAssumption
<1>4. /\ Ranked(t) \in Seq(Thought) /\ Len(Ranked(t)) = Len(t)
      /\ \A k \in 1..Len(t) : \E i \in 1..Len(t) : Ranked(t)[k] = t[i]
  <2>1. Ranked(t) \in Seq(Thought) /\ Len(Ranked(t)) = Len(t)
    BY <1>2, <1>3, RankedProperties
  <2>2. PICK p \in [1..Len(t) -> 1..Len(t)] :
          /\ \A k \in 1..Len(t) : Ranked(t)[k] = t[p[k]]
          /\ \A i \in 1..Len(t) : \E k \in 1..Len(t) : p[k] = i
          /\ \A k, l \in 1..Len(t) : p[k] = p[l] => k = l
    BY <1>2, <1>3, RankedProperties
  <2> QED BY <2>1, <2>2
<1>5. PICK w \in Nat : w <= Len(t) /\ b = [k \in 1..w |-> Ranked(t)[k]]
  BY <1>2, <1>3 DEF Prune
<1>6. \A k \in 1..w : OwnsItsCritique(Ranked(t)[k])
  <2> TAKE k \in 1..w
  <2>1. k \in 1..Len(t)
    BY <1>2, <1>5
  <2>2. PICK i \in 1..Len(t) : Ranked(t)[k] = t[i]
    BY <1>4, <2>1
  <2> QED BY <1>2, <2>2
<1>7. b \in [1..w -> Thought] /\ \A k \in 1..w : OwnsItsCritique(b[k])
  BY <1>5, <1>6 DEF OwnsItsCritique
<1> HIDE DEF b
<1>8. b \in Seq(Thought) /\ DOMAIN b = 1..w
  BY <1>7
<1> QED BY <1>7, <1>8 DEF b, t

\* What an exhausted refinement carries forward.
LEMMA CarriedOwnsItsCritique ==
  ASSUME NEW raw \in Raw, NEW parent, OwnsItsCritique(parent), raw.strategy = parent.strategy,
         raw.exhausted
  PROVE  OwnsItsCritique(CarryForward(raw, parent))
BY DEF Raw, Thought, CarryForward, Scored, OwnsItsCritique

\* A later round: the k-th answer of the critic is about the k-th refinement that has
\* something to say, and goes to the member that this refinement is of.
LEMMA MergedOwnTheirCritiques ==
  ASSUME beam \in Seq(Thought), CritiqueIsItsOwn, Refines(refined),
         NEW critiques \in Seq(Critics), Len(critiques) = Len(StillActive(refined)),
         \A i \in DOMAIN critiques :
           /\ critiques[i].strategy = StillActive(refined)[i].strategy
           /\ critiques[i].text = StillActive(refined)[i].text
  PROVE  /\ Merged(critiques) \in Seq(Thought)
         /\ \A i \in DOMAIN Merged(critiques) : OwnsItsCritique(Merged(critiques)[i])
<1> DEFINE U == Unexhausted(beam)
           A == Unexhausted(refined)
           m == Merged(critiques)
           k(i) == Rank(i, U)
<1>1. /\ Len(beam) \in Nat /\ DOMAIN beam = 1..Len(beam)
      /\ \A i \in DOMAIN beam : OwnsItsCritique(beam[i])
      /\ \A i \in DOMAIN beam : i \in U <=> ~beam[i].exhausted
  BY DEF OwnsItsCritique, CritiqueIsItsOwn, Unexhausted
<1>2. /\ refined \in Seq(Raw) /\ Len(refined) = Cardinality(U)
      /\ \A i \in U : refined[k(i)].strategy = beam[i].strategy
  BY DEF Refines
<1>3. \A j \in DOMAIN refined : refined[j] \in Raw /\ (j \in A <=> ~refined[j].exhausted)
  BY <1>2 DEF Unexhausted
<1>4. \A i \in U : k(i) \in DOMAIN refined
  <2>1. U \in SUBSET (1..Len(beam))
    BY <1>1 DEF Unexhausted
  <2>2. \A i \in U : k(i) \in 1..Cardinality(U)
    <3> HIDE DEF U
    <3> QED BY <1>1, <2>1, RankTellsPositionsApart
  <2>3. DOMAIN refined = 1..Cardinality(U)
    BY <1>2
  <2> QED BY <2>2, <2>3
<1>5. \A j \in A : /\ Rank(j, A) \in DOMAIN critiques
                   /\ StillActive(refined)[Rank(j, A)] = refined[j]
  <2>1. \A j \in A : /\ Rank(j, A) \in 1..Len(StillActive(refined))
                     /\ StillActive(refined)[Rank(j, A)] = refined[j]
    BY <1>2, StillActiveProperties
  <2> QED BY <2>1
<1>6. m = [i \in DOMAIN beam |->
             IF beam[i].exhausted THEN beam[i]
             ELSE IF refined[k(i)].exhausted THEN CarryForward(refined[k(i)], beam[i])
             ELSE Scored(refined[k(i)], critiques[Rank(k(i), A)])]
  BY DEF Merged, CritiqueOf
<1> HIDE DEF U, A, m, k
<1>7. ASSUME NEW i \in DOMAIN beam PROVE OwnsItsCritique(m[i])
  <2>1. CASE beam[i].exhausted
    BY <1>1, <1>6, <2>1
  <2>2. CASE ~beam[i].exhausted /\ refined[k(i)].exhausted
    <3>1. m[i] = CarryForward(refined[k(i)], beam[i])
      BY <1>6, <2>2
    <3>2. refined[k(i)] \in Raw /\ refined[k(i)].strategy = beam[i].strategy
      BY <1>1, <1>2, <1>3, <1>4, <2>2
    <3> QED BY <1>1, <2>2, <3>1, <3>2, CarriedOwnsItsCritique
  <2>3. CASE ~beam[i].exhausted /\ ~refined[k(i)].exhausted
    <3>1. m[i] = Scored(refined[k(i)], critiques[Rank(k(i), A)])
      BY <1>6, <2>3
    <3>2. refined[k(i)] \in Raw /\ k(i) \in A
      BY <1>1, <1>3, <1>4, <2>3
    <3>3. PICK c \in Critics : /\ c = critiques[Rank(k(i), A)]
                                 /\ c.strategy = refined[k(i)].strategy
                                 /\ c.text = refined[k(i)].text
      BY <1>5, <3>2
    <3> QED BY <3>1, <3>2, <3>3 DEF Raw, Thought, Scored, OwnsItsCritique
  <2> QED BY <2>1, <2>2, <2>3
<1>8. m = [i \in 1..Len(beam) |-> m[i]]
  BY <1>1, <1>6
<1>9. m \in Seq(Thought) /\ DOMAIN m = DOMAIN beam
  <2>1. m \in [1..Len(beam) -> Thought]
    BY <1>1, <1>7, <1>8 DEF OwnsItsCritique
  <2> QED BY <1>1, <2>1
<1> QED BY <1>7, <1>9 DEF m

\* Nobody has anything to add any more: every refinement is carried forward.
LEMMA AllCarriedOwnTheirCritiques ==
  ASSUME beam \in Seq(Thought), CritiqueIsItsOwn,
         NEW r, Refines(r), StillActive(r) = <<>>
  PROVE  LET b == [i \in DOMAIN beam |->
                     IF beam[i].exhausted THEN beam[i]
                     ELSE CarryForward(r[Rank(i, Unexhausted(beam))], beam[i])]
         IN b \in Seq(Thought) /\ \A i \in DOMAIN b : OwnsItsCritique(b[i])
<1> DEFINE U == Unexhausted(beam)
           k(i) == Rank(i, U)
           b == [i \in DOMAIN beam |-> IF beam[i].exhausted THEN beam[i]
                                       ELSE CarryForward(r[k(i)], beam[i])]
<1>1. /\ Len(beam) \in Nat /\ DOMAIN beam = 1..Len(beam)
      /\ \A i \in DOMAIN beam : OwnsItsCritique(beam[i])
      /\ \A i \in DOMAIN beam : i \in U <=> ~beam[i].exhausted
  BY DEF OwnsItsCritique, CritiqueIsItsOwn, Unexhausted
<1>2. /\ r \in Seq(Raw) /\ Len(r) = Cardinality(U)
      /\ \A i \in U : r[k(i)].strategy = beam[i].strategy
  BY DEF Refines
<1>3. \A j \in DOMAIN r : r[j] \in Raw /\ r[j].exhausted
  <2>1. Unexhausted(r) = {}
    BY <1>2, StillActiveProperties
  <2> QED BY <1>2, <2>1 DEF Unexhausted
<1>4. \A i \in U : k(i) \in DOMAIN r
  <2>1. U \in SUBSET (1..Len(beam))
    BY <1>1 DEF Unexhausted
  <2>2. \A i \in U : k(i) \in 1..Cardinality(U)
    <3> HIDE DEF U
    <3> QED BY <1>1, <2>1, RankTellsPositionsApart
  <2>3. DOMAIN r = 1..Cardinality(U)
    BY <1>2
  <2> QED BY <2>2, <2>3
<1>5. b = [i \in 1..Len(beam) |-> b[i]]
  BY <1>1
<1>6. ASSUME NEW i \in DOMAIN beam PROVE OwnsItsCritique(b[i])
  <2>1. CASE beam[i].exhausted
    BY <1>1, <2>1
  <2>2. CASE ~beam[i].exhausted
    <3>1. b[i] = CarryForward(r[k(i)], beam[i])
      BY <2>2
    <3>2. r[k(i)] \in Raw /\ r[k(i)].exhausted /\ r[k(i)].strategy = beam[i].strategy
      BY <1>1, <1>2, <1>3, <1>4, <2>2
    <3> HIDE DEF b, k
    <3> QED BY <1>1, <3>1, <3>2, CarriedOwnsItsCritique
  <2> QED BY <2>1, <2>2
<1> HIDE DEF b
<1>7. b \in Seq(Thought) /\ DOMAIN b = DOMAIN beam
  <2>1. b \in [1..Len(beam) -> Thought]
    BY <1>1, <1>5, <1>6 DEF OwnsItsCritique
  <2> QED BY <1>1, <2>1
<1> QED BY <1>6, <1>7 DEF b, k, U

\* One more answer is one more that fits.
LEMMA AcceptedAnswerFits ==
  ASSUME SearchInv, AcceptAnswer
  PROVE  AnswersFit(waiting, answers') /\ Len(answers') <= Len(asked)
<1>1. PICK a \in Answer(asked[Len(answers) + 1]) : answers' = Append(answers, a)
  BY DEF AcceptAnswer
<1>2. /\ waiting # "raised" /\ Len(answers) < Len(asked)
      /\ AnswersFit(waiting, answers) /\ BatchIsTheRounds
  BY DEF AcceptAnswer, Unresolved, SearchInv, BatchIsTheRounds
<1>3. waiting \in {"propose", "critique", "refine"}
  BY <1>2 DEF BatchIsTheRounds, AnswersFit
<1>4. PICK n : n = Len(answers) + 1
  OBVIOUS
<1>5. CASE waiting = "propose"
  <2>1. /\ asked \in Seq(Raw) /\ answers \in Seq(Raw) /\ a = asked[n]
    BY <1>1, <1>2, <1>4, <1>5 DEF BatchIsTheRounds, AnswersFit, Answer
  <2>2. n \in DOMAIN asked /\ a \in Raw
    BY <1>2, <1>4, <2>1
  <2> QED BY <1>1, <1>2, <1>5, <2>1, <2>2 DEF AnswersFit
<1>6. CASE waiting = "critique"
  <2>1. asked \in Seq(Raw) /\ answers \in Seq(Critics)
        /\ \A i \in DOMAIN answers : /\ answers[i].strategy = asked[i].strategy
                                     /\ answers[i].text = asked[i].text
    BY <1>2, <1>6 DEF BatchIsTheRounds, AnswersFit
  <2>2. n \in DOMAIN asked /\ asked[n] \in Raw
    BY <1>2, <1>4, <2>1
  <2>3. \E s \in Scores : a = [strategy |-> asked[n].strategy, text |-> asked[n].text, score |-> s]
    BY <1>1, <1>4, <1>6 DEF Answer
  <2>4. a \in Critics /\ a.strategy = asked[n].strategy /\ a.text = asked[n].text
    BY <2>2, <2>3 DEF Raw, Critics
  <2>5. /\ answers' \in Seq(Critics) /\ Len(answers') = n
        /\ \A i \in 1..n : answers'[i] = IF i = n THEN a ELSE answers[i]
    BY <1>1, <1>4, <2>1, <2>4
  <2>6. \A i \in DOMAIN answers' : /\ answers'[i].strategy = asked[i].strategy
                                   /\ answers'[i].text = asked[i].text
    BY <1>4, <2>1, <2>4, <2>5
  <2> QED BY <1>2, <1>4, <1>6, <2>1, <2>5, <2>6 DEF AnswersFit
<1>7. CASE waiting = "refine"
  <2>1. /\ asked \in Seq(Thought) /\ answers \in Seq(Raw)
        /\ \A i \in DOMAIN answers : answers[i].strategy = asked[i].strategy
    BY <1>2, <1>7, StillActiveProperties DEF BatchIsTheRounds, AnswersFit
  <2>2. n \in DOMAIN asked /\ asked[n] \in Thought
    BY <1>2, <1>4, <2>1
  <2>3. \E x \in {depth, asked[n].text}, e \in BOOLEAN : a = Refinement(asked[n], x, e)
    BY <1>1, <1>4, <1>7 DEF Answer
  <2>4. a \in Raw /\ a.strategy = asked[n].strategy
    BY <1>2, <2>2, <2>3 DEF Thought, Raw, Refinement, BatchIsTheRounds
  <2>5. /\ answers' \in Seq(Raw) /\ Len(answers') = n
        /\ \A i \in 1..n : answers'[i] = IF i = n THEN a ELSE answers[i]
    BY <1>1, <1>4, <2>1, <2>4
  <2>6. \A i \in DOMAIN answers' : answers'[i].strategy = asked[i].strategy
    BY <1>4, <2>1, <2>4, <2>5
  <2> QED BY <1>2, <1>4, <1>7, <2>1, <2>5, <2>6 DEF AnswersFit
<1> QED BY <1>3, <1>5, <1>6, <1>7

\* The plans of the first round.
LEMMA BlankIsOnePlanPerStrategy ==
  Blank \in Seq(Raw) /\ MaxDepth \in Nat \ {0} /\ 1 \in 1..MaxDepth
<1>1. MaxDepth \in Nat \ {0} /\ Strategies \in Seq(StrategySet)
  BY BoundAssumption DEF StrategySet
<1>2. \A i \in DOMAIN Strategies :
        [strategy |-> Strategies[i], depth |-> 1, text |-> 1, exhausted |-> FALSE] \in Raw
  BY <1>1 DEF Raw
<1> QED BY <1>1, <1>2 DEF Blank

\* A step that keeps the batch and the beam.
LEMMA SameBatch ==
  ASSUME SearchInv, UNCHANGED <<asked, answers, refined, beam, depth>>,
         waiting' = waiting \/ waiting' = "raised"
  PROVE  BatchIsTheRounds' /\ CritiqueIsItsOwn'
<1>1. \A what, a : AnswersFit(what, a)' <=> AnswersFit(what, a)
  BY DEF AnswersFit
<1> QED BY <1>1 DEF SearchInv, BatchIsTheRounds, Refines, CritiqueIsItsOwn

\* What a thought owns, an invariant of all thoughts says.
LEMMA OwnedBeam ==
  ASSUME beam' \in Seq(Thought), \A i \in DOMAIN beam' : OwnsItsCritique(beam'[i])
  PROVE  CritiqueIsItsOwn'
BY DEF OwnsItsCritique, CritiqueIsItsOwn

\* Each batch is what the round before it left to do, and no critique slips.
LEMMA BatchStaysTheRounds ==
  ASSUME SearchInv, SearchNext
  PROVE  BatchIsTheRounds' /\ CritiqueIsItsOwn'
<1>1. CASE DispatchBatch \/ AskAgain \/ KickoffRaises
  BY <1>1, SameBatch DEF DispatchBatch, AskAgain, KickoffRaises, search
<1>2. CASE AcceptAnswer
  <2>1. UNCHANGED <<asked, refined, beam, depth, waiting>>
    BY <1>2 DEF AcceptAnswer
  <2>2. AnswersFit(waiting, answers)' /\ Len(answers') <= Len(asked')
    BY <1>2, <2>1, AcceptedAnswerFits DEF AnswersFit
  <2> QED BY <2>1, <2>2 DEF SearchInv, BatchIsTheRounds, Refines, CritiqueIsItsOwn
<1>3. ASSUME NEW outcome, EndSearch(outcome) PROVE BatchIsTheRounds' /\ CritiqueIsItsOwn'
  <2>1. /\ answers' = <<>> /\ beam' = <<>> /\ depth' = 1
        /\ \/ waiting' = "propose" /\ asked' = Blank
           \/ waiting' = "done" /\ asked' = <<>>
    BY <1>3 DEF EndSearch, Ask
  <2>2. Len(<<>>) = 0 /\ Len(Blank) \in Nat
    BY BlankIsOnePlanPerStrategy
  <2> QED BY <2>1, <2>2, BlankIsOnePlanPerStrategy
          DEF BatchIsTheRounds, AnswersFit, CritiqueIsItsOwn
<1>4. CASE AbandonSearch \/ Conclude
  BY <1>3, <1>4 DEF AbandonSearch, Conclude
<1>5. CASE Proposed
  <2>1. /\ waiting = "propose" /\ waiting' = "critique" /\ asked' = answers /\ answers' = <<>>
        /\ UNCHANGED <<refined, beam, depth>>
    BY <1>5 DEF Proposed, Ask
  <2>2. answers \in Seq(Raw) /\ depth = 1
    BY <2>1 DEF SearchInv, BatchIsTheRounds, AnswersFit
  <2>3. Len(<<>>) = 0 /\ Len(answers) \in Nat
    BY <2>2
  <2> QED BY <2>1, <2>2, <2>3 DEF SearchInv, BatchIsTheRounds, AnswersFit, CritiqueIsItsOwn
<1>6. CASE Critiqued
  <2>1. /\ waiting = "critique" /\ waiting' = "loop" /\ asked' = <<>> /\ answers' = <<>>
        /\ beam' = IF depth = 1 THEN Prune([i \in DOMAIN asked |-> Scored(asked[i], answers[i])])
                   ELSE Merged(answers)
        /\ Len(answers) = Len(asked) /\ UNCHANGED <<refined, depth>>
    BY <1>6 DEF Critiqued, Ask, Resolved
  <2>2. /\ asked \in Seq(Raw) /\ answers \in Seq(Critics)
        /\ \A i \in DOMAIN answers : /\ answers[i].strategy = asked[i].strategy
                                     /\ answers[i].text = asked[i].text
        /\ depth \in 1..MaxDepth /\ beam \in Seq(Thought) /\ CritiqueIsItsOwn
        /\ depth > 1 => Refines(refined) /\ asked = StillActive(refined)
    BY <2>1 DEF SearchInv, BatchIsTheRounds, AnswersFit
  <2>3. beam' \in Seq(Thought) /\ \A i \in DOMAIN beam' : OwnsItsCritique(beam'[i])
    <3>1. CASE depth = 1
      BY <2>1, <2>2, <3>1, PrunedOwnTheirCritiques
    <3>2. CASE depth # 1
      <4>1. depth > 1
        BY <2>2, <3>2, BlankIsOnePlanPerStrategy
      <4>2. Refines(refined) /\ asked = StillActive(refined)
        BY <2>2, <4>1
      <4>3. /\ Merged(answers) \in Seq(Thought)
            /\ \A i \in DOMAIN Merged(answers) : OwnsItsCritique(Merged(answers)[i])
        BY <2>1, <2>2, <4>2, MergedOwnTheirCritiques
      <4> QED BY <2>1, <3>2, <4>3
    <3> QED BY <3>1, <3>2
  <2> QED BY <2>1, <2>2, <2>3, OwnedBeam DEF BatchIsTheRounds, AnswersFit
<1>7. CASE Refined
  <2>1. /\ waiting = "refine" /\ Len(answers) = Len(asked) /\ refined' = answers
        /\ answers' = <<>> /\ UNCHANGED depth
        /\ \/ /\ StillActive(answers) # <<>> /\ waiting' = "critique"
              /\ asked' = StillActive(answers) /\ beam' = beam
           \/ /\ StillActive(answers) = <<>> /\ waiting' = "loop" /\ asked' = <<>>
              /\ beam' = [i \in DOMAIN beam |->
                            IF beam[i].exhausted THEN beam[i]
                            ELSE CarryForward(answers[Rank(i, Unexhausted(beam))], beam[i])]
    BY <1>7 DEF Refined, Ask, Resolved
  <2>2. /\ answers \in Seq(Raw) /\ asked = StillActive(beam)
        /\ \A i \in DOMAIN answers : answers[i].strategy = asked[i].strategy
        /\ depth \in 1..MaxDepth /\ beam \in Seq(Thought) /\ CritiqueIsItsOwn
    BY <2>1 DEF SearchInv, BatchIsTheRounds, AnswersFit
  <2>3. /\ Len(asked) = Cardinality(Unexhausted(beam))
        /\ \A i \in Unexhausted(beam) :
             /\ Rank(i, Unexhausted(beam)) \in 1..Len(asked)
             /\ asked[Rank(i, Unexhausted(beam))] = beam[i]
    BY <2>2, StillActiveProperties
  <2>4. Refines(answers)
    <3>1. DOMAIN answers = 1..Len(asked)
      BY <2>1, <2>2
    <3> QED BY <2>1, <2>2, <2>3, <3>1 DEF Refines
  <2>5. CASE StillActive(answers) # <<>>
    <3>1. /\ waiting' = "critique" /\ asked' = StillActive(answers) /\ beam' = beam
      BY <2>1, <2>5
    <3>2. asked' \in Seq(Raw) /\ Len(asked') \in Nat
      BY <2>2, <3>1, StillActiveProperties
    <3>3. asked' = StillActive(refined)'
      BY <2>1, <3>1
    <3>4. Refines(refined)'
      BY <2>1, <2>4, <3>1 DEF Refines
    <3> QED BY <2>1, <2>2, <3>1, <3>2, <3>3, <3>4 DEF BatchIsTheRounds, AnswersFit, CritiqueIsItsOwn
  <2>6. CASE StillActive(answers) = <<>>
    <3>1. /\ waiting' = "loop" /\ asked' = <<>>
          /\ beam' = [i \in DOMAIN beam |->
                        IF beam[i].exhausted THEN beam[i]
                        ELSE CarryForward(answers[Rank(i, Unexhausted(beam))], beam[i])]
      BY <2>1, <2>6
    <3>2. beam' \in Seq(Thought) /\ \A i \in DOMAIN beam' : OwnsItsCritique(beam'[i])
      BY <2>2, <2>4, <2>6, <3>1, AllCarriedOwnTheirCritiques
    <3> QED BY <2>1, <2>2, <3>1, <3>2, OwnedBeam DEF BatchIsTheRounds, AnswersFit
  <2> QED BY <2>5, <2>6
<1>8. CASE Deepen
  <2>1. /\ waiting = "loop" /\ waiting' = "refine" /\ asked' = StillActive(beam) /\ answers' = <<>>
        /\ depth < MaxDepth /\ depth' = depth + 1 /\ UNCHANGED <<refined, beam>>
    BY <1>8 DEF Deepen, Ask
  <2>2. depth \in 1..MaxDepth /\ beam \in Seq(Thought) /\ CritiqueIsItsOwn
    BY DEF SearchInv, BatchIsTheRounds
  <2>3. asked' \in Seq(Thought) /\ Len(asked') \in Nat /\ depth' \in 1..MaxDepth
    BY <2>1, <2>2, StillActiveProperties, BlankIsOnePlanPerStrategy
  <2>4. asked' = StillActive(beam)'
    BY <2>1 DEF StillActive, Unexhausted, Nth
  <2> QED BY <2>1, <2>2, <2>3, <2>4 DEF BatchIsTheRounds, AnswersFit, CritiqueIsItsOwn
<1> QED BY <1>1, <1>2, <1>4, <1>5, <1>6, <1>7, <1>8 DEF SearchNext

\* A search that concludes has earned its verdict: _score_gap and `ranked` agree about
\* who is close, and the loop ends only at its limit, on a clear winner, or when nobody
\* has anything to add.
LEMMA VerdictStaysEarned ==
  ASSUME SearchInv, SearchNext
  PROVE  VerdictIsEarned'
<1>1. ASSUME UNCHANGED result PROVE VerdictIsEarned'
  BY <1>1 DEF SearchInv, VerdictIsEarned
<1>2. ASSUME result'.reason \in {"none", "failed"} PROVE VerdictIsEarned'
  BY <1>2 DEF VerdictIsEarned
<1>3. CASE DispatchBatch \/ AbandonSearch
  BY <1>2, <1>3 DEF DispatchBatch, AbandonSearch, EndSearch, NoResult
<1>4. CASE Conclude
  <2> DEFINE c == Ranked(beam)
  <2>1. /\ Scores \subseteq Nat /\ ClearWinnerMargin \in Nat \ {0} /\ MaxDepth \in Nat
        /\ beam \in Seq(Thought) /\ depth \in 1..MaxDepth
        /\ depth < MaxDepth => ClearGap(beam) \/ Unexhausted(beam) = {}
    BY <1>4, BoundAssumption DEF Conclude, SearchInv, BatchIsTheRounds
  <2>2. result' = [winner |-> IF ClearGap(c) THEN <<c[1]>> ELSE <<>>,
                   reason |-> Reason, candidates |-> c, depth |-> depth]
    BY <1>4 DEF Conclude, EndSearch
  <2>3. /\ ClearGap(c) <=> ClearGap(beam)
        /\ ClearGap(c) <=> ~Close(c)
        /\ \A k \in DOMAIN c : \E i \in DOMAIN beam : c[k] = beam[i]
        /\ \A k \in DOMAIN c : Score(c[k]) <= Score(c[1])
    BY <2>1, RankedIsAsClose
  <2>4. /\ Reason \in {"depth_limit", "clear_winner", "exhausted_evidence"}
        /\ Reason = "depth_limit" => depth = MaxDepth
        /\ Reason = "clear_winner" => ClearGap(beam)
        /\ Reason = "exhausted_evidence" => ~ClearGap(beam) /\ depth # MaxDepth
    BY DEF Reason
  <2> HIDE DEF c
  <2>5. Reason = "exhausted_evidence" => \A k \in DOMAIN c : c[k].exhausted
    <3> SUFFICES ASSUME Reason = "exhausted_evidence", NEW k \in DOMAIN c
                 PROVE  c[k].exhausted
      OBVIOUS
    <3>1. Unexhausted(beam) = {}
      BY <2>1, <2>4
    <3>2. PICK i \in DOMAIN beam : c[k] = beam[i]
      BY <2>3
    <3> QED BY <3>1, <3>2 DEF Unexhausted
  <2>6. /\ result'.candidates = c /\ result'.reason = Reason /\ result'.depth = depth
        /\ result'.winner = <<>> <=> ~ClearGap(c)
        /\ result'.winner # <<>> => result'.winner[1] = c[1]
    BY <2>2
  <2>7. Close(c) <=> \E i, j \in DOMAIN c :
                       /\ i # j /\ \A k \in DOMAIN c : Score(c[k]) <= Score(c[i])
                       /\ Score(c[i]) < Score(c[j]) + ClearWinnerMargin
    BY DEF Close
  <2> QED BY <2>3, <2>4, <2>5, <2>6, <2>7 DEF VerdictIsEarned, Score
<1> QED BY <1>1, <1>3, <1>4
        DEF SearchNext, AcceptAnswer, AskAgain, KickoffRaises, Proposed, Critiqued, Refined, Deepen

\* The first search begins with models that have spent nothing.
LEMMA SearchInitIsEven ==
  ASSUME SearchInit
  PROVE  SearchInv
<1>1. /\ waiting = "propose" /\ asked = Blank /\ answers = <<>> /\ beam = <<>> /\ depth = 1
      /\ meter = [a \in Agents |-> 0] /\ baseline = meter /\ usage = 0 /\ total = 0
      /\ result = NoResult
  BY DEF SearchInit
<1>2. Len(<<>>) = 0 /\ Len(Blank) \in Nat
  BY BlankIsOnePlanPerStrategy
<1>3. BatchIsTheRounds /\ CritiqueIsItsOwn
  BY <1>1, <1>2, BlankIsOnePlanPerStrategy DEF BatchIsTheRounds, AnswersFit, CritiqueIsItsOwn
<1>4. BooksAreEven
  BY <1>1 DEF BooksAreEven, SpendIsRecorded, Agents
<1>5. VerdictIsEarned
  BY <1>1 DEF VerdictIsEarned, NoResult
<1> QED BY <1>3, <1>4, <1>5 DEF SearchInv

\* The inductive invariant of the search, for any strategies, scores, margin, beam width
\* and depth, and any number of attempts and of contested findings.
THEOREM SearchInvariant ==
  SearchSpec => []SearchInv
<1>1. SearchInit => SearchInv
  BY SearchInitIsEven
<1>2. SearchInv /\ [SearchNext]_searchVars => SearchInv'
  <2>1. ASSUME SearchInv, SearchNext PROVE SearchInv'
    BY <2>1, BooksStayEven, BatchStaysTheRounds, VerdictStaysEarned DEF SearchInv
  <2>2. ASSUME SearchInv, UNCHANGED searchVars PROVE SearchInv'
    <3>1. BooksAreEven' /\ VerdictIsEarned'
      BY <2>2 DEF SearchInv, searchVars, BooksAreEven, SpendIsRecorded, VerdictIsEarned
    <3>2. BatchIsTheRounds' /\ CritiqueIsItsOwn'
      BY <2>2, SameBatch DEF searchVars, search
    <3> QED BY <3>1, <3>2 DEF SearchInv
  <2> QED BY <2>1, <2>2
<1> QED BY <1>1, <1>2, PTL DEF SearchSpec

\* A search is under way only for a contested finding; the loop ends past the last one.
SearchTypes == SearchTypeOK /\ (waiting # "done" => finding <= Contested)

LEMMA SequencesOfEither ==
  ASSUME NEW A, NEW B
  PROVE  Seq(A) \subseteq Seq(A \cup B) /\ Seq(B) \subseteq Seq(A \cup B)
OBVIOUS

\* Where no kickoff has raised, the inductive invariant types the batch, the beam and the
\* books.
BatchTypes ==
  waiting # "raised" =>
    /\ asked \in Seq(Raw \cup Thought) /\ Len(answers) <= Len(asked)
    /\ beam \in Seq(Thought) /\ depth \in 1..MaxDepth
    /\ {meter, baseline} \subseteq [Agents -> Nat] /\ {usage, total} \subseteq Nat

LEMMA BatchIsTyped ==
  ASSUME SearchInv PROVE BatchTypes
<1> SUFFICES ASSUME waiting # "raised"
             PROVE  /\ asked \in Seq(Raw \cup Thought) /\ Len(answers) <= Len(asked)
                    /\ beam \in Seq(Thought) /\ depth \in 1..MaxDepth
                    /\ {meter, baseline} \subseteq [Agents -> Nat]
                    /\ {usage, total} \subseteq Nat
  BY DEF BatchTypes
<1>1. /\ Len(answers) <= Len(asked) /\ beam \in Seq(Thought) /\ depth \in 1..MaxDepth
      /\ waiting \in {"propose", "critique", "refine", "loop", "done"}
      /\ waiting \in {"propose", "critique"} => asked \in Seq(Raw)
      /\ waiting = "refine" => asked = StillActive(beam)
      /\ waiting \in {"loop", "done"} => asked = <<>>
  BY DEF SearchInv, BatchIsTheRounds
<1>2. {meter, baseline} \subseteq [Agents -> Nat] /\ {usage, total} \subseteq Nat
  BY DEF SearchInv, BooksAreEven
<1>3. asked \in Seq(Raw) \cup Seq(Thought)
  <2>1. StillActive(beam) \in Seq(Thought) /\ <<>> \in Seq(Raw)
    BY <1>1, StillActiveProperties
  <2> QED BY <1>1, <2>1
<1> QED BY <1>1, <1>2, <1>3, SequencesOfEither

\* What the invariant leaves open is typed too: the finding, the attempt, the refinements.
LEMMA SearchStepKeepsTypes ==
  ASSUME SearchInv, SearchTypes, SearchNext
  PROVE  /\ finding' \in 1..(Contested + 1) /\ (waiting' # "done" => finding' <= Contested)
         /\ attempt' \in 0..MaxAttempts /\ refined' \in Seq(Raw)
<1>0. /\ finding \in 1..(Contested + 1) /\ (waiting # "done" => finding <= Contested)
      /\ attempt \in 0..MaxAttempts /\ refined \in Seq(Raw)
      /\ MaxAttempts \in Nat \ {0} /\ Contested \in Nat \ {0}
  BY BoundAssumption DEF SearchTypes, SearchTypeOK
<1>1. ASSUME UNCHANGED <<finding, refined>>, waiting # "done", attempt' \in 0..MaxAttempts
      PROVE  /\ finding' \in 1..(Contested + 1) /\ (waiting' # "done" => finding' <= Contested)
             /\ attempt' \in 0..MaxAttempts /\ refined' \in Seq(Raw)
  <2>1. finding' = finding /\ refined' = refined /\ finding <= Contested
    BY <1>0, <1>1
  <2> QED BY <1>0, <1>1, <2>1
<1>2. CASE DispatchBatch \/ AcceptAnswer \/ AskAgain \/ KickoffRaises
  <2>1. waiting # "done"
    BY <1>2 DEF DispatchBatch, AcceptAnswer, AskAgain, KickoffRaises, Unresolved, SearchInv,
                BatchIsTheRounds, AnswersFit
  <2>2. UNCHANGED <<finding, refined>>
    BY <1>2 DEF DispatchBatch, AcceptAnswer, AskAgain, KickoffRaises, search
  <2>3. \/ attempt' = 1 \/ attempt' = attempt
        \/ attempt < MaxAttempts /\ attempt' = attempt + 1
    BY <1>2 DEF DispatchBatch, AcceptAnswer, AskAgain, KickoffRaises, search
  <2>4. attempt' \in 0..MaxAttempts
    BY <1>0, <2>3
  <2> QED BY <1>1, <2>1, <2>2, <2>4
<1>3. CASE Proposed \/ Critiqued \/ Deepen
  <2>1. waiting # "done" /\ attempt' = 0 /\ UNCHANGED <<finding, refined>>
    BY <1>3 DEF Proposed, Critiqued, Deepen, Ask
  <2> QED BY <1>0, <1>1, <2>1
<1>4. CASE Refined
  <2>1. waiting = "refine" /\ attempt' = 0 /\ refined' = answers /\ UNCHANGED finding
    BY <1>4 DEF Refined, Ask
  <2>2. answers \in Seq(Raw)
    BY <2>1 DEF SearchInv, BatchIsTheRounds, AnswersFit
  <2>3. finding' = finding /\ refined' = answers /\ finding <= Contested
    BY <1>0, <2>1
  <2> QED BY <1>0, <2>1, <2>2, <2>3
<1>5. ASSUME NEW outcome, EndSearch(outcome), waiting # "done"
      PROVE  /\ finding' \in 1..(Contested + 1) /\ (waiting' # "done" => finding' <= Contested)
             /\ attempt' \in 0..MaxAttempts /\ refined' \in Seq(Raw)
  <2>1. /\ finding' = finding + 1 /\ refined' = <<>> /\ attempt' = 0
        /\ waiting' = IF finding < Contested THEN "propose" ELSE "done"
    BY <1>5 DEF EndSearch, Ask
  <2>2. finding <= Contested /\ <<>> \in Seq(Raw)
    BY <1>0, <1>5
  <2> QED BY <1>0, <2>1, <2>2
<1>6. CASE AbandonSearch \/ Conclude
  <2>1. waiting # "done"
    BY <1>6 DEF AbandonSearch, Conclude, Unresolved, SearchInv, BatchIsTheRounds, AnswersFit
  <2> QED BY <1>5, <1>6, <2>1 DEF AbandonSearch, Conclude
<1> QED BY <1>2, <1>3, <1>4, <1>6 DEF SearchNext

\* The loop over the findings visits each once and the batches, the beam and the books
\* keep their types, also after a kickoff that raised.
THEOREM SearchTypeCorrect == SearchSpec => []SearchTypeOK
<1>1. SearchInit => SearchTypes
  <2> SUFFICES ASSUME SearchInit PROVE SearchTypes
    OBVIOUS
  <2>1. SearchInv /\ waiting = "propose" /\ finding = 1 /\ attempt = 0 /\ refined = <<>>
    BY SearchInitIsEven DEF SearchInit
  <2> QED BY <2>1, BatchIsTyped, BoundAssumption DEF BatchTypes, SearchTypes, SearchTypeOK
<1>2. SearchTypes /\ SearchInv /\ SearchInv' /\ BatchTypes' /\ [SearchNext]_searchVars
        => SearchTypes'
  <2> SUFFICES ASSUME SearchTypes, SearchInv, SearchInv', BatchTypes',
                      [SearchNext]_searchVars
               PROVE  SearchTypes'
    OBVIOUS
  <2>1. CASE UNCHANGED searchVars
    BY <2>1 DEF searchVars, search, SearchTypes, SearchTypeOK
  <2>2. CASE SearchNext /\ waiting' # "raised"
    <3>1. /\ asked' \in Seq(Raw \cup Thought) /\ Len(answers') <= Len(asked')
          /\ beam' \in Seq(Thought) /\ depth' \in 1..MaxDepth
          /\ {meter', baseline'} \subseteq [Agents -> Nat] /\ {usage', total'} \subseteq Nat
      BY <2>2 DEF BatchTypes
    <3>2. waiting' \in {"propose", "critique", "refine", "loop", "raised", "done"}
      BY DEF SearchInv, BatchIsTheRounds
    <3> QED BY <2>2, <3>1, <3>2, SearchStepKeepsTypes DEF SearchTypes, SearchTypeOK
  <2>3. CASE SearchNext /\ waiting' = "raised"
    <3>1. KickoffRaises
      BY <2>3 DEF SearchNext, DispatchBatch, AcceptAnswer, AskAgain, AbandonSearch, Proposed,
                  Critiqued, Refined, Deepen, Conclude, EndSearch, Ask, Unresolved
    <3>2. /\ UNCHANGED <<search, baseline, usage, total>>
          /\ Agent \in Agents /\ \E n \in 0..1 : meter' = [meter EXCEPT ![Agent] = @ + n]
      BY <3>1 DEF KickoffRaises, Agent, Agents
    <3>3. meter' \in [Agents -> Nat]
      BY <3>2 DEF SearchTypes, SearchTypeOK
    <3> QED BY <2>3, <3>2, <3>3, SearchStepKeepsTypes DEF SearchTypes, SearchTypeOK, search
  <2> QED BY <2>1, <2>2, <2>3
<1>3. SearchTypes => SearchTypeOK
  BY DEF SearchTypes
<1>4. SearchInv => BatchTypes
  BY BatchIsTyped
<1> QED BY <1>1, <1>2, <1>3, <1>4, SearchInvariant, PTL DEF SearchSpec

\* _UsageTracker: no token is lost or counted twice, over retries, failed searches and
\* models that live on from one finding to the next.
THEOREM SpendIsAlwaysRecorded ==
  SearchSpec => []SpendIsRecorded
<1>1. SearchInv => SpendIsRecorded
  BY DEF SearchInv, BooksAreEven
<1> QED BY <1>1, SearchInvariant, PTL

\* run_tree_of_thought: no critique reaches another thought than the one it is about.
THEOREM CritiqueStaysWithItsThought ==
  SearchSpec => []CritiqueIsItsOwn
<1>1. SearchInv => CritiqueIsItsOwn
  BY DEF SearchInv
<1> QED BY <1>1, SearchInvariant, PTL

\* ToTResult: a winner leads by the margin, and where there is none a human has two
\* candidates within it to choose between.
THEOREM VerdictIsAlwaysEarned ==
  SearchSpec => []VerdictIsEarned
<1>1. SearchInv => VerdictIsEarned
  BY DEF SearchInv
<1> QED BY <1>1, SearchInvariant, PTL
=============================================================================
