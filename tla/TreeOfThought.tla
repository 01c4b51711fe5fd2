---------------------------- MODULE TreeOfThought ----------------------------
(***************************************************************************)
(* The beam search over remediation strategies that every contested        *)
(* finding of a run gets (tot.py, and the loop over the findings in        *)
(* agents/coordinator.py, _dispatch_tot).                                  *)
(*                                                                         *)
(* A strategist proposes one plan per strategy, a critic scores each, the  *)
(* best BeamWidth stay; in every further round the strategist refines the  *)
(* plans that still have something to add and the critic scores those      *)
(* again.  The two agents answer in batches, an answer that does not parse *)
(* or breaks a rule is asked for again, up to MaxAttempts times.           *)
(*                                                                         *)
(* A score is the aggregate of the critic's five axes.  A text is the      *)
(* round it was written in.  The language model behind an agent keeps one  *)
(* meter for its whole life, so what a search spent is a difference of two *)
(* readings; a task costs one unit.                                        *)
(***************************************************************************)
EXTENDS Naturals, Sequences, FiniteSets

CONSTANTS
  Strategies,          \* the members of Strategy, in order: a sequence
  BeamWidth, MaxDepth, MaxAttempts,
  Scores,              \* values of CriticScores.aggregate
  ClearWinnerMargin,
  Contested            \* the number of contested findings of the run

ASSUME BoundAssumption ==
  /\ {BeamWidth, MaxDepth, MaxAttempts, Contested} \subseteq Nat \ {0}
  /\ Scores \subseteq Nat /\ ClearWinnerMargin \in Nat \ {0}
  /\ Strategies \in Seq({Strategies[i] : i \in DOMAIN Strategies}) /\ Strategies # <<>>

VARIABLES
  finding,   \* the finding the loop is at
  waiting,   \* what run_tree_of_thought waits for
  asked,     \* the thoughts the batch is about
  answers,   \* the answers of the batch that are resolved
  attempt,   \* attempts at the next answer; 0 before the batch is dispatched
  refined,   \* the last round's refinements
  beam, depth,
  meter,     \* the token counters of the two models
  baseline,  \* _UsageTracker._baselines
  usage,     \* spent in this search
  total,     \* total_usage
  result     \* how the last search ended, until the next begins

search == <<finding, asked, answers, attempt, refined, beam, depth>>
searchVars == <<search, waiting, meter, baseline, usage, total, result>>

StrategySet == {Strategies[i] : i \in DOMAIN Strategies}
Agents == {"strategist", "critic"}
Critics == [strategy : StrategySet, text : 1..MaxDepth, score : Scores]
Raw == [strategy : StrategySet, depth : 1..MaxDepth, text : 1..MaxDepth, exhausted : BOOLEAN]
Thought == [strategy : StrategySet, depth : 1..MaxDepth, text : 1..MaxDepth,
            exhausted : BOOLEAN, critic : Critics]
NoResult == [winner |-> <<>>, reason |-> "none", candidates |-> <<>>, depth |-> 0]

SearchTypeOK ==
  /\ finding \in 1..(Contested + 1)
  /\ waiting \in {"propose", "critique", "refine", "loop", "raised", "done"}
  /\ asked \in Seq(Raw \cup Thought)
  /\ attempt \in 0..MaxAttempts
  /\ refined \in Seq(Raw) /\ beam \in Seq(Thought) /\ depth \in 1..MaxDepth
  /\ {meter, baseline} \subseteq [Agents -> Nat] /\ {usage, total} \subseteq Nat
  /\ Len(answers) <= Len(asked)

\* _propose_initial asks for one plan per strategy.
Blank == [i \in DOMAIN Strategies |->
            [strategy |-> Strategies[i], depth |-> 1, text |-> 1, exhausted |-> FALSE]]

SearchInit ==
  /\ finding = 1 /\ waiting = "propose" /\ depth = 1
  /\ asked = Blank /\ answers = <<>> /\ attempt = 0
  /\ refined = <<>> /\ beam = <<>>
  /\ meter = [a \in Agents |-> 0] /\ baseline = meter
  /\ usage = 0 /\ total = 0
  /\ result = NoResult

-----------------------------------------------------------------------------
(* The beam *)

Score(t) == t.critic.score

\* The positions that are not behind a position when sorted: stable, best first.
NotBehind(thoughts, i) ==
  {j \in DOMAIN thoughts : \/ Score(thoughts[j]) > Score(thoughts[i])
                           \/ Score(thoughts[j]) = Score(thoughts[i]) /\ j <= i}

Ranked(thoughts) ==
  [k \in DOMAIN thoughts |->
     thoughts[CHOOSE i \in DOMAIN thoughts : Cardinality(NotBehind(thoughts, i)) = k]]

Prune(thoughts) ==
  [k \in 1..(IF BeamWidth < Len(thoughts) THEN BeamWidth ELSE Len(thoughts)) |-> Ranked(thoughts)[k]]

\* Mutant of ClearGap: a lead of exactly the margin is a near tie.
ClearGapStrict(thoughts) ==
  LET ranked == Ranked(thoughts)
  IN Len(ranked) < 2 \/ Score(ranked[1]) > Score(ranked[2]) + ClearWinnerMargin

\* _score_gap(beam) >= CLEAR_WINNER_MARGIN; a single thought has an infinite gap.
ClearGap(thoughts) ==
  LET ranked == Ranked(thoughts)
  IN Len(ranked) < 2 \/ Score(ranked[1]) >= Score(ranked[2]) + ClearWinnerMargin

\* The n-th position among some positions.
Nth(n, positions) ==
  CHOOSE i \in positions : Cardinality({j \in positions : j <= i}) = n

Unexhausted(thoughts) == {i \in DOMAIN thoughts : ~thoughts[i].exhausted}

\* The members of a list that still have something to add, in order.
StillActive(thoughts) ==
  [n \in 1..Cardinality(Unexhausted(thoughts)) |-> thoughts[Nth(n, Unexhausted(thoughts))]]

Scored(raw, critic) == [strategy |-> raw.strategy, depth |-> raw.depth, text |-> raw.text,
                        exhausted |-> raw.exhausted, critic |-> critic]

\* _carry_forward
CarryForward(raw, parent) == Scored(raw, parent.critic)

\* Mutant of Rank: counted from the other end.
RankFromEnd(i, positions) == Cardinality({j \in positions : j >= i})

\* The rank of a position among some positions: where its answer is in a batch.
Rank(i, positions) == Cardinality({j \in positions : j <= i})

\* The critique of the k-th refinement: exhausted ones have none.
CritiqueOf(k, critiques) == critiques[Rank(k, Unexhausted(refined))]

\* The beam after a round: frozen thoughts as they are, exhausted refinements with the
\* critique of their parent, the others with a critique of their own.
Merged(critiques) ==
  [i \in DOMAIN beam |->
     LET k == Rank(i, Unexhausted(beam))
     IN IF beam[i].exhausted THEN beam[i]
        ELSE IF refined[k].exhausted THEN CarryForward(refined[k], beam[i])
        ELSE Scored(refined[k], CritiqueOf(k, critiques))]

-----------------------------------------------------------------------------
(* Dispatch *)

Agent == IF waiting = "critique" THEN "critic" ELSE "strategist"

\* Mutant of Spent: what the model has spent in its life.
SpentEver(agent, reading) == reading

\* delta_for: the reading less the last one.
Spent(agent, reading) == reading - baseline[agent]

\* A kickoff of n tasks and the readout after it.
Kickoff(n) ==
  LET reading == meter[Agent] + n
  IN /\ meter' = [meter EXCEPT ![Agent] = reading]
     /\ usage' = usage + Spent(Agent, reading)
     /\ baseline' = [baseline EXCEPT ![Agent] = reading]

\* _dispatch_batch: one Crew for all tasks.
DispatchBatch ==
  /\ waiting \in {"propose", "critique", "refine"} /\ attempt = 0
  /\ Kickoff(Len(asked))
  /\ attempt' = 1
  /\ result' = NoResult
  /\ UNCHANGED <<finding, asked, answers, refined, beam, depth, waiting, total>>

Refinement(t, text, exhausted) ==
  [strategy |-> t.strategy, depth |-> depth, text |-> text, exhausted |-> exhausted]

\* What the agents may answer about a thought: a plan, a critique, a refinement, whose
\* text may change even when nothing is said to be left to add.
Answer(t) ==
  CASE waiting = "propose" -> {t}
    [] waiting = "critique" -> {[strategy |-> t.strategy, text |-> t.text, score |-> s] : s \in Scores}
    [] waiting = "refine" -> {Refinement(t, depth, e) : e \in BOOLEAN} \cup {Refinement(t, t.text, TRUE)}

Unresolved == waiting # "raised" /\ attempt > 0 /\ Len(answers) < Len(asked)

\* _resolve: the next answer parses, echoes its strategy and keeps to the finding.
AcceptAnswer ==
  /\ Unresolved
  /\ \E a \in Answer(asked[Len(answers) + 1]) : answers' = Append(answers, a)
  /\ attempt' = 1
  /\ UNCHANGED <<finding, asked, refined, beam, depth, waiting, meter, baseline, usage, total, result>>

\* It does not, and is asked for alone.
AskAgain ==
  /\ Unresolved /\ attempt < MaxAttempts
  /\ Kickoff(1)
  /\ attempt' = attempt + 1
  /\ UNCHANGED <<finding, asked, answers, refined, beam, depth, waiting, total, result>>

\* The agents and what they were asked for, in the next batch.
Ask(what, thoughts) ==
  /\ waiting' = what /\ asked' = thoughts /\ answers' = <<>> /\ attempt' = 0

\* The search is over: its usage is added and the next finding's begins, with a tracker
\* of its own.
EndSearch(outcome) ==
  /\ result' = outcome
  /\ total' = total + usage /\ usage' = 0
  /\ finding' = finding + 1
  /\ IF finding < Contested THEN Ask("propose", Blank) ELSE Ask("done", <<>>)
  /\ baseline' = meter
  /\ refined' = <<>> /\ beam' = <<>> /\ depth' = 1
  /\ UNCHANGED meter

\* ToTDispatchError: the whole search fails and hands over its usage.
AbandonSearch ==
  /\ Unresolved /\ attempt = MaxAttempts
  /\ EndSearch([NoResult EXCEPT !.reason = "failed"])

\* A kickoff raises something else: it leaves the loop over the findings too.
KickoffRaises ==
  /\ waiting \in {"propose", "critique", "refine"}
  /\ attempt < MaxAttempts /\ (attempt = 0 \/ Unresolved)
  /\ \E n \in 0..1 : meter' = [meter EXCEPT ![Agent] = @ + n]
  /\ waiting' = "raised"
  /\ UNCHANGED <<search, baseline, usage, total, result>>

-----------------------------------------------------------------------------
(* run_tree_of_thought *)

Resolved == attempt > 0 /\ Len(answers) = Len(asked)

Proposed ==
  /\ waiting = "propose" /\ Resolved
  /\ Ask("critique", answers)
  /\ UNCHANGED <<finding, refined, beam, depth, meter, baseline, usage, total, result>>

Critiqued ==
  /\ waiting = "critique" /\ Resolved
  /\ beam' = IF depth = 1
             THEN Prune([i \in DOMAIN asked |-> Scored(asked[i], answers[i])])
             ELSE Merged(answers)
  /\ Ask("loop", <<>>)
  /\ UNCHANGED <<finding, refined, depth, meter, baseline, usage, total, result>>

Refined ==
  /\ waiting = "refine" /\ Resolved
  /\ refined' = answers
  /\ IF StillActive(answers) # <<>> THEN Ask("critique", StillActive(answers)) ELSE Ask("loop", <<>>)
  /\ beam' = IF StillActive(answers) # <<>> THEN beam
             ELSE [i \in DOMAIN beam |->
                     IF beam[i].exhausted THEN beam[i]
                     ELSE CarryForward(answers[Rank(i, Unexhausted(beam))], beam[i])]
  /\ UNCHANGED <<finding, depth, meter, baseline, usage, total, result>>

\* The head of the loop when it goes on.
Deepen ==
  /\ waiting = "loop" /\ depth < MaxDepth /\ ~ClearGap(beam) /\ Unexhausted(beam) # {}
  /\ depth' = depth + 1
  /\ Ask("refine", StillActive(beam))
  /\ UNCHANGED <<finding, refined, beam, meter, baseline, usage, total, result>>

\* termination_reason
Reason ==
  IF depth = MaxDepth THEN "depth_limit"
  ELSE IF ClearGap(beam) THEN "clear_winner" ELSE "exhausted_evidence"

\* The loop ends and the result is built.
Conclude ==
  /\ waiting = "loop"
  /\ depth < MaxDepth => ClearGap(beam) \/ Unexhausted(beam) = {}
  /\ LET ranked == Ranked(beam)
     IN EndSearch([winner |-> IF ClearGap(ranked) THEN <<ranked[1]>> ELSE <<>>,
                reason |-> Reason, candidates |-> ranked, depth |-> depth])

SearchNext ==
  \/ DispatchBatch \/ AcceptAnswer \/ AskAgain \/ AbandonSearch \/ KickoffRaises
  \/ Proposed \/ Critiqued \/ Refined \/ Deepen \/ Conclude

SearchSpec == SearchInit /\ [][SearchNext]_searchVars

-----------------------------------------------------------------------------
(* Properties *)

\* Every token the two models were charged for is in total_usage or in the usage of the
\* search at hand, however many answers had to be asked for again and whether earlier
\* searches concluded or failed; only a kickoff that raises leaves the books open.
SpendIsRecorded ==
  waiting # "raised" => total + usage = meter["strategist"] + meter["critic"]

\* A thought carries the critique of its own strategy, and of the very text it shows
\* unless it is exhausted: the batches of a round skip the frozen and the exhausted
\* thoughts, and no critique slips to a neighbour.
CritiqueIsItsOwn ==
  \A i \in DOMAIN beam :
    LET t == beam[i] IN /\ t.critic.strategy = t.strategy
                        /\ t.exhausted \/ t.critic.text = t.text

\* A search that names a winner has one that leads every other candidate by the margin;
\* one that stopped on exhausted evidence, or names none, has two candidates within the
\* margin for a human to choose between; and only a round limit, a clear winner or
\* evidence that is exhausted for every candidate ends a search.
VerdictIsEarned ==
  LET c == result.candidates
      close == \E i, j \in DOMAIN c : /\ i # j /\ \A k \in DOMAIN c : Score(c[k]) <= Score(c[i])
                                      /\ Score(c[i]) < Score(c[j]) + ClearWinnerMargin
  IN result.reason \notin {"none", "failed"} =>
       /\ result.winner = <<>> <=> close
       /\ result.winner # <<>> => \A i \in DOMAIN c : Score(c[i]) <= Score(result.winner[1])
       /\ result.reason = "clear_winner" => ~close
       /\ result.reason = "exhausted_evidence" => close /\ \A i \in DOMAIN c : c[i].exhausted
       /\ result.reason = "depth_limit" => result.depth = MaxDepth

=============================================================================
