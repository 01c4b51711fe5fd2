----------------------- MODULE GroupConstraint_proofs -----------------------
(***************************************************************************)
(* What holds of group constraints for every fleet, findings stream, set   *)
(* of tokens and number of processes: a confirmation is of the match that  *)
(* was reviewed, a token that reads as open has no row, and a run reports  *)
(* what it folded.                                                         *)
(***************************************************************************)
EXTENDS GroupConstraint, TLAPS

\* A process that previews resolved a role of the fleet, and one that checked
\* its token found a preview under it whose match is the one it has now.
ProcessHoldsPreview ==
  \A p \in Processes :
    /\ At(p, "previewing") => proc[p].role \in Roles
    /\ proc[p].pc \in {"checked", "consumed", "added"} =>
         /\ proc[p].token \in DOMAIN pending
         /\ SameFleet(pending[proc[p].token], proc[p].inventory)

\* The token of a process that is about to add a row, and of every row, is spent.
TokensAreSpent ==
  /\ \A p \in Processes : proc[p].pc \in {"consumed", "added"} =>
       pending[proc[p].token].state = "consumed"
  /\ \A i \in DOMAIN rows :
       /\ rows[i].token \in DOMAIN pending
       /\ pending[rows[i].token].state = "consumed"

\* The inductive invariant.
IInv == TypeOK /\ ProcessHoldsPreview /\ TokensAreSpent

\* Rows are only ever appended to the table, so what a run knows of them stays.
LEMMA RunStaysTyped ==
  ASSUME rows \in Seq(Row), rows' \in Seq(Row), Len(rows) <= Len(rows'),
         run \in Run, UNCHANGED run
  PROVE  run' \in Run'
<1> DEFINE n == Len(rows)
           m == Len(rows')
<1>1. n \in Nat /\ m \in Nat /\ n <= m
  OBVIOUS
<1>2. 1..n \subseteq 1..m
  BY <1>1
<1>3. run.foldedGroup \in [Findings -> SUBSET (1..m)]
  <2>1. run.foldedGroup \in [Findings -> SUBSET (1..n)]
    BY DEF Run
  <2> QED
    BY <1>2, <2>1
<1>4. run.group \subseteq 1..m /\ run.appliedGroup \subseteq (1..m) \X Assets
  BY <1>2 DEF Run
<1> QED
  BY <1>3, <1>4 DEF Run

LEMMA InitEstablishesIInv == Init => IInv
<1> SUFFICES ASSUME Init PROVE IInv
  OBVIOUS
<1>1. pending \in [{} -> Preview] /\ rows \in Seq(Row) /\ DOMAIN rows = {}
  BY DEF Init
<1>2. IdleProcess \in Process
  BY DEF IdleProcess, Process, NoInventory, Fleet
<1>3. IdleRun \in Run
  BY DEF IdleRun, Run, NoInventory, Fleet
<1>4. TypeOK
  BY <1>1, <1>2, <1>3 DEF Init, TypeOK
<1>5. \A p \in Processes : proc[p].pc = "idle"
  BY DEF Init, IdleProcess
<1> QED
  BY <1>1, <1>4, <1>5 DEF IInv, ProcessHoldsPreview, TokensAreSpent, At

\* What a step must show when it touches one process only.
LEMMA ExitPreservesIInv ==
  ASSUME IInv, NEW p \in Processes, Exit(p),
         UNCHANGED <<fleet, pending, rows, assetRule, run>>
  PROVE  IInv'
<1> USE DEF IInv
<1>1. IdleProcess \in Process /\ IdleProcess.pc = "idle"
  BY DEF IdleProcess, Process, NoInventory, Fleet
<1>2. TypeOK'
  BY <1>1 DEF TypeOK, Exit, Run
<1> QED
  BY <1>1, <1>2 DEF TypeOK, ProcessHoldsPreview, TokensAreSpent, At, Exit

LEMMA BeginPreviewPreservesIInv ==
  ASSUME IInv, NEW p \in Processes, NEW role \in Roles, BeginPreview(p, role)
  PROVE  IInv'
<1> USE DEF IInv, BeginPreview
<1>1. TypeOK'
  BY DEF TypeOK, Process, Run
<1> QED
  BY <1>1 DEF TypeOK, ProcessHoldsPreview, TokensAreSpent, At

LEMMA BeginConfirmPreservesIInv ==
  ASSUME IInv, NEW p \in Processes, NEW t \in Tokens, BeginConfirm(p, t)
  PROVE  IInv'
<1> USE DEF IInv, BeginConfirm
<1>1. TypeOK'
  BY DEF TypeOK, Process, Run
<1> QED
  BY <1>1 DEF TypeOK, ProcessHoldsPreview, TokensAreSpent, At

\* uuid4 draws a token that was never issued: no preview on file is replaced.
LEMMA SavePreviewPreservesIInv ==
  ASSUME IInv, NEW p \in Processes, NEW t \in Tokens, SavePreview(p, t)
  PROVE  IInv'
<1> USE DEF IInv, SavePreview
<1> DEFINE preview == [state |-> "open", role |-> proc[p].role,
                       matched |-> Matched(proc[p].inventory, proc[p].role),
                       excluded |-> Excluded(proc[p].inventory)]
<1>1. preview \in Preview
  BY DEF ProcessHoldsPreview, Preview, Matched, Excluded
<1>2. PICK issued \in SUBSET Tokens : pending \in [issued -> Preview]
  BY DEF TypeOK
<1>3. pending' = [u \in issued \cup {t} |-> IF u = t THEN preview ELSE pending[u]]
  BY <1>2
<1>4. pending' \in [issued \cup {t} -> Preview]
  BY <1>1, <1>2, <1>3
<1>5. \A u \in DOMAIN pending : u \in DOMAIN pending' /\ pending'[u] = pending[u]
  BY <1>2, <1>3
<1>6. IdleProcess \in Process /\ IdleProcess.pc = "idle"
  BY DEF IdleProcess, Process, NoInventory, Fleet
<1>7. TypeOK'
  BY <1>4, <1>6 DEF TypeOK, Exit, Run
<1>8. ProcessHoldsPreview'
  BY <1>5, <1>6 DEF TypeOK, ProcessHoldsPreview, At, Exit
<1>9. TokensAreSpent'
  BY <1>5, <1>6 DEF TypeOK, ProcessHoldsPreview, TokensAreSpent, Exit
<1> QED
  BY <1>7, <1>8, <1>9

LEMMA CheckTokenPreservesIInv ==
  ASSUME IInv, NEW p \in Processes, CheckToken(p)
  PROVE  IInv'
<1> USE DEF CheckToken
<1>1. CASE Exit(p)
  BY <1>1, ExitPreservesIInv
<1>2. CASE /\ Goto(p, "checked")
           /\ proc[p].token \in DOMAIN pending
           /\ SameFleet(pending[proc[p].token], proc[p].inventory)
  <2> USE DEF IInv
  <2>1. TypeOK'
    BY <1>2 DEF TypeOK, Goto, Process, Run
  <2> QED
    BY <1>2, <2>1 DEF TypeOK, ProcessHoldsPreview, TokensAreSpent, At, Goto, Process
<1> QED
  BY <1>1, <1>2

\* Only the state of the token's own preview changes, and only to "consumed".
LEMMA ConsumePreservesIInv ==
  ASSUME IInv, NEW p \in Processes, Consume(p)
  PROVE  IInv'
<1> USE DEF IInv, Consume
<1> DEFINE t == proc[p].token
<1>1. PICK issued \in SUBSET Tokens : pending \in [issued -> Preview]
  BY DEF TypeOK
<1>2. t \in issued /\ SameFleet(pending[t], proc[p].inventory)
  BY <1>1 DEF ProcessHoldsPreview, At
<1>3. pending' \in [issued -> Preview]
  BY <1>1, <1>2 DEF Preview
<1>4. \A u \in issued :
        /\ pending'[u].matched = pending[u].matched
        /\ pending'[u].excluded = pending[u].excluded
        /\ pending'[u].role = pending[u].role
        /\ pending[u].state = "consumed" => pending'[u].state = "consumed"
  BY <1>1, <1>2 DEF Preview
<1>5. pending'[t].state = "consumed"
  BY <1>1, <1>2 DEF Preview
<1>6. \A u \in issued : \A inventory :
        SameFleet(pending[u], inventory) => SameFleet(pending'[u], inventory)
  BY <1>4 DEF SameFleet
<1>7. TypeOK'
  BY <1>3 DEF TypeOK, Goto, Process, Run
<1>8. ProcessHoldsPreview'
  BY <1>1, <1>2, <1>3, <1>6 DEF TypeOK, ProcessHoldsPreview, At, Goto, Process
<1>9. TokensAreSpent'
  BY <1>1, <1>3, <1>4, <1>5 DEF TypeOK, ProcessHoldsPreview, TokensAreSpent, Goto, Process
<1> QED
  BY <1>7, <1>8, <1>9

LEMMA AddRowPreservesIInv ==
  ASSUME IInv, NEW p \in Processes, AddRow(p)
  PROVE  IInv'
<1> USE DEF IInv, AddRow
<1> DEFINE t == proc[p].token
           row == [token |-> t, role |-> pending[t].role, active |-> TRUE]
<1>1. t \in DOMAIN pending /\ pending[t].state = "consumed"
  BY DEF ProcessHoldsPreview, TokensAreSpent, At
<1>2. row \in Row
  BY <1>1 DEF TypeOK, Preview, Row
<1>3. /\ rows' \in Seq(Row)
      /\ Len(rows) <= Len(rows')
      /\ \A i \in DOMAIN rows' : rows'[i] = row \/ (i \in DOMAIN rows /\ rows'[i] = rows[i])
  BY <1>2 DEF TypeOK
<1>4. run' \in Run'
  BY <1>3, RunStaysTyped DEF TypeOK
<1>5. TypeOK'
  BY <1>3, <1>4 DEF TypeOK, Goto, Process
<1>6. ProcessHoldsPreview'
  BY DEF TypeOK, ProcessHoldsPreview, At, Goto, Process
<1>7. TokensAreSpent'
  BY <1>1, <1>3 DEF TypeOK, ProcessHoldsPreview, TokensAreSpent, At, Goto, Process
<1> QED
  BY <1>5, <1>6, <1>7

LEMMA RetractGroupPreservesIInv ==
  ASSUME IInv, NEW i \in DOMAIN rows, RetractGroup(i)
  PROVE  IInv'
<1> USE DEF IInv, RetractGroup
<1> DEFINE row == [rows[i] EXCEPT !.active = FALSE]
<1>1. rows \in Seq(Row) /\ row \in Row /\ row.token = rows[i].token
  <2>1. rows \in Seq(Row) /\ rows[i] \in Row
    BY DEF TypeOK
  <2> QED
    BY <2>1 DEF Row
<1>2. rows' = [rows EXCEPT ![i] = row]
  OBVIOUS
<1>3. /\ rows' \in Seq(Row)
      /\ Len(rows') = Len(rows) /\ DOMAIN rows' = DOMAIN rows
      /\ \A j \in DOMAIN rows : rows'[j].token = rows[j].token
  BY <1>1, <1>2
<1>4. run' \in Run'
  BY <1>1, <1>3, RunStaysTyped DEF TypeOK
<1>5. TypeOK'
  BY <1>3, <1>4 DEF TypeOK
<1> QED
  BY <1>3, <1>5 DEF ProcessHoldsPreview, TokensAreSpent, At

LEMMA BeginRunPreservesIInv == IInv /\ BeginRun => IInv'
<1> SUFFICES ASSUME IInv, BeginRun PROVE IInv'
  OBVIOUS
<1> USE DEF IInv, BeginRun
<1>1. TypeOK'
  BY DEF TypeOK, IdleRun, Run, NoInventory, Fleet
<1> QED
  BY <1>1 DEF ProcessHoldsPreview, TokensAreSpent, At

LEMMA EndRunPreservesIInv == IInv /\ EndRun => IInv'
<1> SUFFICES ASSUME IInv, EndRun PROVE IInv'
  OBVIOUS
<1> USE DEF IInv, EndRun
<1>1. TypeOK'
  BY DEF TypeOK, IdleRun, Run, NoInventory, Fleet
<1> QED
  BY <1>1 DEF ProcessHoldsPreview, TokensAreSpent, At

LEMMA ApplyPreservesIInv == IInv /\ Apply => IInv'
<1> SUFFICES ASSUME IInv, Apply PROVE IInv'
  OBVIOUS
<1> USE DEF IInv, Apply
<1> DEFINE f == run.scored + 1
           a == AssetOf[f]
           folded == {i \in GroupCache : rows[i].role = run.inventory[a]}
<1>1. rows \in Seq(Row) /\ run \in Run
  BY DEF TypeOK
<1>2. f \in Findings /\ a \in Assets
  BY <1>1, AssetAssumption DEF Run, Findings
<1>3. GroupCache \subseteq 1..Len(rows)
  BY <1>1 DEF GroupCache, Active, Run
<1>4. AssetCache(a) \subseteq Assets
  BY <1>1, <1>2 DEF AssetCache, Run
<1>5. folded \subseteq 1..Len(rows)
  BY <1>3
<1>6. run' \in Run
  BY <1>1, <1>2, <1>3, <1>4, <1>5 DEF Run
<1>7. TypeOK'
  BY <1>6 DEF TypeOK, Run
<1> QED
  BY <1>7 DEF ProcessHoldsPreview, TokensAreSpent, At

LEMMA NextPreservesIInv == IInv /\ [Next]_vars => IInv'
<1> SUFFICES ASSUME IInv, [Next]_vars PROVE IInv'
  OBVIOUS
<1>1. ASSUME NEW p \in Processes, Command(p) PROVE IInv'
  <2>1. CASE Report(p) \/ Abort(p)
    BY <2>1, ExitPreservesIInv DEF Report, Abort
  <2> QED
    BY <1>1, <2>1, BeginPreviewPreservesIInv, SavePreviewPreservesIInv,
       BeginConfirmPreservesIInv, CheckTokenPreservesIInv, ConsumePreservesIInv,
       AddRowPreservesIInv
    DEF Command
<1>2. ASSUME NEW a \in Assets, NEW role \in Roles \cup {NotCollected}, ChangeFleet(a, role)
      PROVE  IInv'
  BY <1>2 DEF IInv, TypeOK, ProcessHoldsPreview, TokensAreSpent, At, ChangeFleet, Fleet, Run
<1>3. ASSUME NEW i \in DOMAIN rows, RetractGroup(i) PROVE IInv'
  BY <1>3, RetractGroupPreservesIInv
<1>4. ASSUME NEW a \in Assets, ChangeAssetRule(a) PROVE IInv'
  BY <1>4 DEF IInv, TypeOK, ProcessHoldsPreview, TokensAreSpent, At, ChangeAssetRule, Run
<1>5. CASE UNCHANGED vars
  BY <1>5 DEF vars, IInv, TypeOK, ProcessHoldsPreview, TokensAreSpent, At, Run
<1> QED
  BY <1>1, <1>2, <1>3, <1>4, <1>5,
     BeginRunPreservesIInv, ApplyPreservesIInv, EndRunPreservesIInv
  DEF Next

LEMMA InductiveInvariant == Spec => []IInv
<1> QED
  BY InitEstablishesIInv, NextPreservesIInv, PTL DEF Spec

\* Every reachable state is typed, for every value of the constants.
THEOREM TypeCorrect == Spec => []TypeOK
<1>1. IInv => TypeOK
  BY DEF IInv
<1> QED
  BY <1>1, InductiveInvariant, PTL

\* confirm_group_constraint: whatever changed since the preview, and whatever
\* the other processes do, the confirmed match is the reviewed one.
THEOREM OnlyReviewedIsConfirmed == Spec => []ConfirmedIsReviewed
<1>1. IInv => ConfirmedIsReviewed
  BY DEF IInv, ProcessHoldsPreview, ConfirmedIsReviewed, SameFleet
<1> QED
  BY <1>1, InductiveInvariant, PTL

\* However many processes confirm, and wherever one dies, a token that reads as
\* open has not been applied.
THEOREM OpenTokensAreUnapplied == Spec => []OpenTokenHasNoRow
<1>1. IInv => OpenTokenHasNoRow
  BY DEF IInv, TokensAreSpent, OpenTokenHasNoRow
<1> QED
  BY <1>1, InductiveInvariant, PTL
\* What a run folded into the findings it scored, and what it reports, both
\* follow from its two caches, which keep what they hold.
RunFollowsCaches ==
  /\ \A f \in 1..run.scored :
       /\ run.foldedGroup[f] = {i \in run.group : rows[i].role = run.inventory[AssetOf[f]]}
       /\ run.foldedGroup[f] \X {AssetOf[f]} \subseteq run.appliedGroup
       /\ f \in run.foldedAsset <=> AssetOf[f] \in run.asset
  /\ \A i \in DOMAIN rows, a \in Assets : <<i, a>> \in run.appliedGroup
       => run.scored > 0 /\ i \in run.group /\ rows[i].role = run.inventory[a]
  /\ run.foldedAsset \subseteq 1..run.scored
  /\ run.appliedAsset \subseteq run.asset
  /\ \A f \in 1..run.scored : AssetOf[f] \in run.asset => AssetOf[f] \in run.appliedAsset

\* Confirming and retracting leave the role of every row a run may have read.
LEMMA RowsPreserveRunFollowsCaches ==
  ASSUME IInv, RunFollowsCaches, UNCHANGED run,
         DOMAIN rows \subseteq DOMAIN rows',
         \A i \in DOMAIN rows : rows'[i].role = rows[i].role
  PROVE  RunFollowsCaches'
<1>1. /\ run.group \subseteq DOMAIN rows
      /\ \A i, a : <<i, a>> \in run.appliedGroup => i \in DOMAIN rows
  BY DEF IInv, TypeOK, Run
<1> QED
  BY <1>1 DEF RunFollowsCaches

LEMMA ApplyPreservesRunFollowsCaches == IInv /\ RunFollowsCaches /\ Apply => RunFollowsCaches'
<1> SUFFICES ASSUME IInv, RunFollowsCaches, Apply PROVE RunFollowsCaches'
  OBVIOUS
<1> DEFINE n == run.scored
           f == n + 1
           a == AssetOf[f]
           group == GroupCache
           asset == AssetCache(a)
           folded == {i \in group : rows[i].role = run.inventory[a]}
<1>1. run \in Run /\ n \in Nat /\ f \in Findings /\ a \in Assets /\ 1..n \subseteq Findings
  BY AssetAssumption DEF IInv, TypeOK, Run, Apply, Findings
<1>2. /\ run'.scored = f /\ run'.group = group /\ run'.asset = asset
      /\ run'.inventory = run.inventory
      /\ run'.foldedGroup = [run.foldedGroup EXCEPT ![f] = folded]
      /\ run'.foldedAsset = IF a \in asset THEN run.foldedAsset \cup {f} ELSE run.foldedAsset
      /\ run'.appliedGroup = run.appliedGroup \cup (folded \X {a})
      /\ run'.appliedAsset = IF a \in asset THEN run.appliedAsset \cup {a} ELSE run.appliedAsset
      /\ UNCHANGED rows
  BY <1>1 DEF Apply, Run
<1>3. n > 0 => group = run.group
  BY DEF GroupCache
<1>4. \A b \in Assets : (\E g \in 1..n : AssetOf[g] = b) => (b \in asset <=> b \in run.asset)
  BY DEF AssetCache
<1>5. 1..f = 1..n \cup {f} /\ f \notin 1..n
  BY <1>1
<1>6. ASSUME NEW g \in 1..n
      PROVE  /\ AssetOf[g] \in Assets
             /\ group = run.group
             /\ AssetOf[g] \in asset <=> AssetOf[g] \in run.asset
  BY <1>1, <1>3, <1>4, AssetAssumption DEF Findings
<1>7. run.foldedGroup \in [Findings -> SUBSET (1..Len(rows))]
  BY <1>1 DEF Run
<1>8. run'.foldedGroup[f] = folded /\ \A g \in 1..n : run'.foldedGroup[g] = run.foldedGroup[g]
  BY <1>1, <1>2, <1>5, <1>7
<1>9. run.asset \subseteq asset
  BY DEF AssetCache
<1>10. ASSUME NEW g \in 1..run'.scored
       PROVE  /\ run'.foldedGroup[g] = {i \in run'.group : rows'[i].role = run'.inventory[AssetOf[g]]}
              /\ run'.foldedGroup[g] \X {AssetOf[g]} \subseteq run'.appliedGroup
              /\ g \in run'.foldedAsset <=> AssetOf[g] \in run'.asset
              /\ AssetOf[g] \in run'.asset => AssetOf[g] \in run'.appliedAsset
  <2>1. CASE g = f
    BY <1>2, <1>5, <1>8, <2>1 DEF RunFollowsCaches
  <2>2. CASE g \in 1..n
    BY <1>2, <1>5, <1>6, <1>8, <2>2 DEF RunFollowsCaches
  <2> QED
    BY <1>2, <1>5, <2>1, <2>2
<1>11. ASSUME NEW i \in DOMAIN rows', NEW b \in Assets, <<i, b>> \in run'.appliedGroup
       PROVE  run'.scored > 0 /\ i \in run'.group /\ rows'[i].role = run'.inventory[b]
  <2>1. CASE <<i, b>> \in folded \X {a}
    BY <1>1, <1>2, <2>1
  <2>2. CASE <<i, b>> \in run.appliedGroup
    BY <1>1, <1>2, <1>3, <2>2 DEF RunFollowsCaches
  <2> QED
    BY <1>2, <1>11, <2>1, <2>2
<1>12. run'.foldedAsset \subseteq 1..run'.scored /\ run'.appliedAsset \subseteq run'.asset
  BY <1>2, <1>5, <1>9 DEF RunFollowsCaches
<1> QED
  BY <1>10, <1>11, <1>12 DEF RunFollowsCaches

LEMMA NextPreservesRunFollowsCaches ==
  IInv /\ RunFollowsCaches /\ [Next]_vars => RunFollowsCaches'
<1> SUFFICES ASSUME IInv, RunFollowsCaches, [Next]_vars PROVE RunFollowsCaches'
  OBVIOUS
<1>1. ASSUME UNCHANGED <<rows, run>> PROVE RunFollowsCaches'
  BY <1>1 DEF RunFollowsCaches
<1>2. CASE BeginRun \/ EndRun
  <2>1. run'.scored = 0 /\ run'.foldedAsset = {} /\ run'.appliedGroup = {} /\ run'.appliedAsset = {}
    <3>1. CASE BeginRun
      BY <3>1 DEF BeginRun, IdleRun
    <3>2. CASE EndRun
      BY <3>2 DEF EndRun, IdleRun
    <3> QED
      BY <1>2, <3>1, <3>2
  <2> QED
    BY <2>1 DEF RunFollowsCaches
<1>3. ASSUME NEW p \in Processes, AddRow(p) PROVE RunFollowsCaches'
  <2>1. /\ DOMAIN rows \subseteq DOMAIN rows'
        /\ \A i \in DOMAIN rows : rows'[i].role = rows[i].role
    BY <1>3 DEF AddRow, IInv, TypeOK
  <2> QED
    BY <1>3, <2>1, RowsPreserveRunFollowsCaches DEF AddRow
<1>4. ASSUME NEW j \in DOMAIN rows, RetractGroup(j) PROVE RunFollowsCaches'
  <2> DEFINE row == [rows[j] EXCEPT !.active = FALSE]
  <2>1. rows \in Seq(Row) /\ row.role = rows[j].role
    <3>1. rows \in Seq(Row) /\ rows[j] \in Row
      BY DEF IInv, TypeOK
    <3> QED
      BY <3>1 DEF Row
  <2>2. rows' = [rows EXCEPT ![j] = row]
    BY <1>4 DEF RetractGroup
  <2>3. /\ DOMAIN rows \subseteq DOMAIN rows'
        /\ \A i \in DOMAIN rows : rows'[i].role = rows[i].role
    BY <2>1, <2>2
  <2> QED
    BY <1>4, <2>3, RowsPreserveRunFollowsCaches DEF RetractGroup
<1>5. ASSUME NEW p \in Processes, Command(p), ~ AddRow(p) PROVE UNCHANGED <<rows, run>>
  BY <1>5
  DEF Command, BeginPreview, SavePreview, BeginConfirm, CheckToken, Consume, Report, Abort
<1> QED
  BY <1>1, <1>2, <1>3, <1>4, <1>5, ApplyPreservesRunFollowsCaches
  DEF Next, ChangeFleet, ChangeAssetRule, vars

\* ConstraintAccumulator: although constraints are confirmed, added and retracted
\* while a run scores, it reports for every asset what it folded into its findings.
THEOREM ReportsAreExact == Spec => []RunReportsWhatItFolded
<1>1. Init => RunFollowsCaches
  BY DEF Init, IdleRun, RunFollowsCaches
<1>2. IInv /\ RunFollowsCaches => RunReportsWhatItFolded
  <2> SUFFICES ASSUME IInv, RunFollowsCaches, NEW f \in 1..run.scored
               PROVE  /\ run.foldedGroup[f] = {i \in DOMAIN rows : <<i, AssetOf[f]>> \in run.appliedGroup}
                      /\ f \in run.foldedAsset <=> AssetOf[f] \in run.appliedAsset
    BY DEF RunReportsWhatItFolded
  <2>1. run \in Run /\ AssetOf[f] \in Assets /\ run.group \subseteq DOMAIN rows
    BY AssetAssumption DEF IInv, TypeOK, Run, Findings
  <2> QED
    BY <2>1 DEF RunFollowsCaches
<1> QED
  BY <1>1, <1>2, InitEstablishesIInv, NextPreservesIInv, NextPreservesRunFollowsCaches, PTL
  DEF Spec
=============================================================================
