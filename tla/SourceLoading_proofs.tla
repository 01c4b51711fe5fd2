------------------------ MODULE SourceLoading_proofs ------------------------
(***************************************************************************)
(* Theorems about SourceLoading, for files of any length, any number of    *)
(* keys and orders, and any way to cut an identity to a finding_id.        *)
(*                                                                         *)
(* For the assets the invariant is about each key's chosen row as the rows *)
(* come in (ChosenIsLatest, ChosenIsUndisputed).  For the findings it says *)
(* what the first pass leaves behind for the second (FileIsJudged) and     *)
(* that what was streamed so far is some of the rows that were judged.     *)
(***************************************************************************)
EXTENDS SourceLoading, TLAPS

Rows == FindingRow \cup {Unreadable, OutOfScope}

Group(k) == {r \in seen : r.key = k}

Types ==
  /\ phase \in {"assets", "judge", "stream", "done", "refused", "torn"}
  /\ seen \subseteq AssetRow /\ outside \subseteq AssetKeys /\ fatal \in BOOLEAN
  /\ DOMAIN resolved = Keys /\ \A k \in Keys : resolved[k] \in Group(k)
  /\ assets \subseteq Asset
  /\ findings \in Seq(Rows) /\ Len(findings) <= MaxFindingRows
  /\ position \in 0..Len(findings) /\ collapsed \in 0..position
  /\ excluded \subseteq FindingIds
  /\ scored \in Seq(FindingRow)
  /\ phase \in {"assets", "judge"} => position = 0 /\ scored = <<>>
  /\ phase = "assets" => assets = {} /\ findings = <<>>
  /\ phase = "judge" => ~fatal

\* A row that beats every other row of its key is the one that is kept.
ChosenIsLatest ==
  ~fatal => \A k \in Keys : \A r \in Group(k) :
    (\A other \in Group(k) \ {r} : other.order < r.order /\ other.fields # r.fields) => resolved[k] = r

\* Rows without an order agree.
ChosenIsUndisputed ==
  ~fatal => \A k \in Keys :
    (\A r \in Group(k) : r.order = 0) => \A r \in Group(k) : resolved[k].fields = r.fields

\* Row i was scored, or repeats an earlier row that was.
Stands(i) ==
  \E k \in DOMAIN scored : \E j \in 1..i :
    /\ scored[k] = findings[j]
    /\ findings[j].identity = findings[i].identity
    /\ Compared(findings[j]) = Compared(findings[i])

\* After a successful first pass.
FileIsJudged ==
  phase \in {"stream", "done"} =>
    /\ ~Collides(findings) /\ ~Conflicts(findings)
    /\ excluded = {ShortId(findings[i].identity) : i \in Mapped(findings) \ Kept(findings)}

ScoredIsJudged ==
  phase \in {"stream", "done"} =>
    /\ \A k \in DOMAIN scored : \E i \in Kept(findings) : i <= position /\ scored[k] = findings[i]
    /\ \A i \in Mapped(findings) : i <= position =>
         ShortId(findings[i].identity) \in excluded \/ Stands(i)
    /\ \A j, k \in DOMAIN scored : ShortId(scored[j].identity) = ShortId(scored[k].identity) => j = k
    /\ phase = "done" => position = Len(findings)

IInv ==
  /\ Types /\ ChosenIsLatest /\ ChosenIsUndisputed /\ GroupingKeepsWhatRowsSay
  /\ FileIsJudged /\ ScoredIsJudged /\ NeverTorn

-----------------------------------------------------------------------------
(* Assets *)

LEMMA InitIInv == Init => IInv
<1> SUFFICES ASSUME Init PROVE IInv
  OBVIOUS
<1>1. Keys = {}
  BY DEF Init, Keys
<1>2. DOMAIN resolved = Keys /\ \A k \in Keys : resolved[k] \in Group(k)
  BY <1>1 DEF Init
<1>3. findings \in Seq(Rows) /\ Len(findings) = 0 /\ scored \in Seq(FindingRow)
  BY DEF Init
<1>4. 0 <= MaxFindingRows
  BY BoundAssumption
<1>5. position \in 0..Len(findings) /\ collapsed \in 0..position
  BY <1>3 DEF Init
<1>6. phase = "assets" /\ seen = {} /\ outside = {} /\ fatal = FALSE /\ assets = {}
      /\ excluded = {} /\ position = 0 /\ scored = <<>> /\ findings = <<>>
  BY DEF Init
<1>7. fatal \in BOOLEAN /\ seen \subseteq AssetRow /\ outside \subseteq AssetKeys
      /\ assets \subseteq Asset /\ excluded \subseteq FindingIds
  BY <1>6
<1>8. Types
  BY <1>2, <1>3, <1>4, <1>5, <1>6, <1>7 DEF Types
<1> QED
  BY <1>1, <1>6, <1>8 DEF IInv, ChosenIsLatest, ChosenIsUndisputed, GroupingKeepsWhatRowsSay,
     FileIsJudged, ScoredIsJudged, NeverTorn

\* What a row does to the choice of its key: one row more in the group, and the chosen
\* row stays or is replaced as MapAssetRow says.
LEMMA MapAssetRowPreservesIInv ==
  ASSUME IInv, MapAssetRow
  PROVE  IInv'
<1> USE DEF Types
<1>1. Types
  BY DEF IInv
<1>2. PICK row \in AssetRow :
        /\ seen' = seen \cup {row}
        /\ IF row.key \in Keys
           THEN /\ resolved' = [resolved EXCEPT ![row.key] =
                                  IF Disagree(row, @) THEN @ ELSE Newer(row, @)]
                /\ fatal' = (fatal \/ Disagree(row, resolved[row.key]))
           ELSE /\ resolved' = [k \in Keys \cup {row.key} |->
                                  IF k = row.key THEN row ELSE resolved[k]]
                /\ UNCHANGED fatal
  BY DEF MapAssetRow
<1>3. /\ UNCHANGED <<phase, outside, assets, findings, position, excluded, scored, collapsed>>
      /\ phase = "assets" /\ assets = {}
  BY <1>1 DEF MapAssetRow
<1>4. /\ Keys' = Keys \cup {row.key}
      /\ \A k : Group(k)' = IF k = row.key THEN Group(k) \cup {row} ELSE Group(k)
      /\ row.key \notin Keys => Group(row.key) = {}
  BY <1>2 DEF Keys, Group
<1>5. /\ row.key \in AssetKeys /\ row.order \in Nat
      /\ \A r \in seen : r.order \in Nat
  BY <1>1, BoundAssumption DEF AssetRow
<1> DEFINE prior == resolved[row.key]
<1>6. /\ DOMAIN resolved' = Keys'
      /\ \A k \in Keys \ {row.key} : resolved'[k] = resolved[k]
      /\ row.key \notin Keys => resolved'[row.key] = row
      /\ row.key \in Keys => resolved'[row.key] = IF Disagree(row, prior) THEN prior ELSE Newer(row, prior)
  BY <1>1, <1>2, <1>4
<1>7. row.key \in Keys => prior \in Group(row.key) /\ prior \in seen
  BY <1>1 DEF Group
<1>8. \A k \in Keys' : resolved'[k] \in Group(k)'
  BY <1>1, <1>4, <1>6, <1>7 DEF Newer
<1>9. fatal' \in BOOLEAN /\ (~fatal' => ~fatal)
  BY <1>1, <1>2
<1>10. Types'
  BY <1>1, <1>2, <1>3, <1>6, <1>8, <1>9
<1>11. ASSUME ~fatal', row.key \in Keys
       PROVE  ~Disagree(row, prior) /\ resolved'[row.key] = Newer(row, prior)
  BY <1>2, <1>6, <1>11
<1>12. ChosenIsLatest'
  <2> SUFFICES ASSUME ~fatal', NEW k \in Keys', NEW r \in Group(k)',
                      \A other \in Group(k)' \ {r} : other.order < r.order /\ other.fields # r.fields
               PROVE  resolved'[k] = r
    BY DEF ChosenIsLatest
  <2>1. CASE k # row.key
    BY <1>4, <1>6, <1>9, <2>1 DEF IInv, ChosenIsLatest
  <2>2. CASE k = row.key /\ k \notin Keys
    BY <1>4, <1>6, <2>2
  <2>3. CASE k = row.key /\ k \in Keys /\ r = row
    BY <1>4, <1>5, <1>7, <1>11, <2>3 DEF Newer, Disagree
  <2>4. CASE k = row.key /\ k \in Keys /\ r # row
    <3>1. r \in Group(k) /\ row.order < r.order
      BY <1>4, <2>4
    <3>2. prior = r
      BY <1>4, <1>9, <2>4, <3>1 DEF IInv, ChosenIsLatest
    <3> QED BY <1>5, <1>7, <1>11, <2>4, <3>1, <3>2 DEF Newer
  <2> QED BY <2>1, <2>2, <2>3, <2>4
<1>13. ChosenIsUndisputed'
  <2> SUFFICES ASSUME ~fatal', NEW k \in Keys', \A r \in Group(k)' : r.order = 0, NEW r \in Group(k)'
               PROVE  resolved'[k].fields = r.fields
    BY DEF ChosenIsUndisputed
  <2>1. CASE k # row.key
    BY <1>4, <1>6, <1>9, <2>1 DEF IInv, ChosenIsUndisputed
  <2>2. CASE k = row.key /\ k \notin Keys
    BY <1>4, <1>6, <2>2
  <2>3. CASE k = row.key /\ k \in Keys
    <3>1. prior.order = 0 /\ row.order = 0
      BY <1>4, <1>7, <2>3
    <3>2. row.fields = prior.fields /\ resolved'[k] = prior
      BY <1>11, <2>3, <3>1 DEF Disagree, Newer
    <3>3. r = row \/ prior.fields = r.fields
      BY <1>4, <1>9, <2>3 DEF IInv, ChosenIsUndisputed
    <3> QED BY <3>2, <3>3
  <2> QED BY <2>1, <2>2, <2>3
<1> QED
  BY <1>3, <1>10, <1>12, <1>13
     DEF IInv, GroupingKeepsWhatRowsSay, FileIsJudged, ScoredIsJudged, NeverTorn

LEMMA OtherAssetRowsPreserveIInv ==
  ASSUME IInv, FatalAssetRow \/ ExcludeAssetRow
  PROVE  IInv'
<1>1. /\ phase = "assets" /\ outside' \subseteq AssetKeys /\ fatal' \in BOOLEAN /\ (~fatal' => ~fatal)
      /\ UNCHANGED <<phase, resolved, seen, assets, findings, position, excluded, scored, collapsed>>
  BY DEF FatalAssetRow, ExcludeAssetRow, IInv, Types
<1>2. Types'
  BY <1>1 DEF IInv, Types, Keys, Group
<1> QED
  BY <1>1, <1>2 DEF IInv, Types, ChosenIsLatest, ChosenIsUndisputed, GroupingKeepsWhatRowsSay, Keys, Group,
     FileIsJudged, ScoredIsJudged, NeverTorn

LEMMA RefusePreservesIInv ==
  ASSUME IInv, Refuse
  PROVE  IInv'
  BY DEF IInv, Refuse, Types, ChosenIsLatest, ChosenIsUndisputed, GroupingKeepsWhatRowsSay, Keys, Group,
     FileIsJudged, ScoredIsJudged, NeverTorn

LEMMA YieldAssetsPreservesIInv ==
  ASSUME IInv, YieldAssets
  PROVE  IInv'
<1>1. /\ phase = "assets" /\ phase' \in {"refused", "judge"} /\ (phase' = "judge" => ~fatal)
      /\ assets' = IF fatal THEN {}
                   ELSE {[key |-> k, fields |-> resolved[k].fields, controls |-> ControlsOf(k)] : k \in Keys}
      /\ UNCHANGED <<resolved, seen, outside, fatal, findings, position, excluded, scored, collapsed>>
  BY DEF YieldAssets
<1>2. /\ Types /\ Keys' = Keys /\ \A k : Group(k)' = Group(k)
  BY <1>1 DEF IInv, Keys, Group
<1>3. ASSUME NEW k \in Keys
      PROVE  [key |-> k, fields |-> resolved[k].fields, controls |-> ControlsOf(k)] \in Asset
  <2>1. k \in AssetKeys /\ resolved[k] \in AssetRow
    BY <1>2 DEF Types, Keys, AssetRow, Group
  <2>2. ControlsOf(k) \subseteq Controls
    BY <1>2 DEF ControlsOf, Types, AssetRow
  <2> QED BY <2>1, <2>2 DEF Asset, AssetRow
<1>4. assets' \subseteq Asset
  BY <1>1, <1>3
<1>5. Types'
  BY <1>1, <1>2, <1>4 DEF Types
<1>6. GroupingKeepsWhatRowsSay'
  <2> SUFFICES ASSUME NEW a \in assets'
               PROVE  /\ \A r \in Group(a.key) : r.control \in a.controls \cup {NoControl}
                      /\ (\A r \in Group(a.key) : r.order = 0) => \A r \in Group(a.key) : r.fields = a.fields
                      /\ \A r \in Group(a.key) :
                           (\A other \in Group(a.key) \ {r} : other.order < r.order /\ other.fields # r.fields)
                             => a.fields = r.fields
    BY <1>1 DEF GroupingKeepsWhatRowsSay, Group
  <2>1. PICK k \in Keys : /\ ~fatal
                          /\ a = [key |-> k, fields |-> resolved[k].fields, controls |-> ControlsOf(k)]
    BY <1>1
  <2>2. a.key = k /\ a.fields = resolved[k].fields /\ a.controls = ControlsOf(k)
    BY <2>1
  <2>3. \A r \in Group(k) : r.control \in ControlsOf(k) \cup {NoControl}
    BY DEF ControlsOf, Group
  <2>4. (\A r \in Group(k) : r.order = 0) => \A r \in Group(k) : r.fields = resolved[k].fields
    BY <2>1 DEF IInv, ChosenIsUndisputed
  <2>5. \A r \in Group(k) :
          (\A other \in Group(k) \ {r} : other.order < r.order /\ other.fields # r.fields)
            => resolved[k].fields = r.fields
    BY <2>1 DEF IInv, ChosenIsLatest
  <2> QED BY <2>2, <2>3, <2>4, <2>5
<1>7. ChosenIsLatest' /\ ChosenIsUndisputed'
  BY <1>1, <1>2 DEF IInv, ChosenIsLatest, ChosenIsUndisputed
<1> QED
  BY <1>1, <1>5, <1>6, <1>7 DEF IInv, FileIsJudged, ScoredIsJudged, NeverTorn

-----------------------------------------------------------------------------
(* Findings *)

\* The parts of the invariant that are about the assets survive any step that leaves the
\* assets alone.
LEMMA AssetsAloneKeepTheirInvariant ==
  ASSUME IInv, UNCHANGED <<resolved, seen, assets>>, ~fatal' => ~fatal
  PROVE  ChosenIsLatest' /\ ChosenIsUndisputed' /\ GroupingKeepsWhatRowsSay'
BY DEF IInv, ChosenIsLatest, ChosenIsUndisputed, GroupingKeepsWhatRowsSay, Keys, Group

LEMMA ReadFindingRowPreservesIInv ==
  ASSUME IInv, ReadFindingRow
  PROVE  IInv'
<1>1. Types /\ phase = "judge" /\ Len(findings) < MaxFindingRows
      /\ UNCHANGED <<phase, resolved, seen, outside, fatal, assets, position, excluded, scored, collapsed>>
  BY DEF IInv, ReadFindingRow
<1>2. PICK row \in Rows : findings' = Append(findings, row)
  BY DEF ReadFindingRow, Rows
<1>3. findings' \in Seq(Rows) /\ Len(findings') = Len(findings) + 1 /\ Len(findings) \in Nat
  BY <1>1, <1>2 DEF Types
<1>4. position' \in 0..Len(findings') /\ Len(findings') <= MaxFindingRows
  BY <1>1, <1>3, BoundAssumption DEF Types
<1>5. Types'
  BY <1>1, <1>3, <1>4 DEF Types, Keys, Group
<1> QED
  BY <1>1, <1>5, AssetsAloneKeepTheirInvariant DEF IInv, FileIsJudged, ScoredIsJudged, NeverTorn

\* What a mapped row is.
LEMMA MappedRows ==
  ASSUME Types, NEW i \in Mapped(findings)
  PROVE  findings[i] \in FindingRow /\ i \in 1..Len(findings)
BY DEF Types, Mapped, Rows

LEMMA JudgeFindingsPreservesIInv ==
  ASSUME IInv, JudgeFindings
  PROVE  IInv'
<1>1. /\ Types /\ phase = "judge" /\ position = 0 /\ scored = <<>>
      /\ UNCHANGED <<resolved, seen, outside, assets, findings, position, scored, collapsed>>
  BY DEF IInv, JudgeFindings, Types
<1>2. /\ fatal' \in BOOLEAN
      /\ phase' \in {"refused", "stream"}
      /\ phase' = "stream" => ~Collides(findings) /\ ~Conflicts(findings)
      /\ phase' = "stream" =>
           excluded' = {ShortId(findings[i].identity) : i \in Mapped(findings) \ Kept(findings)}
      /\ excluded' \in {{}, {ShortId(findings[i].identity) : i \in Mapped(findings) \ Kept(findings)}}
  BY DEF JudgeFindings
<1>3. \A i \in Mapped(findings) : ShortId(findings[i].identity) \in FindingIds
  BY <1>1, MappedRows DEF FindingRow, FindingIds
<1>4. excluded' \subseteq FindingIds
  BY <1>2, <1>3
<1>5. Types'
  BY <1>1, <1>2, <1>4 DEF Types, Keys, Group
<1>6. FileIsJudged'
  BY <1>1, <1>2 DEF FileIsJudged, Collides, Conflicts, Kept, Mapped, AssetIds
<1>7. ScoredIsJudged'
  <2>1. \A i \in Mapped(findings) : ~(i <= 0)
    BY <1>1, MappedRows DEF Types
  <2>2. Mapped(findings)' = Mapped(findings) /\ DOMAIN scored' = {} /\ position' = 0
    BY <1>1 DEF Mapped
  <2>3. phase' # "done"
    BY <1>2
  <2> QED BY <2>1, <2>2, <2>3 DEF ScoredIsJudged
<1>8. ChosenIsLatest' /\ ChosenIsUndisputed' /\ GroupingKeepsWhatRowsSay'
  BY <1>1, AssetsAloneKeepTheirInvariant DEF Types
<1> QED
  BY <1>2, <1>5, <1>6, <1>7, <1>8 DEF IInv, NeverTorn

\* A row of the second pass: it is skipped, repeats one that was scored, or is scored; the
\* branch that tears the batch contradicts what the first pass found.
LEMMA StreamFindingPreservesIInv ==
  ASSUME IInv, StreamFinding
  PROVE  IInv'
<1> DEFINE p == position + 1
           row == findings[p]
           excludedRow == p \in Mapped(findings) => ShortId(row.identity) \in excluded
<1>1. /\ Types /\ phase = "stream" /\ p \in 1..Len(findings) /\ position' = p
      /\ UNCHANGED <<resolved, seen, outside, fatal, assets, findings, excluded>>
      /\ ~Collides(findings) /\ ~Conflicts(findings) /\ ScoredIsJudged
      /\ excluded = {ShortId(findings[i].identity) : i \in Mapped(findings) \ Kept(findings)}
  BY DEF IInv, StreamFinding, FileIsJudged, Types
<1>2. /\ Mapped(findings)' = Mapped(findings) /\ Kept(findings)' = Kept(findings)
      /\ Collides(findings)' = Collides(findings) /\ Conflicts(findings)' = Conflicts(findings)
  BY <1>1 DEF Mapped, Kept, Collides, Conflicts, AssetIds
<1>3. ChosenIsLatest' /\ ChosenIsUndisputed' /\ GroupingKeepsWhatRowsSay'
  BY <1>1, AssetsAloneKeepTheirInvariant
<1>4. ~excludedRow => p \in Kept(findings) /\ row \in FindingRow
  BY <1>1, MappedRows
<1>5. \A i \in Mapped(findings) : i <= p => i = p \/ i <= position
  BY <1>1, MappedRows DEF Types
<1>6. \A k \in DOMAIN scored : \E i \in Kept(findings) : i <= position /\ scored[k] = findings[i]
  BY <1>1 DEF ScoredIsJudged
<1>7. ASSUME ~excludedRow, NEW k \in DOMAIN scored, scored[k].identity = row.identity
      PROVE  Stands(p)
  <2>1. PICK j \in Kept(findings) : j <= position /\ scored[k] = findings[j]
    BY <1>6
  <2>2. j \in 1..p
    BY <1>1, <2>1, MappedRows DEF Kept, Types
  <2>3. Compared(findings[j]) = Compared(row)
    BY <1>1, <1>4, <1>7, <2>1 DEF Conflicts
  <2> QED BY <1>7, <2>1, <2>2, <2>3 DEF Stands
<1>8. ASSUME ~excludedRow, NEW k \in DOMAIN scored, ShortId(scored[k].identity) = ShortId(row.identity)
      PROVE  scored[k].identity = row.identity
  BY <1>1, <1>4, <1>6, <1>8 DEF Collides
<1>9. ~excludedRow => row.asset \in AssetIds
  BY <1>4 DEF Kept
<1>10. \/ /\ excludedRow /\ UNCHANGED <<phase, scored, collapsed>>
       \/ /\ ~excludedRow /\ \E k \in DOMAIN scored : scored[k].identity = row.identity
          /\ collapsed' = collapsed + 1 /\ UNCHANGED <<phase, scored>>
       \/ /\ ~excludedRow /\ ~\E k \in DOMAIN scored : scored[k].identity = row.identity
          /\ scored' = Append(scored, row) /\ UNCHANGED <<phase, collapsed>>
  BY <1>8, <1>9 DEF StreamFinding
<1>11. /\ phase' = "stream" /\ scored' \in Seq(FindingRow) /\ collapsed' \in 0..p
  BY <1>1, <1>4, <1>10 DEF Types
<1>12. Types'
  BY <1>1, <1>11 DEF Types, Keys, Group
<1>13. ScoredIsJudged'
  <2>1. CASE UNCHANGED scored
    <3>1. p \in Mapped(findings) => ShortId(row.identity) \in excluded \/ Stands(p)
      <4>1. CASE excludedRow
        BY <4>1
      <4>2. CASE ~excludedRow /\ \E k \in DOMAIN scored : scored[k].identity = row.identity
        BY <1>7, <4>2
      <4>3. CASE scored' = Append(scored, row)
        BY <1>1, <1>4, <2>1, <4>3 DEF Types
      <4> QED BY <1>10, <4>1, <4>2, <4>3
    <3>2. \A i : Stands(i)' <=> Stands(i)
      BY <1>1, <2>1 DEF Stands
    <3>3. \A k \in DOMAIN scored : \E i \in Kept(findings) : i <= p /\ scored[k] = findings[i]
      <4>1. \A i \in Kept(findings) : i <= position => i <= p
        BY <1>1, MappedRows DEF Kept, Types
      <4> QED BY <1>6, <4>1
    <3>4. \A i \in Mapped(findings) : i <= p =>
            ShortId(findings[i].identity) \in excluded \/ Stands(i)
      BY <1>1, <1>5, <3>1 DEF ScoredIsJudged
    <3> QED BY <1>1, <1>2, <1>11, <2>1, <3>2, <3>3, <3>4 DEF ScoredIsJudged
  <2>2. CASE /\ ~excludedRow /\ scored' = Append(scored, row)
             /\ ~\E k \in DOMAIN scored : scored[k].identity = row.identity
    <3> DEFINE n == Len(scored) + 1
    <3>1. /\ n \in Nat /\ DOMAIN scored' = DOMAIN scored \cup {n} /\ n \notin DOMAIN scored
          /\ scored'[n] = row /\ \A k \in DOMAIN scored : scored'[k] = scored[k]
      BY <1>1, <1>4, <2>2 DEF Types
    <3> HIDE DEF n
    <3>2. \A k \in DOMAIN scored' : \E i \in Kept(findings) : i <= p /\ scored'[k] = findings[i]
      <4>1. \A i \in Kept(findings) : i <= position => i <= p
        BY <1>1, MappedRows DEF Kept, Types
      <4>2. p <= p
        BY <1>1
      <4> QED BY <1>4, <1>6, <2>2, <3>1, <4>1, <4>2
    <3>3. \A i : Stands(i) => Stands(i)'
      BY <1>1, <3>1 DEF Stands
    <3>4. ASSUME NEW q, q = p PROVE Stands(q)'
      <4>1. q \in 1..q
        BY <1>1, <3>4
      <4>2. findings' = findings /\ scored'[n] = findings[q] /\ n \in DOMAIN scored'
        BY <1>1, <3>1, <3>4
      <4> QED BY <4>1, <4>2 DEF Stands
    <3>5. \A i \in Mapped(findings) : i <= p =>
            ShortId(findings[i].identity) \in excluded \/ Stands(i)'
      BY <1>1, <1>5, <3>3, <3>4 DEF ScoredIsJudged
    <3>6. \A j, k \in DOMAIN scored : ShortId(scored[j].identity) = ShortId(scored[k].identity) => j = k
      BY <1>1 DEF ScoredIsJudged
    <3>7. \A k \in DOMAIN scored : ShortId(scored[k].identity) # ShortId(row.identity)
      BY <1>8, <2>2
    <3>8. \A j, k \in DOMAIN scored' : ShortId(scored'[j].identity) = ShortId(scored'[k].identity) => j = k
      BY <3>1, <3>6, <3>7
    <3> QED BY <1>1, <1>2, <1>11, <3>2, <3>5, <3>8 DEF ScoredIsJudged
  <2> QED BY <1>10, <2>1, <2>2
<1> QED
  BY <1>1, <1>2, <1>3, <1>11, <1>12, <1>13 DEF IInv, FileIsJudged, NeverTorn

LEMMA EndOfFindingsPreservesIInv ==
  ASSUME IInv, EndOfFindings
  PROVE  IInv'
<1>1. /\ Types /\ FileIsJudged /\ ScoredIsJudged /\ phase = "stream" /\ phase' = "done"
      /\ position = Len(findings)
      /\ UNCHANGED <<resolved, seen, outside, fatal, assets, findings, position, excluded, scored, collapsed>>
  BY DEF IInv, EndOfFindings
<1>2. ChosenIsLatest' /\ ChosenIsUndisputed' /\ GroupingKeepsWhatRowsSay'
  BY <1>1, AssetsAloneKeepTheirInvariant
<1>3. Types'
  BY <1>1 DEF Types, Keys, Group
<1>4. FileIsJudged' /\ ScoredIsJudged'
  BY <1>1 DEF FileIsJudged, ScoredIsJudged, Stands, Collides, Conflicts, Kept, Mapped, AssetIds
<1> QED BY <1>1, <1>2, <1>3, <1>4 DEF IInv, NeverTorn

-----------------------------------------------------------------------------
(* Theorems *)

\* The inductive invariant of a load.
THEOREM InductiveInvariant == Spec => []IInv
<1>1. Init => IInv
  BY InitIInv
<1>2. IInv /\ [Next]_vars => IInv'
  <2> SUFFICES ASSUME IInv, [Next]_vars PROVE IInv'
    OBVIOUS
  <2>1. CASE MapAssetRow
    BY <2>1, MapAssetRowPreservesIInv
  <2>2. CASE FatalAssetRow \/ ExcludeAssetRow
    BY <2>2, OtherAssetRowsPreserveIInv
  <2>3. CASE RefuseFiles \/ RefuseHeader \/ RefuseRow
    BY <2>3, RefusePreservesIInv DEF RefuseFiles, RefuseHeader, RefuseRow
  <2>4. CASE YieldAssets
    BY <2>4, YieldAssetsPreservesIInv
  <2>5. CASE ReadFindingRow
    BY <2>5, ReadFindingRowPreservesIInv
  <2>6. CASE JudgeFindings
    BY <2>6, JudgeFindingsPreservesIInv
  <2>7. CASE StreamFinding
    BY <2>7, StreamFindingPreservesIInv
  <2>8. CASE EndOfFindings
    BY <2>8, EndOfFindingsPreservesIInv
  <2>9. CASE UNCHANGED vars
    <3>1. \A i : Stands(i)' <=> Stands(i)
      BY <2>9 DEF vars, Stands
    <3>2. ScoredIsJudged'
      BY <2>9, <3>1 DEF vars, IInv, ScoredIsJudged, Kept, Mapped, AssetIds
    <3> QED
      BY <2>9, <3>2 DEF vars, IInv, Types, ChosenIsLatest, ChosenIsUndisputed, GroupingKeepsWhatRowsSay,
         Keys, Group, FileIsJudged, NeverTorn, Collides, Conflicts, Kept, Mapped, AssetIds
  <2> QED
    BY <2>1, <2>2, <2>3, <2>4, <2>5, <2>6, <2>7, <2>8, <2>9 DEF Next
<1> QED
  BY <1>1, <1>2, PTL DEF Spec

\* TypeOK, for any number of rows.
THEOREM TypeCorrect == Spec => []TypeOK
<1>1. IInv => TypeOK
  <2> SUFFICES ASSUME Types PROVE TypeOK
    BY DEF IInv
  <2>1. collapsed \in 0..MaxFindingRows
    BY BoundAssumption DEF Types
  <2> QED BY <2>1 DEF Types, TypeOK, Group
<1> QED
  BY <1>1, InductiveInvariant, PTL

\* NeverTorn: the checks of the second pass, in unique_findings and join, never raise in
\* the middle of a batch, whatever the file holds and however identities are cut.
THEOREM SecondPassNeverRaises == Spec => []NeverTorn
<1>1. IInv => NeverTorn
  BY DEF IInv
<1> QED
  BY <1>1, InductiveInvariant, PTL

\* NothingIsLost: a finding that was mapped is scored, repeats an earlier one that was
\* scored in all that content_targets names, or has a finding_id that is reported as
\* excluded, for whatever content_targets names.
THEOREM EveryRowIsAccountedFor == Spec => []NothingIsLost
<1>1. IInv => NothingIsLost
  <2> SUFFICES ASSUME IInv, phase = "done" PROVE NothingIsLost
    BY DEF NothingIsLost
  <2>1. \A i \in Mapped(findings) : i <= position
    BY MappedRows DEF IInv, ScoredIsJudged, Types
  <2> QED BY <2>1 DEF IInv, ScoredIsJudged, Stands, NothingIsLost
<1> QED
  BY <1>1, InductiveInvariant, PTL

\* GroupingKeepsWhatRowsSay, for any number of rows of an asset in any order.
THEOREM GroupingLosesNothing == Spec => []GroupingKeepsWhatRowsSay
<1>1. IInv => GroupingKeepsWhatRowsSay
  BY DEF IInv
<1> QED
  BY <1>1, InductiveInvariant, PTL
=============================================================================
