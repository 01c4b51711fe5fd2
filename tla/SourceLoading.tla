---------------------------- MODULE SourceLoading ----------------------------
(***************************************************************************)
(* One load of a source through a contract (adapters/configured.py, with   *)
(* ingest.py's load_batch as the consumer; adapters/defender.py groups its *)
(* rows by the same rule): the asset rows are grouped, one asset a key;    *)
(* the finding rows are read once to be judged as a whole and once more to *)
(* be streamed to the scorer.                                              *)
(*                                                                         *)
(* A row is what mapping it came to: the values it resolves to, or that it *)
(* could not be read ("fatal") or is out of scope.  The rows of a file are *)
(* chosen as they are read.                                                *)
(***************************************************************************)
EXTENDS Naturals, Sequences, FiniteSets

CONSTANTS
  AssetKeys,      \* values of asset_grouping.key
  Fields,         \* the resolved fields of an asset, as one value
  MaxOrder,       \* values of asset_grouping.order_by are 1..MaxOrder, 0 is none
  Controls,       \* values of a union field
  NoControl,      \* ... and of a blank one
  Identities,     \* what a finding is told apart by: the full digest
  ShortId(_),     \* the finding_id of an identity, which cuts the digest
  Contents,       \* everything else a finding row says, as one value
  Compared(_),    \* what finding_dedup.content_targets shows of a row
  Unreadable, OutOfScope,  \* a finding row that could not be mapped, and why
  MaxAssetRows, MaxFindingRows

ASSUME BoundAssumption == {MaxOrder, MaxAssetRows, MaxFindingRows} \subseteq Nat
ASSUME ControlAssumption == NoControl \notin Controls

AssetRow == [key : AssetKeys, fields : Fields, order : 0..MaxOrder,
             control : Controls \cup {NoControl}]
FindingRow == [identity : Identities, asset : AssetKeys, content : Contents]
FindingIds == {ShortId(i) : i \in Identities}

VARIABLES
  phase,      \* "assets", "judge", "stream", "done", "refused", "torn"
  resolved,   \* the row an asset is taken from, by key; seen holds its domain
  seen,       \* every asset row that was mapped
  outside,    \* stats.excluded_assets
  fatal,      \* problems.fatal is not empty
  assets,     \* the assets yielded
  findings,   \* the finding rows of the file
  position,   \* of the pass that streams them
  excluded,   \* stats.excluded_findings
  scored,     \* what the scorer got, in order
  rows,       \* bound: asset rows read
  collapsed   \* stats.duplicate_findings_collapsed

vars == <<phase, resolved, seen, outside, fatal, assets, findings, position, excluded,
          scored, rows, collapsed>>

Keys == {r.key : r \in seen}
Asset == [key : AssetKeys, fields : Fields, controls : SUBSET Controls]

TypeOK ==
  /\ phase \in {"assets", "judge", "stream", "done", "refused", "torn"}
  /\ seen \subseteq AssetRow
  /\ DOMAIN resolved = Keys /\ \A k \in Keys : resolved[k] \in seen
  /\ outside \subseteq AssetKeys
  /\ fatal \in BOOLEAN
  /\ assets \subseteq Asset
  /\ Len(findings) <= MaxFindingRows
  /\ excluded \subseteq FindingIds
  /\ collapsed \in 0..MaxFindingRows

Init ==
  /\ phase = "assets" /\ seen = {} /\ resolved = <<>> /\ outside = {} /\ fatal = FALSE
  /\ assets = {} /\ findings = <<>> /\ position = 0 /\ excluded = {} /\ scored = <<>>
  /\ rows = 0 /\ collapsed = 0

-----------------------------------------------------------------------------
(* Assets *)

\* The row a row with the same key leaves in place: the same fields collapse, of two
\* orders the greater wins.
Newer(row, prior) ==
  IF row.fields # prior.fields /\ row.order > prior.order THEN row ELSE prior

\* Two rows of one key between which there is nothing to choose by.
Disagree(row, prior) ==
  row.fields # prior.fields /\ (0 \in {row.order, prior.order} \/ row.order = prior.order)

\* A row of the inventory is mapped and grouped with the earlier rows of its key.
MapAssetRow ==
  /\ phase = "assets" /\ rows < MaxAssetRows
  /\ \E row \in AssetRow :
       /\ seen' = seen \cup {row}
       /\ IF row.key \in Keys
          THEN /\ resolved' = [resolved EXCEPT ![row.key] =
                                 IF Disagree(row, @) THEN @ ELSE Newer(row, @)]
               /\ fatal' = (fatal \/ Disagree(row, resolved[row.key]))
          ELSE /\ resolved' = [k \in Keys \cup {row.key} |->
                                 IF k = row.key THEN row ELSE resolved[k]]
               /\ UNCHANGED fatal
  /\ rows' = rows + 1
  /\ UNCHANGED <<phase, outside, assets, findings, position, excluded, scored, collapsed>>

\* A row without an identity, with a malformed value or a blank that has no default.
FatalAssetRow ==
  /\ phase = "assets" /\ rows < MaxAssetRows
  /\ fatal' = TRUE
  /\ rows' = rows + 1
  /\ UNCHANGED <<phase, resolved, seen, outside, assets, findings, position, excluded, scored, collapsed>>

\* A vocabulary miss on an excluding target.
ExcludeAssetRow ==
  /\ phase = "assets" /\ rows < MaxAssetRows
  /\ \E k \in AssetKeys : outside' = outside \cup {k}
  /\ rows' = rows + 1
  /\ UNCHANGED <<phase, resolved, seen, fatal, assets, findings, position, excluded, scored, collapsed>>

\* Mutant of ControlsOf: the controls of the chosen row only.
ControlsOfChosen(k) == {resolved[k].control} \ {NoControl}

\* The union over the rows of a key, whichever of them the other fields come from.
ControlsOf(k) == {r.control : r \in {x \in seen : x.key = k}} \ {NoControl}

Refuse ==
  /\ phase' = "refused"
  /\ UNCHANGED <<resolved, seen, outside, fatal, assets, findings, position, excluded, scored,
                 rows, collapsed>>

\* A file of the source is missing.
RefuseFiles == phase = "assets" /\ rows = 0 /\ Refuse

\* A header, of either file, is not what the contract declares: nothing is read.
RefuseHeader == phase = "assets" /\ rows = 0 /\ Refuse

\* A row with too many or too few fields, or with bytes that do not decode, ends the load
\* where it stands.  The second pass over the findings meets no row the first did not.
RefuseRow == phase \in {"assets", "judge"} /\ Refuse

\* The end of the inventory.  An empty one is refused, one that is all out of scope is not.
YieldAssets ==
  /\ phase = "assets"
  /\ assets' = IF fatal THEN {}
               ELSE {[key |-> k, fields |-> resolved[k].fields, controls |-> ControlsOf(k)] : k \in Keys}
  /\ phase' = IF fatal \/ (Keys = {} /\ outside = {}) THEN "refused" ELSE "judge"
  /\ UNCHANGED <<resolved, seen, outside, fatal, findings, position, excluded, scored, rows, collapsed>>

-----------------------------------------------------------------------------
(* Findings *)

Mapped(rs) == {i \in DOMAIN rs : rs[i] \notin {Unreadable, OutOfScope}}
AssetIds == {a.key : a \in assets}

\* The rows that count towards identity: those whose asset was loaded.
Kept(rs) == {i \in Mapped(rs) : rs[i].asset \in AssetIds}

\* Mutant of Collides: finding_ids are taken to be as distinct as identities.
CollidesNever(rs) == FALSE

\* Two identities cut to one finding_id.
Collides(rs) ==
  \E i, j \in Kept(rs) : /\ rs[i].identity # rs[j].identity
                         /\ ShortId(rs[i].identity) = ShortId(rs[j].identity)

\* Mutant of Conflicts: content is not compared.
ConflictsNever(rs) == FALSE

\* One identity, two contents, as far as they are compared: content_targets need not
\* name everything a row says.
Conflicts(rs) ==
  \E i, j \in Kept(rs) : rs[i].identity = rs[j].identity /\ Compared(rs[i]) # Compared(rs[j])

\* A finding of an asset that is neither loaded nor known to be out of scope.
Orphaned(rs) == \E i \in Mapped(rs) : rs[i].asset \notin AssetIds \cup outside

\* The first pass reads a row.
ReadFindingRow ==
  /\ phase = "judge" /\ Len(findings) < MaxFindingRows
  /\ \E row \in FindingRow \cup {Unreadable, OutOfScope} : findings' = Append(findings, row)
  /\ UNCHANGED <<phase, resolved, seen, outside, fatal, assets, position, excluded, scored, rows, collapsed>>

\* Its end: the whole file is refused, or the findings of excluded assets are.
JudgeFindings ==
  /\ phase = "judge"
  /\ fatal' = (\/ \E i \in DOMAIN findings : findings[i] = Unreadable
               \/ Collides(findings) \/ Conflicts(findings) \/ Orphaned(findings))
  /\ phase' = IF fatal' THEN "refused" ELSE "stream"
  /\ excluded' = IF fatal' THEN {}
                 ELSE {ShortId(findings[i].identity) : i \in Mapped(findings) \ Kept(findings)}
  /\ UNCHANGED <<resolved, seen, outside, assets, findings, position, scored, rows, collapsed>>

\* The second pass streams a row: unique_findings and join let it through to the scorer,
\* or raise in the middle of the batch.
StreamFinding ==
  /\ phase = "stream" /\ position < Len(findings)
  /\ position' = position + 1
  /\ LET row == findings[position + 1]
         skipped == position + 1 \in Mapped(findings) => ShortId(row.identity) \in excluded
         repeated == \E k \in DOMAIN scored : scored[k].identity = row.identity
         alias == \E k \in DOMAIN scored : ShortId(scored[k].identity) = ShortId(row.identity)
     IN \/ skipped /\ UNCHANGED <<phase, scored, collapsed>>
        \/ ~skipped /\ repeated /\ collapsed' = collapsed + 1 /\ UNCHANGED <<phase, scored>>
        \/ /\ ~skipped /\ ~repeated
           /\ IF alias \/ row.asset \notin AssetIds
              THEN phase' = "torn" /\ UNCHANGED scored
              ELSE scored' = Append(scored, row) /\ UNCHANGED phase
           /\ UNCHANGED collapsed
  /\ UNCHANGED <<resolved, seen, outside, fatal, assets, findings, excluded, rows>>

EndOfFindings ==
  /\ phase = "stream" /\ position = Len(findings)
  /\ phase' = "done"
  /\ UNCHANGED <<resolved, seen, outside, fatal, assets, findings, position, excluded, scored,
                 rows, collapsed>>

Next ==
  \/ MapAssetRow \/ FatalAssetRow \/ ExcludeAssetRow \/ RefuseFiles \/ RefuseHeader \/ RefuseRow \/ YieldAssets
  \/ ReadFindingRow \/ JudgeFindings \/ StreamFinding \/ EndOfFindings

Spec == Init /\ [][Next]_vars

-----------------------------------------------------------------------------
(* Properties *)

\* A source is refused before its first finding is scored or not at all: unique_findings
\* and join, which would raise in the middle of the stream, never have a reason to.
NeverTorn == phase # "torn"

\* When the stream ends, every finding that could be mapped is reported as excluded, or
\* was scored, or was left out as a duplicate of an earlier row that was scored: one with
\* the same identity that agrees with it in all that content_targets names.  (The code
\* asks no more: what such a row says beyond them is dropped without a word.)  No two
\* findings that were scored share a finding_id.
NothingIsLost ==
  phase = "done" =>
    /\ \A i \in Mapped(findings) :
         \/ ShortId(findings[i].identity) \in excluded
         \/ \E k \in DOMAIN scored : \E j \in 1..i :
              /\ scored[k] = findings[j]
              /\ findings[j].identity = findings[i].identity
              /\ Compared(findings[j]) = Compared(findings[i])
    /\ \A j, k \in DOMAIN scored : ShortId(scored[j].identity) = ShortId(scored[k].identity) => j = k

\* A compensating control that any row of an asset names reaches the loaded asset,
\* wherever in the file it stands and whichever row the other fields come from; two rows
\* without an order to choose by never disagree in a source that is loaded; and an asset
\* is loaded from its latest row wherever in the file that stands.  (Not so if an older
\* row said the same: the repetition does not count as later, and a row between the two
\* wins.)
GroupingKeepsWhatRowsSay ==
  \A a \in assets : LET group == {r \in seen : r.key = a.key} IN
    /\ \A r \in group : r.control \in a.controls \cup {NoControl}
    /\ (\A r \in group : r.order = 0) => \A r \in group : r.fields = a.fields
    /\ \A r \in group :
         (\A other \in group \ {r} : other.order < r.order /\ other.fields # r.fields) => a.fields = r.fields

=============================================================================
