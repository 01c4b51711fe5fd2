-------------------------- MODULE GroupConstraint --------------------------
(***************************************************************************)
(* Constraints on a group of assets ("all workstations"): a preview that a *)
(* human reviews, a token to confirm it by, and the deterministic run that *)
(* folds the confirmed rows into scores (agents/coordinator.py,            *)
(* memory.py, constraint_apply.py, `rhino constraint group`).              *)
(*                                                                         *)
(* Every command is a process of its own.  It loads the inventory once, at *)
(* its start, and then works on the shared database, one transaction per   *)
(* method of Memory; the source files may change at any moment, and a      *)
(* process may be killed or fail between any two transactions.  Of an      *)
(* asset the model keeps the value of the one group field, role.           *)
(***************************************************************************)
EXTENDS Naturals, Sequences

CONSTANTS
  Assets,
  AssetOf,        \* the asset of each finding, in the order of the findings stream
  Roles,          \* the values of role
  NotCollected,   \* a role the source never determined (Asset.not_collected)
  Tokens,         \* the tokens uuid4 may draw
  Processes       \* `rhino constraint group` processes

ASSUME AssetAssumption == AssetOf \in Seq(Assets)
ASSUME RoleAssumption == NotCollected \notin Roles

Findings == DOMAIN AssetOf

VARIABLES
  fleet,       \* the role of each asset, in the source files
  pending,     \* pending_group_constraints
  rows,        \* group_constraints, oldest first
  assetRule,   \* whether an asset-scoped constraint is on file for each asset
  proc,        \* what each process is at, its token and the inventory it loaded
  run          \* the deterministic run and its ConstraintAccumulator

vars == <<fleet, pending, rows, assetRule, proc, run>>

Fleet == [Assets -> Roles \cup {NotCollected}]
Preview == [state : {"open", "consumed"}, role : Roles,
            matched : SUBSET Assets, excluded : SUBSET Assets]
Row == [token : Tokens, role : Roles, active : BOOLEAN]
Process == [pc : {"idle", "previewing", "confirming", "checked", "consumed", "added"},
            role : Roles \cup {NotCollected},
            token : Tokens \cup {"none"},
            inventory : Fleet]

\* _group_cache and _cache of the accumulator (each None until it is read), what
\* was folded into each finding, and what the run reports as applied.
Run == [pc : {"idle", "scoring"},
        inventory : Fleet,
        group : SUBSET (1..Len(rows)), asset : SUBSET Assets,
        scored : {0} \cup Findings,
        foldedGroup : [Findings -> SUBSET (1..Len(rows))],
        foldedAsset : SUBSET Findings,
        appliedGroup : SUBSET ((1..Len(rows)) \X Assets),
        appliedAsset : SUBSET Assets]

NoInventory == [a \in Assets |-> NotCollected]
IdleProcess == [pc |-> "idle", role |-> NotCollected, token |-> "none",
                inventory |-> NoInventory]
IdleRun == [pc |-> "idle", inventory |-> NoInventory,
            group |-> {}, asset |-> {},
            scored |-> 0, foldedGroup |-> [f \in Findings |-> {}], foldedAsset |-> {},
            appliedGroup |-> {}, appliedAsset |-> {}]

TypeOK ==
  /\ fleet \in Fleet
  /\ \E issued \in SUBSET Tokens : pending \in [issued -> Preview]
  /\ rows \in Seq(Row)
  /\ assetRule \subseteq Assets
  /\ proc \in [Processes -> Process]
  /\ run \in Run

Init ==
  /\ fleet \in Fleet
  /\ pending = << >>
  /\ rows = << >>
  /\ assetRule = {}
  /\ proc = [p \in Processes |-> IdleProcess]
  /\ run = IdleRun

\* _match_group_candidate: an asset whose role was never determined is excluded
\* from the match, whatever placeholder it carries.
Matched(inventory, role) == {a \in Assets : inventory[a] = role}
Excluded(inventory) == {a \in Assets : inventory[a] = NotCollected}

At(p, pc) == proc[p].pc = pc
Goto(p, pc) == proc' = [proc EXCEPT ![p].pc = pc]
Exit(p) == proc' = [proc EXCEPT ![p] = IdleProcess]

-----------------------------------------------------------------------------
(* rhino constraint group add                                              *)

\* load_batch; then the Interpreter, a model call, resolves the statement.
BeginPreview(p, role) ==
  /\ At(p, "idle")
  /\ proc' = [proc EXCEPT ![p] = [pc |-> "previewing", role |-> role, token |-> "none",
                                  inventory |-> fleet]]
  /\ UNCHANGED <<fleet, pending, rows, assetRule, run>>

\* _preview_group_constraint.
SavePreview(p, t) ==
  /\ At(p, "previewing")
  /\ t \notin DOMAIN pending
  /\ LET preview == [state |-> "open", role |-> proc[p].role,
                     matched |-> Matched(proc[p].inventory, proc[p].role),
                     excluded |-> Excluded(proc[p].inventory)]
     IN pending' = [u \in DOMAIN pending \cup {t} |-> IF u = t THEN preview ELSE pending[u]]
  /\ Exit(p)
  /\ UNCHANGED <<fleet, rows, assetRule, run>>

-----------------------------------------------------------------------------
(* rhino constraint group confirm                                          *)

BeginConfirm(p, t) ==
  /\ At(p, "idle")
  /\ proc' = [proc EXCEPT ![p] = [pc |-> "confirming", role |-> NotCollected, token |-> t,
                                  inventory |-> fleet]]
  /\ UNCHANGED <<fleet, pending, rows, assetRule, run>>

\* Mutant of SameFleet: the digest leaves the excluded assets out.
SameMatch(preview, inventory) ==
  preview.matched = Matched(inventory, preview.role)

\* The digest of what was reviewed is the digest of what is matched now.
SameFleet(preview, inventory) ==
  /\ preview.matched = Matched(inventory, preview.role)
  /\ preview.excluded = Excluded(inventory)

\* An unknown or spent token, or another fleet than the reviewed one, is refused.
CheckToken(p) ==
  /\ At(p, "confirming")
  /\ LET t == proc[p].token IN
     IF /\ t \in DOMAIN pending
        /\ pending[t].state = "open"
        /\ SameFleet(pending[t], proc[p].inventory)
       THEN Goto(p, "checked")
       ELSE Exit(p)
  /\ UNCHANGED <<fleet, pending, rows, assetRule, run>>

\* Mutant of Consume: the row is added before the token is consumed.
AddRowFirst(p) ==
  /\ At(p, "checked")
  /\ rows' = Append(rows, [token |-> proc[p].token, role |-> pending[proc[p].token].role,
                           active |-> TRUE])
  /\ Goto(p, "consumed")
  /\ UNCHANGED <<fleet, pending, assetRule, run>>

\* The catalogs are loaded; consume_pending_group_constraint does not look at
\* what the token's state is by now.
Consume(p) ==
  /\ At(p, "checked")
  /\ pending' = [pending EXCEPT ![proc[p].token].state = "consumed"]
  /\ Goto(p, "consumed")
  /\ UNCHANGED <<fleet, rows, assetRule, run>>

AddRow(p) ==
  /\ At(p, "consumed")
  /\ rows' = Append(rows, [token |-> proc[p].token, role |-> pending[proc[p].token].role,
                           active |-> TRUE])
  /\ Goto(p, "added")
  /\ UNCHANGED <<fleet, pending, assetRule, run>>

\* The deltas, record_run, record_decision, record_feedback: nothing that is
\* read again here.
Report(p) ==
  /\ At(p, "added")
  /\ Exit(p)
  /\ UNCHANGED <<fleet, pending, rows, assetRule, run>>

\* The process is killed, its statement is refused, a snapshot is missing, or the
\* database raises.
Abort(p) ==
  /\ ~ At(p, "idle")
  /\ Exit(p)
  /\ UNCHANGED <<fleet, pending, rows, assetRule, run>>

-----------------------------------------------------------------------------
(* Everything else that writes what these read.                            *)

ChangeFleet(a, role) ==
  /\ fleet[a] # role
  /\ fleet' = [fleet EXCEPT ![a] = role]
  /\ UNCHANGED <<pending, rows, assetRule, proc, run>>

\* deactivate_group_constraint, from `rhino constraint group retract`.
RetractGroup(i) ==
  /\ rows[i].active
  /\ rows' = [rows EXCEPT ![i].active = FALSE]
  /\ UNCHANGED <<fleet, pending, assetRule, proc, run>>

\* add_constraint and deactivate_constraint.
ChangeAssetRule(a) ==
  /\ assetRule' = IF a \in assetRule THEN assetRule \ {a} ELSE assetRule \cup {a}
  /\ UNCHANGED <<fleet, pending, rows, proc, run>>

-----------------------------------------------------------------------------
(* run_with_report with a ConstraintApplicator.                            *)

BeginRun ==
  /\ run.pc = "idle"
  /\ run' = [IdleRun EXCEPT !.pc = "scoring", !.inventory = fleet]
  /\ UNCHANGED <<fleet, pending, rows, assetRule, proc>>

Active == {i \in DOMAIN rows : rows[i].active}

\* Mutant of GroupCache: the table is read anew for every finding.
GroupCacheUnkept == Active

\* The whole table is read for the first finding and kept.
GroupCache == IF run.scored > 0 THEN run.group ELSE Active

\* An asset's own constraints are read for its first finding and kept.
AssetCache(a) ==
  IF \E i \in 1..run.scored : AssetOf[i] = a THEN run.asset
                                            ELSE run.asset \cup ({a} \cap assetRule)

\* apply, for the next finding: record and record_group, then the fold.
Apply ==
  /\ run.pc = "scoring"
  /\ run.scored < Len(AssetOf)
  /\ LET f == run.scored + 1
         a == AssetOf[f]
         cached == GroupCache
         folded == {i \in cached : rows[i].role = run.inventory[a]}
         asset == AssetCache(a)
     IN run' = [run EXCEPT !.group = cached, !.asset = asset, !.scored = f,
                           !.foldedGroup[f] = folded,
                           !.foldedAsset = IF a \in asset THEN @ \cup {f} ELSE @,
                           !.appliedGroup = @ \cup (folded \X {a}),
                           !.appliedAsset = IF a \in asset THEN @ \cup {a} ELSE @]
  /\ UNCHANGED <<fleet, pending, rows, assetRule, proc>>

EndRun ==
  /\ run.pc = "scoring"
  /\ run.scored = Len(AssetOf)
  /\ run' = IdleRun
  /\ UNCHANGED <<fleet, pending, rows, assetRule, proc>>

-----------------------------------------------------------------------------
Command(p) ==
  \/ \E role \in Roles : BeginPreview(p, role)
  \/ \E t \in Tokens : SavePreview(p, t) \/ BeginConfirm(p, t)
  \/ CheckToken(p) \/ Consume(p) \/ AddRow(p) \/ Report(p) \/ Abort(p)

Next ==
  \/ \E p \in Processes : Command(p)
  \/ \E a \in Assets, role \in Roles \cup {NotCollected} : ChangeFleet(a, role)
  \/ \E i \in DOMAIN rows : RetractGroup(i)
  \/ \E a \in Assets : ChangeAssetRule(a)
  \/ BeginRun \/ Apply \/ EndRun

Spec == Init /\ [][Next]_vars

-----------------------------------------------------------------------------
(* Properties.                                                             *)

\* The inventory a constraint is confirmed for has the very match, and the very
\* exclusions, that the human reviewed, whatever changed since the preview.
ConfirmedIsReviewed ==
  \A p \in Processes : proc[p].pc \in {"consumed", "added"} =>
    LET preview == pending[proc[p].token] IN
      /\ preview.matched = Matched(proc[p].inventory, preview.role)
      /\ preview.excluded = Excluded(proc[p].inventory)

\* A token that still reads as open has no row: a confirm that died half way can
\* be repeated without applying the constraint twice.
OpenTokenHasNoRow ==
  \A i \in DOMAIN rows : pending[rows[i].token].state = "consumed"

\* A run reports for an asset exactly what it folded into each of its findings,
\* although constraints are confirmed and retracted while it scores.
RunReportsWhatItFolded ==
  \A f \in 1..run.scored :
    /\ run.foldedGroup[f] = {i \in DOMAIN rows : <<i, AssetOf[f]>> \in run.appliedGroup}
    /\ f \in run.foldedAsset <=> AssetOf[f] \in run.appliedAsset
=============================================================================
