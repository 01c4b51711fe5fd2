# RhinoSecure: TLA+ models, model checking and proofs

RhinoSecure (`src/rhinosecure`) ranks vulnerability findings. It ingests a
source of assets and findings through an adapter (a *contract* signed by a
human says how the columns map), runs three agent stages per finding
(Research, Environment, Risk) and a Tree-of-Thought search for contested ones,
folds in constraints that people submit, and exports one JSON file that a web
page shows. `rhino web --enable-jobs` runs all of that as background jobs of one
server process, beside `rhino` commands in other processes that write the same
files and the same SQLite database.

Single scores are well covered by unit tests. What tests hardly reach is the
order of things: request threads against the one worker thread, a re-plan that
fails half way, a contract that is re-proposed or signed while a run uses it, a
server that dies between two writes. Most of these models are about that. Four are
about long computations whose parts depend on one another: the scoring rules over
every combination of missing fields, signals and constraints; the assembly of a
contract from what a model proposed and a human corrected; the beam search; and
the load of a source whose rows may repeat, contradict or shadow one another.

## 1. Inventory

Line numbers refer to the repository; `PROJECT.json` ("map") gives them per
definition.

| Component | State | Operations | Hard behaviour |
|---|---|---|---|
| Job registry, `web/jobs.py` 174-316, 1561-1730 | bounded history of `Job`s, the running slot, a lock | `create_and_start`, `get`, `set_stage`, `finish`, `to_dict`, `dispatch_job`, `_execute_job` | request threads against the worker; eviction at the limit; a handler that raises |
| Job handlers and `PlanState`, `web/jobs.py` 596-1546 | the current plan in memory | `ingest_propose`, `run_deterministic`, `run_agents`, `constraint_submit`, `remediation_mark` | files read twice; writes in a fixed order; restart |
| Coordinator, `agents/coordinator.py` | `RunState`: results and failures per stage and finding | `run`, `replan`, `submit_constraint`, `confirm_group_constraint` | failures of a stage, a task, a retry; results of earlier dispatches |
| Route approval, `web/route.py` | steps of a Router plan | propose, approve, edit, poll | requests racing for one step; jobs evicted before a poll |
| Export, `export.py` | the export file | `write_run_export` | recomputes from live tables |
| Group constraints, `agents/coordinator.py` 999-1276, `constraint_apply.py` 605-760 | preview tokens, rows, a run's accumulator | preview, confirm, retract, fold | confirmation by several processes; a fleet that changes after the review; a crash between two commits |
| Memory, `memory.py` | SQLite tables | one transaction per method | shared with other processes |
| Contract files and review, `adapters/config_io.py`, `adapters/review.py`, `adapters/config_model.py`, `web/adapters.py` | one JSON file per format, with digests and attestations | propose, edit by hand, review, sign, load | read, work for minutes, replace whole; no lock across programs; claims that outlive what they were written about |
| Constraint application, `constraint_apply.py` | none | match, fold | precedence of asset and group rules, rows that outlive a rename |
| Scoring, `scoring.py` | none | `score_finding`, `rank`, `apply_capacity_limit` | placeholders, thresholds, ties at a limit |
| Tree-of-Thought, `tot.py` | a beam of thoughts, the meters of two shared models | propose, critique, refine, prune, conclude | failures inside a level; positions of a list used in another |
| Schema inference, `agents/schema_inference.py`, the slot form of `web/static/app.js` | `out/propose_<name>.json`, a browser's form | `propose_contract`, the human's edit, strict and provisional assembly | repairs that undo one another; a form that goes stale; authorship; a write in place |
| Loading a source, `adapters/configured.py`, `ingest.py` | none; two passes over the rows | group the asset rows, judge the findings, stream them | order of rows, cut identities, conflicts found after scoring began |
| Uploads, `web/uploads.py` | a bounded registry of sets, directories, a bounded cache of idempotency keys | `POST /api/uploads`, into a set, label | no lock: checks before a file is streamed, effects after it; restart |
| Remediation, `remediation.py` | an append-only table | mark | gate on provisional provenance |

How they interact: a request thread claims the slot in the registry and starts a
thread; that thread runs a handler; the handler calls the Coordinator, which
calls Memory from inside agent tools; at the end the handler writes the export
and calls `finish`. Router plans dispatch the same jobs step by step. Uploads give a
source its directory; schema inference writes a proposed contract for it and a
review signs that; every run reads the contract and loads the source through it. The
command line works on the same contracts and the same database from other
processes. There is no lock across processes and none around a handler's reads
and writes: the single running slot is the only mutual exclusion.

What makes each part correct, in a sentence: the registry runs one job at a
time, forgets none that is running and never changes an outcome; the Coordinator
accounts for every finding of a dispatch and never mixes results of two
dispatches; the handlers never pass off an unsigned mapping as a signed one; a
Router plan runs its approved steps once, in order; a group constraint is applied
to the assets a human reviewed, and a run reports what it folded in; a score
depends on nothing its source did not say, a constraint only ever helps, and a
capacity limit keeps the findings that rank highest; a contract that is ingested
was signed as it stands, and each claim it rests on is about what it maps; a
human's mapping is kept and a made-up value moves no score; a source read through a
contract is scored as a whole or refused (the native adapter streams, and can raise
in the middle of a batch); an uploaded file is whole or not there; a search names a
winner only if one is ahead, and books what it spent.

## 2. Modules

`JobStore` is the registry itself with the steps of a job's thread; `JobRegistry`
adds those who dispatch and read jobs and states what the registry promises, and
`SingleFlight` is that promise in the abstract, which `JobRegistry` implements.
`RoutePlan` extends `JobStore` and composes its actions with the steps of a Router
plan; `PlanSubstrate` instantiates it, as `Registry`, and composes its actions with
the handlers. `Coordinator` models the inside of two handlers and stands by
itself: its `StartJob` and `EndJob` are the claim and the release of the slot.
`GroupConstraint` stands by itself too: `rhino constraint group` and `rhino run
--apply-constraints` are processes of their own, which share only tables and
source files. `Triage` extends `ScoringRules`, which holds the operators of
`scoring.py` and `fold_constraints` and no state. The way of a source, from the
upload to the scorer, is four modules in a row: `Uploads`, `Proposal`,
`ContractReview`, `SourceLoading`. What passes between them is a file each of them
reads or replaces as a whole, and `PlanSubstrate` is where it meets the jobs: there
a contract is a revision number with a state, in `ContractReview` a number of
decisions with digests, in `Proposal` a mapping per slot. `TreeOfThought` opens up
the one action `SearchDone` of `Coordinator`.

| Module | Models | Correspondence |
|---|---|---|
| `SingleFlight` | what a user of the job API relies on | `active` is the job in flight, `finished` the jobs that have ended |
| `JobStore` | `JobRegistry`, `Job`, `dispatch_job`, `_execute_job` | `jobs` is the `OrderedDict`'s keys, `job` the `Job` objects, `runningJobId` and `lock` the fields of those names, `worker` where each job's thread is |
| `JobRegistry` | the same with the requests that submit and read jobs | `reader` is what a request thread has read of a job, field by field |
| `Coordinator` | `run`, `replan`, the dispatches, `submit_constraint` for asset and capacity constraints, the two handlers around them | `state` holds the `RunState` of the current plan and of one under construction; `done`/`failed` are the key sets of its dicts, `applied` each recommendation's `constraints_applied`; `log` the last calls in its `risk_call_log`; `constraint` is the table; `called` (no field of the code) are the findings the scoring tool was called for in this re-plan; `phase`, `stage`, `target`, `queue`, `completed` are where the thread is |
| `PlanSubstrate` | the five handlers over plan, contracts, tables, export; `rhino adapt`; restart | `task[j]` holds the local variables of job j's handler, `plan` is `PlanState`, `contract`, `provenance`, `marked`, `export` are on disk and survive `Restart`; `written` and `signed` number revisions and remember signatures |
| `RoutePlan` | approval, editing and polling of a Router plan's steps | `step` is the list of `RouteStep`s, `request` and `poll` the threads, `origin` which step dispatched a job |
| `GroupConstraint` | preview and confirmation of a group constraint, the deterministic run with its `ConstraintAccumulator` | `pending` and `rows` are the two tables, `proc[p]` a command's local variables with the inventory it loaded, `run` the loop of `run_with_report` and the accumulator's caches and records, `fleet` the source files |
| `ScoringRules` | `scoring.py`, `fold_constraints` | one operator per function or step of it; tables are records |
| `Triage` | what a run or a capacity submission computes from the inventory, the signals and the two tables of constraints, and who changes those | `facts` and `host` are the source files, `threat` the signals a run attaches, `own` and `group` the tables with their retracted rows; `Scored` is the plan of `rhino run --apply-constraints`, `Pooled` what a capacity submission ranks |
| `Uploads` | the upload and label routes, the registry, `_write_upload` | `sets`, `files`, `cached` are the registry and the idempotency cache; `dirs`, `part`, `final`, `content` are the file system with its inodes; `request[r]` is a request between two `await`s |
| `Proposal` | `propose_contract`, the assemblies, `ingest_propose`, the page's slot form, `rhino adapt propose` | `saved` is `out/propose_<name>.json`, `form` a loaded page, `worker[w]` a program's attempts, `contract` the written file; `Strict` and `Provisional` are the two assemblies as pure operators |
| `ContractReview` | `write_contract`, `overwrite_contract`, `review_contract`, `confirm_contract`, `assert_confirmed`, hand edits | `file` is the contract, `signer[s]` a reviewer's copy between reading and writing, `Measured`, `Candidate`, `Signable`, `Complete`, `Stamped` the steps of a review; `Required` and `Subject` are the five attestation items |
| `SourceLoading` | `ConfiguredAdapter`'s grouping, judging and streaming, `load_batch` | `resolved` and `seen` are the grouping's dicts, `findings` the file, `position` the streaming pass, `excluded`, `collapsed` the stats, `scored` what the scorer got |
| `TreeOfThought` | `run_tree_of_thought` and the loop over contested findings | `asked` and `answers` are the batch at work, `beam`, `refined`, `depth` the locals, `meter` and `baseline` the usage counters |
| `GroupConstraint_proofs`, `Triage_proofs`, `SourceLoading_proofs`, `Uploads_proofs`, `PlanSubstrate_proofs` | | theorems about the module of that name |
| `JobRegistry_proofs` | | theorems about `JobRegistry`, and about `RoutePlan`, which runs on it |
| `Coordinator_proofs` | | theorems about `Coordinator`, and about `TreeOfThought`, the search inside it |
| `ContractReview_proofs` | | theorems about `ContractReview`, and about `Proposal`, where its contracts come from |
| `MC_*` | | values for the constants |

Granularity. An action is what a thread does between two points where another
thread or process can act on the same data. `create_and_start`, `get` and
`claim_step` hold a lock throughout and are one action. `finish` writes the fields of
a job one by one while an unlocked `to_dict` reads them one by one, so each field is an
action on either side. `edit_step` and the rollback in `approve_step` test, then write:
two actions. A handler is cut at each access to the plan, a contract file, a
table or the export. A database method is one transaction, hence one action. An
upload is cut at each chunk, at the rename and at each later update of the registry.
A review or a proposal is one action to read and one to write. An answer of a model
and the test of it are one action; the repairs of an assembly follow one another
without anybody between them and are one operator.

Abstractions. Agents' answers are a choice: accepted, retried, given up. A
digest is the value it is the digest of. In `ContractReview` a contract is the
recipe of `finding.finding_id`, one value for all other decisions (which says whether
there are union fields and an enrichment block), the number of excluded records, the
slots that `mapping_confidence` doubts and the attestations. In `Proposal` a mapping is a value named for
what the checks say of it (legal and grounded in part or in full, ungrounded,
illegal, misfit) and a slot reads at most one column. In `SourceLoading` a row is
what mapping it came to, and `Compared` is the part of it that
`finding_dedup.content_targets` names; in `Uploads` a file is who wrote each chunk; in
`TreeOfThought` a score is the aggregate of the critic's axes, a text the round it
was written in, a task costs one unit. In `PlanSubstrate` a contract's content is a
fresh revision number. A constraint is a model value with a set of findings in
scope, a group constraint a value of the one field `role`; `ContestedUnder` says for which sets of folded constraints a finding is
contested (any function may be given). Orders over findings are sets. Text,
layout, logging and clocks are left out. `ScoringRules` computes in fixed point:
weights and probabilities are thousandths, CVSS scores tenths, and a product is
rounded down to a thousandth of its maximum where the code has a float. So a
score here is at most the code's percentage and, over 300,000 random inputs of
the two formulas, never more than 0.3 below it; no property depends on
the last digit, and ties are more frequent than in the code. Of the list of
compensating controls only its length is kept. The export's decomposition of a
score is left out of `Coordinator`.

Things a reader might not expect, all from the code:

- `constraint_submit` with no current plan first runs the whole pipeline
  (`seed`): in `Coordinator` it starts with `StartRun` and continues at
  `interpreting` after `Commit`; in `PlanSubstrate` it goes through `loading`.
- `replan` works on the `RunState` of the current plan in place, `run` on a new
  one that `Commit` installs last. So `Raise` drops a run and leaves a re-plan
  as far as it got.
- In `_resolve_provisional` an unsigned contract is read once; in the other
  branch the contract is read by `resolve_source_ref` and again by
  `load_config_adapter`, so `ResolveSource` and `Load` are two actions.
- A re-run of the current plan (`__current_plan__`) loads the contract anew and
  is refused if it is no longer signed.
- A capacity submission calls `attach_threat_signals` for every finding
  (`coordinator.py` 1359); a run calls `attach_source_enrichment` instead for a
  source that enriches its findings (`cli.py` 432). `Pooled` and `Scored` differ
  for such a source, hence the two definitions.
- `authored_by` in a saved proposal is recomputed by the server against the file as
  it is at that moment (`jobs.py` 975), so a stale form can make a human's mapping
  pass for a model's. `Proposal` keeps who the file says (`by`) apart from who really
  chose it (`chosen`, no field of the file).
- A re-proposal over a confirmed contract starts without a signature, so neither its
  claims nor the freeze of the `finding_id` recipe survive it (`StartPropose`,
  `WriteProposal`); an attestation of exclusions is carried over whatever their count.
- `ConfiguredAdapter` reads the findings twice. `JudgeFindings` is the first pass as
  one action: nobody sees a part of it. A row that repeats the chosen asset row does
  not advance its order, so a row between the two wins (`Newer`).
- Nothing makes an agent call its scoring tool: its task asks for it, and
  `verify_scoring_matches_tool` compares an answer with the last call in
  `risk_call_log`, which lives as long as the `RunState` (`risk.py` 401-411). So
  `CallTools` may leave the log alone, and `Accept` takes an answer that agrees with
  a call of an earlier dispatch (`Agreed`). A retry asks again in the same log.
- An attestation of `low_confidence_mappings` is about the mappings and about which of
  them are doubted; the latter, `mapping_confidence`, is outside the decisions
  (`Subject`). The files committed under `data/adapters` start signed, with or without
  `slot_digests` (`Init` allows both; the comment at `review.py` 705-706 knows only
  contracts without).
- An upload into a set with a label that is refused leaves the set, new and empty,
  behind (`PostNew`).
- In `JobStore.FinishStatus` a job that is not in the history makes `finish`
  return without freeing the slot. `RunningJobIsRetained` shows that it never
  happens.

## 3. Runs

Every run is checked by TLC with the bounds below. "History" is
`MAX_JOB_HISTORY`, made small so that eviction happens. Each module states its
type invariant (`TypeOK`, in three modules with a prefix). It is a theorem for nine of
the eleven (section 4; `PlanSubstrate` and `Uploads` prove the part that their other
theorems need), and no run is spent on it.

| Run | Bounds | Shows |
|---|---|---|
| `JobRegistry` | 3 jobs, 1 reader, 1 stage, history 2, 4 fields of an outcome (`finished_at`, which every `finish` sets, is not told apart) | `SlotIsLiveWorker`, `RunningJobIsRetained`, `ResponseOutcomeIsTheJobs`, `SlotIsEventuallyFreed`, `ImplementsSingleFlight` (refinement) |
| `Coordinator` | 2 findings on two assets, 2 constraints on the first, 2 jobs | `EveryTargetIsAccounted`, `EvidenceIsThere`, `ReplanIsFresh`, `PlanIsReplacedWhole`, `EveryJobEnds` |
| `PlanSubstrate` | 3 jobs, history 1, 2 uploads with one finding and a native source, 2 contract revisions, 1 outside process | `UnsignedIsNeverPassedOff`, `ProvenancePrecedesExport`, `ShownFindingIsGated` |
| `RoutePlan` | a job-backed step, then a synchronous one; 2 jobs, history 1, 2 requests of which one also edits (no edit begins once a step was edited), 2 pollers | `StepsRunInOrder`, `OneExecutionPerStep`, `SuccessIsTheJobs`, `StepSettles` |
| `GroupConstraint` | 2 assets, 3 findings, 2 roles, 1 token, 1 process | `ConfirmedIsReviewed`, `OpenTokenHasNoRow`, `RunReportsWhatItFolded` |
| `Triage` | 2 assets, 3 findings, 2 inventories, 2 constraints with 7 effects to choose from, 2 host names | `PlaceholdersMoveNothing`, `CapacityIsSpentFromTheTop`, `ConstraintsOnlyHelp`, `KevListingEscalates`, `AssetRuleShields` |
| `Proposal` | 3 slots, 4 columns, 2 attempts, 3 proposals | `HumanMappingIsKept`, `FabricatedValueIsNeutralized`, `WrittenContractIsWhole`, `ProvisionalExtendsStrict` |
| `ContractReview` | 2 recipes, both a content address; 2 regions, both with union fields, one with an enrichment block; doubted slots or none; 2 reviewers, 1 proposer, 2 versions, 1 edit by hand, a review may start while at most one content was signed; symmetry | `IngestedIsSigned`, `ClaimsAreAboutWhatIsSigned`, `RekeyingIsDeclared` |
| `TreeOfThought` | 3 strategies, beam 2, depth 3, 2 attempts, scores 0 to 2 with a margin of 2, 2 contested findings | `SpendIsRecorded`, `CritiqueIsItsOwn`, `VerdictIsEarned` |
| `SourceLoading` | up to 3 asset rows and 2 finding rows, 2 assets, orders 0 to 3, 3 identities of which two share a cut id, 2 severities that are compared and 2 pieces of evidence that are not | `NeverTorn`, `NothingIsLost`, `GroupingKeepsWhatRowsSay` |
| `Uploads` | 2 sets with a registry of 1, 3 names, 3 requests, 2 files a set, 2 chunks a file, 1 idempotency key; symmetry | `WholeFileOrNone`, `SetIsOneSource` |
| `VanishedFinding` | as `Coordinator` | counterexample to `NoFindingVanishes` |

Why the bounds are enough. Registry: two jobs are needed for a race for the
slot, three to evict one while another runs; one
reader is enough, for readers do not see one another (1.4 million states). Coordinator: two jobs give every
pair of a run and a re-plan; two findings give one that fails while the other
succeeds; two constraints on one finding give one folded in before and one after, and
a log whose last call is of the run or of an earlier re-plan. The first finding is
contested under no constraint and under both, so it leaves the bucket and enters it
(one million states). PlanSubstrate: propose, run and mark are three
jobs; two uploads share a finding, so that a finding can be provisional under
two formats of which one is signed; two revisions let a signed contract be
replaced; one outside process holds a proposal or a review open while
the server works. Routes: two requests meet in one step, one of them with an edit
whose test is stale; with a history of one, a posted job evicts a step's job before
a poll; two pollers overlap on one step, and one of them may be overtaken by an edit
and a second attempt (800,000 states). Groups: a third finding returns to the first asset, so that the
accumulator's caches are used; one token is previewed, confirmed, aborted and
retried; a second process multiplies the states beyond reach of a run and is left to
the proofs, which hold for any number. Triage: two constraints (`MaxRows`) are one
of the asset and one of its group in either order, or two of one kind; the first
asset is either a native server with two controls or a record without role,
environment and sensitivity, the second lacks one field; the values were chosen so
that every bucket occurs and findings cross thresholds; one window is blank, the exception
that `ConstraintsOnlyHelp` names. Proposal: one slot with a
placeholder of its own, one that may be not collected, one with none (a hard stop),
and a column that only the grouping reads; three proposals give an original, an edit
and a rewrite below an open form. ContractReview: two reviewers overlap each other
and a proposal; a second version and a second signature are what a carried claim
needs; with two regions that both require a claim and two recipes that both do, a claim
about one can stand where one about the other belongs (2.2 million states, three minutes;
a second edit by hand, among them the deletion of evidence after a change of recipe, is
beyond a run); the proofs drop all these bounds. TreeOfThought: a beam smaller than the
strategies prunes, a third round refines what was refined, and two searches share
the meters (20 million states, two to four minutes). SourceLoading: three rows of one asset are the shortest file in which a
row between two equal ones wins; two finding rows are every pair of rows, also pairs
that differ in their evidence or their asset only, which the content targets leave out as
those of `data/adapters/mdvm-gen.json` do; the proofs are for files of any length and any
choice of targets. Uploads: two requests for one name share the
`.part` file while a third takes a file's place or evicts the set.

Deadlock is checked in the runs of the registry and of group constraints. In the
others the model really stops: `MaxJobs`, the set of job or request ids,
`MaxRevisions`, `MaxVersion`, `MaxRows` are bounds that end a behaviour when used
up, and a plan whose steps are over, a load that is done and a run whose contested
findings have all been searched have nothing left to do.

`VanishedFinding` ends in a counterexample. `agents/coordinator.py` 83 says that a
failed finding "is recorded and skipped"; a re-plan in which the kickoff of a retry
raises leaves findings with neither result nor failure ("findings" in `PROJECT.json`
quotes it).

The models contain further behaviour in which the code does less than, or something else
than, a comment or a document beside it says. It is kept as it is, and the properties say
what holds all the same:

| Behaviour | Where | What holds with it |
|---|---|---|
| a response is torn in any field of an outcome, because `get_job` renders the job outside the lock, against the docstring at 253-254 ("no per-field atomicity assumptions") | `web/jobs.py` 227 and 294, `JobRegistry` | `ResponseOutcomeIsTheJobs`: what a response carries is final and of the right kind; one begun after the end of `finish` is whole |
| an agent that repeats an earlier score without calling its tool is believed, against the task ("exactly once", 340), the docstring at 389-390 ("a real check, not a hope") and what the old results are dropped for (`coordinator.py` 1582-1591) | `agents/risk.py` 401-411, `Coordinator` | `ReplanIsFresh` of every finding the tool was called for in the re-plan |
| a default is not read as a native value: its axis is dropped and the other weights are scaled up, against `schema.py` 57-62 ("which scoring reads exactly as it would a native record") and `adapters/base.py` 87-100 ("shifts every finding's Impact by the same constant rather than reordering them") | `scoring.py` 304-380, `ScoringRules` | `PlaceholdersMoveNothing`, which states what `scoring.py` says and does, so the opposite of the other two |
| an attestation of low-confidence mappings is carried although other slots are doubted by now, against the docstring at 548-549 ("survives only while that region is provably unmoved") | `adapters/review.py` 585-587, `ContractReview` | `ClaimsAreAboutWhatIsSigned`: it is about the mapping that is signed |
| deleting the record of the signature from a contract by hand switches the identity freeze off and lets every claim stand | `adapters/review.py` 534 and 577 | not modelled: such a file is one that nobody signed, and `IngestedIsSigned` keeps it out |
| a finding row that repeats another's identity and content targets but says something else beyond them is dropped as a duplicate without a word, against the docstring at 940 ("the same finding re-observed") | `adapters/configured.py` 973-997, `SourceLoading` | `NothingIsLost`: an earlier row that agrees in identity and content targets is scored |
| a finding that a re-plan takes out of the contested bucket keeps its old search result, against the comment at 262-264 | `agents/coordinator.py` 1640, `Coordinator` | `ReplanIsFresh` is about scores only |
| an edit lands on a step another request has claimed, against the docstring at 251 | `web/route.py` 237, `RoutePlan.WriteEdit` | the step invariants, unless `overrun` records such an edit |
| a poll writes the status of an earlier attempt's job over a step that was edited and claimed again | `web/route.py` 325-342, `RoutePlan.CopyStatus` | the same, unless `overrun` records such a poll |
| a window of nothing but blanks is usable and counts as no window, so it hides the one it replaces | `constraint_apply.py` 235, `schema.py` 99, `Triage` | `ConstraintsOnlyHelp`: no other constraint takes a finding out of its bucket to a search |
| a proposal begun before a contract was signed replaces it unasked, against `docs/demo-corpwide.md` 41 | `web/jobs.py` 956, `PlanSubstrate`, `ContractReview` | `UnsignedIsNeverPassedOff`, `IngestedIsSigned`: an unsigned contract is not ingested as a signed one |
| two processes that confirm one token both add the constraint, against `memory.py` 1142-1145 | `agents/coordinator.py` 1180, `GroupConstraint` | `ConfirmedIsReviewed`: both rows are what a human reviewed |
| two uploads of one name stream into one `.part` file, against the docstring at 18-19 | `web/uploads.py` 281, `Uploads` | `WholeFileOrNone`, unless `overlapped` records the two |
| two overlapping uploads make a third file of a set of two; two requests with one idempotency key make two sets | `web/uploads.py` 325-351, `Uploads` | `SetIsOneSource` names the overlap as the only cause |
| an older row of an asset wins over a newer one, against `adapters/defender.py` 265-267 | `adapters/configured.py` 782, `SourceLoading.Newer` | `GroupingKeepsWhatRowsSay`, if no row repeats the newest one's values |
| a finding that shares its cut id with one of an excluded asset is reported as excluded | `adapters/configured.py` 927, `SourceLoading` | `NothingIsLost`: it is reported |
| a stale form silently replaces another human's later edit; the command line writes the saved proposal in place and can tear it | `web/jobs.py` 975, `cli.py` 2979, `Proposal` | `HumanMappingIsKept` of the form that is submitted, `WrittenContractIsWhole` |
| a kickoff that raises anything but `ToTDispatchError` loses the usage of its search | `tot.py` 626, `TreeOfThought` | `SpendIsRecorded` of every other ending |

### Fairness

- `JobRegistry`: a dispatched thread starts; a handler returns or raises in the
  end (the handlers' loops are bounded; a model call has a time limit); `finish`
  runs through. Submissions are not fair.
- `Coordinator`: weak fairness of the worker thread's steps as one action: the
  thread goes on, it does not favour a step. `Retry` is not among them:
  `max_parse_attempts` bounds the retries, so answers are accepted or given up. `Raise`, submissions and retractions are not fair.
- `RoutePlan`: request threads and job threads go on, and the page polls while a
  step is running (`app.js` does). Without polls a step stays as it is.
- The other modules state no fairness: a command may be abandoned, a client may stop
  sending, a human may never sign. Their properties are about what has happened.

## 4. Proofs

`JobRegistry_proofs` proves, for every set of jobs and readers and every history
size of at least one (`HistoryAssumption`; the constant in the code is 50) and
for an id that is no job (`IdAssumption`):

| Theorem | States |
|---|---|
| `TypeCorrect` | `Spec => []TypeOK` |
| `SingleRunningJob` | `Spec => []SlotIsLiveWorker` |
| `RunningJobNeverEvicted` | `Spec => []RunningJobIsRetained` |
| `OutcomeFinality` | `Spec => RecordedOutcomeIsFinal` |
| `ResponsesStayTrue` | `Spec => []ResponseOutcomeIsTheJobs` |
| `RegistryIsSingleFlight` | `Spec => Abstract!Safety` |

The argument. `SlotIsLiveWorker` is not inductive by itself. The inductive
invariant `IInv` adds to it and to `TypeOK`: who holds the lock (the thread in
`finish`, exactly), that a job in the history has a thread or had one, and how far a job's
record has come for each place of the thread (`RecordFollowsWorker`): the fields that
hold a value are among the first `assigned` ones, and they are those of one outcome.
Eviction keeps a suffix of at least one entry, so it keeps the job just inserted.
`InductiveInvariant` proves `IInv` with one step per action; the other theorems follow.
`ResponsesStayTrue` has an invariant `ReadersInv` of its own on top of it: a status that a
reader copied is "running" or final, each field it copied is still the job's, and a reader
who found the job after its `finish` has read all that the fields so far hold. It is
proved for any order in which `finish` assigns the fields (`Fields`). `RegistryIsSingleFlight` is the
safety part of the refinement: under `IInv` a start is a `Begin` of `SingleFlight`, the
release of the slot an `End`, and every other step a stutter.

The same module, which extends `RoutePlan` too, proves for every plan and every number
of requests, editors, pollers and edits (`PlanAssumption`):

| Theorem | States |
|---|---|
| `RoutePlanInvariant` | `PlanSpec => []PlanInv` |
| `PlanTypeCorrect` | `PlanSpec => []PlanTypeOK` |
| `RoutePlanIsSingleFlight` | `PlanSpec => Abstract!Safety` |
| `StepsRunInTheirOrder` | `PlanSpec => []StepsRunInOrder` |
| `StepsExecuteOnce` | `PlanSpec => []OneExecutionPerStep` |
| `ReportedSuccessIsReal` | `PlanSpec => []SuccessIsTheJobs` |

`PlanInv` contains what `IInv` says of the registry: a step of a plan is either no
step of the registry or one of its actions, so the lemmas of the first half carry
over. `StoreStepIsSingleFlight` among them maps a step of the store to one of
`SingleFlight` whoever takes it, and gives `RoutePlan` the refinement that
`JobRegistry` has, with dispatches from plan steps and jobs posted beside them. What
it adds ties four places together: a request between its claim and the link of its job
is the only one of its step, and the step reads "running" without a job
(`ClaimantIsAlone`); a job that is still handled belongs to the step that waits for it
(`LiveJobIsAwaited`); whoever refers to a job refers to one created for that step
(`PlanReferences`); and a success is that of a job that has ended (`SuccessIsFinal`).
All but the references hold until `overrun` records a write over a step that moved on
after it was tested.

`Coordinator_proofs`, for every set of findings and constraints, every scope
(`ScopeAssumption`), every rule of what is contested (`ContestedAssumption`) and
every number of jobs:

| Theorem | States |
|---|---|
| `TypeCorrect` | `Spec => []TypeOK` |
| `NoTargetIsLost` | `Spec => []EveryTargetIsAccounted` |
| `NoRecommendationWithoutEvidence` | `Spec => []EvidenceIsThere` |
| `NoStaleScoreAfterReplan` | `Spec => []ReplanIsFresh` |
| `PlanReplacedWhole` | `Spec => PlanIsReplacedWhole` |

The properties speak of the end of a dispatch; the invariant must say what holds
in the middle of a stage. `PhaseShape` relates phase, target and queue;
`Accounting` says that each target has a result, a failure or a task to come;
`Evidence` says the same of what Risk has done and will do; `Freshness` says that
once Risk called the tool for a finding in this re-plan (`called`), the last entry of its
call log has the submitted constraint folded in, because that was stored before the
re-plan started, and so has every score that is accepted after it; of a finding that no
agent called the tool for it says nothing. The
proof has one lemma per action; `WriteWork` and `KeepWork` state once what a
stage does to the two run states.

The same module extends `TreeOfThought` and proves of the search, for any strategies,
scores, margin, beam width, depth, attempts and number of contested findings
(`BoundAssumption`):

| Theorem | States |
|---|---|
| `SearchInvariant` | `SearchSpec => []SearchInv` |
| `SearchTypeCorrect` | `SearchSpec => []SearchTypeOK` |
| `SpendIsAlwaysRecorded` | `SearchSpec => []SpendIsRecorded` |
| `CritiqueStaysWithItsThought` | `SearchSpec => []CritiqueIsItsOwn` |
| `VerdictIsAlwaysEarned` | `SearchSpec => []VerdictIsEarned` |

`SearchInv` says of every phase what its batch is about (`BatchIsTheRounds`: the answers
so far answer the first thoughts asked, and the thoughts asked are the active ones of
the beam or of the refinements, in order) and that the trackers are even with the meters
between two kickoffs (`BooksAreEven`). The work is in the lists. A sorted list and a
filtered one are defined by counting positions (`Rank`, `Nth`, `NotBehind`), and that
the n-th position exists follows from the pigeonhole principle (`EveryNumberIsTaken`:
an injection of n things into 1..n takes every value) where one would expect an
induction. So the k-th answer is found at the rank of the thought it answers, and the
first two of a sorted beam decide whether any two of it are close. `SearchTypeCorrect`
adds what no property needs: that the loop visits each finding once, and that the lists
keep their types after a kickoff that raised, of which `SearchInv` says nothing.

`GroupConstraint_proofs`, for every fleet, every stream of findings
(`AssetAssumption`), every set of roles without the placeholder
(`RoleAssumption`), tokens and processes:

| Theorem | States |
|---|---|
| `TypeCorrect` | `Spec => []TypeOK` |
| `OnlyReviewedIsConfirmed` | `Spec => []ConfirmedIsReviewed` |
| `OpenTokensAreUnapplied` | `Spec => []OpenTokenHasNoRow` |
| `ReportsAreExact` | `Spec => []RunReportsWhatItFolded` |

A process past its check holds a token whose preview matches the inventory it
loaded; previews are never rewritten, only spent (`ProcessHoldsPreview`,
`TokensAreSpent`). `ReportsAreExact` needs that rows are only appended or marked,
that the cached rows do not change once a finding is scored, and that the match
of an asset depends on the run's own inventory alone.

`Triage_proofs`, for every fleet, inventory, set of possible signals, effects and
number of constraints (`AssetOfAssumption`, `InventoryAssumption`,
`SignalAssumption`, `HostAssumption` say no more than the types of the schema,
`EffectAssumption` that a number of controls is a natural number, zero included):

| Theorem | States |
|---|---|
| `TypeCorrect` | `Spec => []TypeOK` |
| `PlaceholdersAreInert` | `Spec => []PlaceholdersMoveNothing` |
| `KevListingRaises` | `Spec => KevListingEscalates` |
| `AssetRulesShield` | `Spec => AssetRuleShields` |
| `NewConstraintsOnlyHelp` | `Spec => ConstraintsOnlyHelp` |
| `CapacityKeepsTheTopRanked` | `Spec => []CapacityKeepsTheTop` |
| `CapacitySpentFromTheTop` | `Spec => []CapacityIsSpentFromTheTop` |

Here `TablesOK` is inductive as it stands, and the work is in lemmas about the
operators. A composite over any set of left-out axes stays on its scale because a
sum of n contributions is at most n times the maximum. A placeholder is followed
through each operator: it drops out of the sum (`PlaceholderInComposite`), the
overlay leaves it alone (`PlaceholderInFold`) and it matches no group
(`PlaceholderInMatch`). A listing raises the likelihood, and each product and
rounded quotient of the formula is monotone. A limit keeps the top because
the findings above a finding are a proper superset of those above whoever
outranks it, which is a statement about cardinalities of finite sets; so the ranks of n
findings are n different numbers in 1..n, every one of them is taken
(`EveryRankIsTaken`, the pigeonhole principle again), and a limit below n is filled to
the last slot (`TopIsCounted`). A new constraint extends the effects that apply to an
asset (`Extended`): entries of the list of controls are pairs of a constraint and a
position, so more constraints have at least as many (`AddedGrows`), and the formula is
monotone in them (`ControlsLowerRisk`). The proof needs the exception that the property
makes for a blank window: without it the claim is false, and a run that allows blank
windows finds the counterexample.

`ContractReview_proofs`, for every set of recipes and regions (`DecisionAssumption`:
`None` and "missing" are no mappings), any number of reviewers and proposers,
versions and edits (`BoundAssumption`):

| Theorem | States |
|---|---|
| `TypeCorrect` | `Spec => []TypeOK` |
| `OnlySignedIsIngested` | `Spec => []IngestedIsSigned` |
| `ClaimsFollowDecisions` | `Spec => []ClaimsAreAboutWhatIsSigned` |
| `RekeyingIsSignalled` | `Spec => []RekeyingIsDeclared` |

The properties are about what gets signed, but a claim and the evidence of a recipe
live in the file between two signatures. `Descends` says what a revision that is not
signed yet still knows of the last signature: its attestations and its `slot` entry
are about the decisions its review records, whatever it maps by now; a claim of
low-confidence mappings is about the same mapping, whichever slots it doubted
(`AboutMapping`). It holds of the file and of every reviewer's copy (`FileDescends`, `ReviewsDescend`), a hand edit
keeps it because it does not touch both sides, and it gives `WritersAreReady`: what a
reviewer is about to write is attested, and declared if it re-keys.

The same module extends `Proposal` and proves of it, for any slots, columns, mappings
and numbers of attempts and proposals (`SlotAssumption`, `ColumnAssumption`,
`AttemptAssumption`, each only where it is needed):

| Theorem | States |
|---|---|
| `ProposalInvariant` | `ProposalSpec => []ProposalInv` |
| `ProposalTypeCorrect` | `ProposalSpec => []ProposalTypeOK` |
| `HumansMappingIsKept` | `ProposalSpec => []HumanMappingIsKept` |
| `FabricatedValuesAreNeutral` | `ProposalSpec => []FabricatedValueIsNeutralized` |
| `WrittenContractsAreWhole` | `ProposalSpec => []WrittenContractIsWhole` |
| `ProvisionalOnlyFills` | `ProposalSpec => []ProvisionalExtendsStrict` |

`ProposalInv` traces every copy of a proposal, on disk, in a page or in a program: a slot
is mapped exactly if somebody chose its mapping (`Chosen`), what a model or the registry
chose was offered (`Offered`), and a human's mapping that nobody else ever offered has
the human as its author, however stale the form was (`Traced`). The rest is about the
two assemblies as functions: `StrictIsWhole` and `ProvisionalIsWhole` say what comes out
of the repairs for any proposal, and the contract is one of the two outcomes
(`ContractIsAssembled`). `ProvisionalOnlyFills` holds of any file whatever.

`SourceLoading_proofs`, for files of any length, any assets, orders and identities,
any way of cutting an identity to an id (`ShortId`) and any choice of what is compared of
two rows (`Compared`; assumptions
`BoundAssumption`, `ControlAssumption`):

| Theorem | States |
|---|---|
| `TypeCorrect` | `Spec => []TypeOK` |
| `SecondPassNeverRaises` | `Spec => []NeverTorn` |
| `EveryRowIsAccountedFor` | `Spec => []NothingIsLost` |
| `GroupingLosesNothing` | `Spec => []GroupingKeepsWhatRowsSay` |

`ChosenIsLatest` and `ChosenIsUndisputed` say of the row an asset is taken from what
it has in common with every row read so far. `FileIsJudged` holds what the first pass
established of every pair of rows, and `ScoredIsJudged` that each scored row is one
of the file's before `position` and that each row before it is excluded, or scored, or
repeats one that is (`Stands`): so whatever would make the consumer raise would have
been seen by the first pass.

`Uploads_proofs`, for any number of requests, sets, names, files and chunks:

| Theorem | States |
|---|---|
| `NobodySeesHalfAFile` | `Spec => []WholeFileOrNone` |
| `LabelsStandForTheirFiles` | `Spec => []SetIsOneSource` |

The first argument is about inodes: one stands under one name at most (`OneHome`), never as
`.part` and as the file at once (`PartIsNotFinal`), a request that writes nothing owns
none, and a request alone with its name writes the `.part` file that is there
(`WriterHoldsPart`), which it therefore renames only when each chunk is its own.
The second, `SInv`, rests on the first: content under a name changes only by a rename
or by an overlap, and the one who renamed is still to record the file and take its
label (`LabelsFitTheirFiles`); and while nothing overlapped in a set, at most one
upload is under way in it and there is room for its file (`QuietSetsHaveRoom`).

`PlanSubstrate_proofs`, for any number of jobs, uploads, findings, outside processes
and revisions (`SourceAssumption`, `FindingsAssumption`, `RevisionAssumption`,
`NoPlanAssumption`):

| Theorem | States |
|---|---|
| `PlansAndExportsAreSigned` | `Spec => []UnsignedIsNeverPassedOff` |
| `GuardIsOnDiskFirst` | `Spec => []ProvenancePrecedesExport` |
| `MarksPassTheGate` | `Spec => ShownFindingIsGated` |

`TaskOK` says of each handler's local variables what it has established by the point
it is at: from `running` on, a run that is not provisional has a signed revision; at
`exporting`, a provisional one has its provenance recorded. Other processes write the
disk at any moment, but signatures and provenance are only ever added (`Grows`), so
what was established stays true (`TaskOKIsStable`). The proof does not use that one
job runs at a time: these promises do not hang on the single slot.

`RoutePlan`, `Proposal` and `TreeOfThought` are proved about in the proof module of the
component they belong to. That module extends both, so their specifications have names
of their own (`PlanSpec`, `ProposalSpec`, `SearchSpec`); a theorem about one says
nothing of the variables of the other.

Only model-checked are the liveness properties under fairness
(`SlotIsEventuallyFreed`, `EveryJobEnds`, `StepSettles`) and the liveness part of
`ImplementsSingleFlight`: the prover does not handle ENABLED. Every other property of
a passing run is a theorem. Where an argument would need induction over data (a sorted
list, a sum over a table), the definition was written by counting, and the proofs rest on
the pigeonhole principle and on facts about cardinalities; what is not proved is that
`Ranked` and `StillActive` agree with Python's `sorted` and list comprehensions, which is
how they were translated.

## 5. Not modelled

The components with status `not_modelled` in `PROJECT.json` are model calls whose
outcome is a choice here (router, chat, constraint intake), text helpers without
state, vector retrieval, and the network fetches with their file cache. Of the
components with status `partly` the notes there say what is left out: prompts and
their parsing, the mapping of a single cell, the profiler, layout of the export and
of the pages, the tables of past runs, the classification of remediation
transitions. Inside the modelled parts: `PlanState`'s four fields are committed
in one step; a thread always starts; the store of proposed Router plans is left
out; an agent is taken to call its scoring tool for the finding of its own task only; a
signature's record is not deleted by hand; the native adapter's loading, which reads
a file once and may raise in the middle of a batch, is not `SourceLoading`'s; a source file
does not change between the two passes over it. Hazards that no property covers are
listed with the reason in `PROJECT.json`.

## 6. Plan

In this order:

1. `PlanSubstrate` as an implementation of what `ContractReview` promises of one
   format, so that the composition from hand edit to export is one statement.
2. The type invariants of `PlanSubstrate` and `Uploads`, of which the inductive
   invariants contain only what the properties need; and that at most one handler of
   `PlanSubstrate` is under way, over restarts, from the lemmas about the store.
3. Remediation transitions, the store of Router plans, the snapshot cache's
   versioned writes.
