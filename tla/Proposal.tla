------------------------------ MODULE Proposal ------------------------------
(***************************************************************************)
(* How a contract is proposed for a source: a model maps the slots of the  *)
(* schema to the source's columns, a human corrects the saved proposal,    *)
(* and what is left is filled with placeholders or refused                 *)
(* (agents/schema_inference.py, the grammar of adapters/config_model.py,   *)
(* the aliases of adapters/schema_registry.py, the ingest_propose job of   *)
(* web/jobs.py, the form of web/adapters.py and `rhino adapt propose`).    *)
(*                                                                         *)
(* Of a mapping the model keeps what the checks tell apart, of a column    *)
(* that it is read, of a file profile which slots the registry covers.     *)
(* Two programs share out/propose_<name>.json and the contract: the server *)
(* (one ingest_propose job at a time) and the command line.                *)
(***************************************************************************)
EXTENDS Naturals

CONSTANTS
  Slots,           \* the target slots, asset.* and finding.*
  Role,            \* asset.role, which has no not_collected encoding
  HardStop,        \* _PROVISIONAL_HARD_STOP_TARGETS
  GapLegal,        \* GAP_LEGAL_TARGETS
  AbsentLegal,     \* ABSENT_FACT_LEGAL_TARGETS
  Axes,            \* IMPACT_AXIS_TARGETS and THREAT_AXIS_TARGETS
  RegistryBacked,  \* REGISTRY_BACKED_TARGETS
  Covered,         \* slots with one candidate column whose values are all aliases
  Columns,         \* the header of the source
  ColumnOf,        \* the column a mapping of a slot reads
  Structural,      \* asset_grouping's key and order_by columns
  Mappable,        \* what a model may answer for each slot
  Editable,        \* what a human may write for each slot
  Dispositions,    \* the unmapped_columns a model may list
  MaxAttempts,     \* max_attempts of propose_contract
  MaxJobs          \* bound: proposals made

\* What a check says of a mapping is part of its name.
IllegalValues == {"verbatim"}                 \* ... of the column, copied as they are
Ungrounded == {"invented"} \cup IllegalValues  \* check_grounding fails it
Illegal == {"gap_blank", "verbatim"}          \* check_slot_mapping_legality refuses it
Misfit == {"misfit"}                          \* only validate_contract refuses it
Unread == {"literal", "not_collected", "absent", "misfit"}    \* names no column of its own
Mappings == {"partial", "full"} \cup Ungrounded \cup Illegal \cup Misfit \cup Unread

ASSUME SlotAssumption ==
  /\ Role \in Slots /\ Axes \subseteq Slots /\ Role \in Axes
  /\ HardStop \subseteq Slots \ {Role} /\ GapLegal \subseteq Slots \ ({Role} \cup HardStop)
  /\ AbsentLegal \subseteq Slots \ (GapLegal \cup HardStop \cup Axes)
  /\ Slots = HardStop \cup GapLegal \cup AbsentLegal \cup {Role}
  /\ RegistryBacked \subseteq Slots /\ Covered \subseteq RegistryBacked
ASSUME ColumnAssumption ==
  /\ ColumnOf \in [Slots -> Columns] /\ Structural \subseteq Columns
  /\ Dispositions \subseteq SUBSET Columns
  /\ Mappable \in [Slots -> SUBSET (Mappings \cup {"unresolved"})]
  /\ Editable \in [Slots -> SUBSET Mappings]
ASSUME AttemptAssumption == MaxAttempts \in Nat \ {0} /\ MaxJobs \in Nat

VARIABLES
  saved,      \* out/propose_<name>.json
  form,       \* the saved proposal a browser has loaded, with its edits
  worker,     \* the ingest_propose job of the server and `rhino adapt propose`
  contract,   \* config/adapters/<name>.json
  offered,    \* history: what a model or the registry has put in a saved proposal
  jobs        \* proposals begun

proposalVars == <<saved, form, worker, contract, offered, jobs>>

Authors == {"model", "registry", "human"}
Programs == {"job", "cli"}

\* A slot's mapping, the author the file names for it (authored_by) and who
\* really chose it (no field of the file).
Slot == [mapping : Mappings \cup {"unresolved"}, by : Authors \cup {"none"}, chosen : Authors \cup {"none"}]
AdapterProposal == [slots : [Slots -> Slot], unmapped : SUBSET Columns]
Unresolved == [mapping |-> "unresolved", by |-> "none", chosen |-> "none"]
NoProposal == [slots |-> << >>, unmapped |-> {}]
Torn == [slots |-> << >>, unmapped |-> {"torn"}]

AssembledContract == [mapping : [Slots -> Mappings], unmapped : SUBSET Columns,
                      source : AdapterProposal]   \* source: the proposal it came from (history)
NoContract == [mapping |-> << >>, unmapped |-> {}, source |-> NoProposal]

Worker == [pc : {"idle", "calling", "resolved", "torn", "writing", "gave_up"},
           proposal : AdapterProposal \cup {NoProposal},
           illegal : AdapterProposal \cup {NoProposal},     \* last_illegal_candidate
           attempts : 0..MaxAttempts]
IdleWorker == [pc |-> "idle", proposal |-> NoProposal, illegal |-> NoProposal, attempts |-> 0]

Mapped(s, p) == p.slots[s].mapping # "unresolved"

ProposalTypeOK ==
  /\ saved \in AdapterProposal \cup {NoProposal, Torn}
  /\ form \in AdapterProposal \cup {NoProposal}
  /\ worker \in [Programs -> Worker]
  /\ contract \in AssembledContract \cup {NoContract}
  /\ offered \subseteq Slots \X Mappings
  /\ jobs \in 0..MaxJobs

ProposalInit ==
  /\ saved = NoProposal
  /\ form = NoProposal
  /\ worker = [w \in Programs |-> IdleWorker]
  /\ contract = NoContract
  /\ offered = {}
  /\ jobs = 0

-----------------------------------------------------------------------------
(* Checks on a proposal *)

\* check_slot_mapping_legality
LegalFor(s, m) == m \notin Illegal /\ (m = "not_collected" => s \in GapLegal)

IllegalSlots(p) == {s \in Slots : Mapped(s, p) /\ ~LegalFor(s, p.slots[s].mapping)}
UnresolvedSlots(p) == {s \in Slots : ~Mapped(s, p)}
FailedSlots(p) == {s \in Slots : p.slots[s].mapping \in Ungrounded}

\* The columns validate_contract finds accounted for by the mappings.
Accounted(mapping) ==
  Structural \cup {ColumnOf[s] : s \in {x \in Slots : mapping[x] \notin Unread}}

\* Mutant of Problems: a column may be read and listed as unread.
ProblemsAllowingOverlap(mapping, unmapped) ==
  [slots |-> {s \in Slots : ~LegalFor(s, mapping[s]) \/ mapping[s] \in Misfit},
   orphaned |-> (Columns \ Accounted(mapping)) \ unmapped,
   redundant |-> {}]

\* What validate_contract says of a contract: problems that name a slot, columns
\* that nothing accounts for, columns that are accounted for twice.
Problems(mapping, unmapped) ==
  [slots |-> {s \in Slots : ~LegalFor(s, mapping[s]) \/ mapping[s] \in Misfit},
   orphaned |-> (Columns \ Accounted(mapping)) \ unmapped,
   redundant |-> Accounted(mapping) \cap unmapped]

NoProblems == [slots |-> {}, orphaned |-> {}, redundant |-> {}]

-----------------------------------------------------------------------------
(* Authorship and the registry *)

Stamp(p, author) ==
  [p EXCEPT !.slots = [s \in Slots |->
     IF Mapped(s, p) THEN [p.slots[s] EXCEPT !.by = author] ELSE p.slots[s]]]

\* Mutant of StampPerSlot: a slot keeps the baseline's author whether it was edited or not.
StampUnedited(p, baseline) ==
  [p EXCEPT !.slots = [s \in Slots |->
     IF ~Mapped(s, p) THEN p.slots[s]
     ELSE [p.slots[s] EXCEPT !.by = IF Mapped(s, baseline) THEN baseline.slots[s].by ELSE "human"]]]

\* Whatever author the client claims, an edited slot is the human's, and one the
\* baseline has with the same mapping stays the baseline's.
StampPerSlot(p, baseline) ==
  [p EXCEPT !.slots = [s \in Slots |->
     IF ~Mapped(s, p) THEN p.slots[s]
     ELSE [p.slots[s] EXCEPT !.by =
             IF baseline.slots[s].mapping = p.slots[s].mapping
             THEN baseline.slots[s].by ELSE "human"]]]

\* A vocabulary gets the aliases it leaves out, and keeps its author; an unresolved
\* slot with one candidate column the registry covers is mapped by the registry.
Aliased(s, p) ==
  CASE s \in RegistryBacked /\ p.slots[s].mapping = "partial" -> [p.slots[s] EXCEPT !.mapping = "full"]
    [] s \in Covered /\ ~Mapped(s, p) -> [mapping |-> "full", by |-> "registry", chosen |-> "registry"]
    [] OTHER -> p.slots[s]

WithAliases(p) == [p EXCEPT !.slots = [s \in Slots |-> Aliased(s, p)]]

-----------------------------------------------------------------------------
(* Assembly *)

AsContract(mapping, unmapped, p) == [mapping |-> mapping, unmapped |-> unmapped, source |-> p]

\* assemble_contract
Strict(p) ==
  LET mapping == [s \in Slots |-> p.slots[s].mapping]
  IN IF /\ UnresolvedSlots(p) \cup FailedSlots(p) = {}
        /\ Problems(mapping, p.unmapped) = NoProblems
     THEN AsContract(mapping, p.unmapped, p) ELSE NoContract

HasPlaceholder(s) == s \notin HardStop
\* Mutant of Placeholder: an axis gets an empty value instead of a declared gap.
PlaceholderBlank(s) == IF s = Role THEN "literal" ELSE "absent"

Placeholder(s) ==
  CASE s = Role -> "literal"
    [] s \in GapLegal -> "not_collected"
    [] OTHER -> "absent"

\* _reconcile_redundant_structural_columns: columns listed as unmapped that the
\* grouping reads; none if another column is listed and read.
Prunable(problems) ==
  IF problems.redundant \subseteq Structural THEN problems.redundant ELSE {}

\* _degrade_invalid_slots refuses a problem that names no slot, a slot a human
\* wrote, and a slot without a placeholder.
Degradable(problems, p) ==
  /\ problems.slots # {} /\ problems.orphaned = {} /\ problems.redundant = {}
  /\ \A s \in problems.slots : p.slots[s].by # "human" /\ HasPlaceholder(s)

\* _reconcile_orphaned_columns: a column of a dropped mapping is listed as dropped.
Freed(mapping, dropped) == {ColumnOf[s] : s \in {x \in dropped : mapping[x] \notin Unread}}

\* Mutant of Provisional: one refused slot empties every slot that has a placeholder.
ProvisionalAllOrNothing(p) ==
  LET bad == UnresolvedSlots(p) \cup Problems([s \in Slots |-> p.slots[s].mapping], p.unmapped).slots
      filled == [s \in Slots |-> IF bad # {} /\ HasPlaceholder(s) THEN Placeholder(s)
                                ELSE p.slots[s].mapping]
      listed == p.unmapped \cup Problems(filled, p.unmapped).orphaned
  IN IF FailedSlots(p) # {} \/ Problems(filled, listed) # NoProblems THEN NoContract
     ELSE AsContract(filled, listed, p)

\* assemble_provisional_contract
Provisional(p) ==
  LET filled == [s \in Slots |-> IF Mapped(s, p) THEN p.slots[s].mapping ELSE Placeholder(s)]
      unmapped == p.unmapped \ Prunable(Problems(filled, p.unmapped))
      problems == Problems(filled, unmapped)
      degraded == [s \in Slots |-> IF s \in problems.slots THEN Placeholder(s) ELSE filled[s]]
      again == Problems(degraded, unmapped)
      listed == unmapped \cup (again.orphaned \cap Freed(filled, problems.slots))
  IN IF FailedSlots(p) # {} \/ \E s \in UnresolvedSlots(p) : ~HasPlaceholder(s)
     THEN NoContract
     ELSE IF problems = NoProblems THEN AsContract(filled, unmapped, p)
     ELSE IF Degradable(problems, p) /\ Problems(degraded, listed) = NoProblems
     THEN AsContract(degraded, listed, p)
     ELSE NoContract

\* The server falls back on a provisional contract; the command line does not.
Assembled(w, p) ==
  IF Strict(p) # NoContract \/ w = "cli" THEN Strict(p) ELSE Provisional(p)

\* What scoring leaves out of the composites for a contract nobody has signed:
\* placeholder_axes and the slots the contract declares not collected.
Neutralized(c) ==
  {s \in Axes : c.mapping[s] = "not_collected"}
    \cup (IF c.mapping[Role] = "literal" THEN {Role} ELSE {})

-----------------------------------------------------------------------------
(* The model's attempts *)

Begin(w) ==
  /\ worker[w].pc = "idle" /\ jobs < MaxJobs
  /\ jobs' = jobs + 1

Propose(w) ==
  /\ Begin(w)
  /\ worker' = [worker EXCEPT ![w].pc = "calling"]
  /\ UNCHANGED <<saved, form, contract, offered>>

Answers ==
  {[slots |-> [s \in Slots |-> IF m[s] = "unresolved" THEN Unresolved
                               ELSE [mapping |-> m[s], by |-> "none", chosen |-> "model"]],
    unmapped |-> u] : m \in {f \in [Slots -> Mappings \cup {"unresolved"}] :
                               \A s \in Slots : f[s] \in Mappable[s]},
                      u \in Dispositions}

Asked(k) == [k EXCEPT !.attempts = @ + 1]

\* After the last attempt the last candidate that was merely illegal is better than
\* nothing, and goes through the same stamping, grounding and assembly.
Exhausted(k) ==
  IF k.attempts < MaxAttempts THEN k
  ELSE IF k.illegal = NoProposal THEN [k EXCEPT !.pc = "gave_up"]
  ELSE [k EXCEPT !.pc = "resolved", !.proposal = WithAliases(Stamp(k.illegal, "model"))]

\* llm_error, parse_error and meta_mismatch
AttemptFails(w) ==
  /\ worker[w].pc = "calling" /\ worker[w].attempts < MaxAttempts
  /\ worker' = [worker EXCEPT ![w] = Exhausted(Asked(@))]
  /\ UNCHANGED <<saved, form, contract, offered, jobs>>

Answer(w) ==
  /\ worker[w].pc = "calling" /\ worker[w].attempts < MaxAttempts
  /\ \E p \in Answers :
       worker' = [worker EXCEPT ![w] =
         IF IllegalSlots(p) # {} THEN Exhausted([Asked(@) EXCEPT !.illegal = p])
         ELSE [Asked(@) EXCEPT !.pc = "resolved",
                               !.proposal = WithAliases(Stamp(p, "model"))]]
  /\ UNCHANGED <<saved, form, contract, offered, jobs>>

\* ProposalGenerationError ends the job: nothing is saved.
GiveUp(w) ==
  /\ worker[w].pc = "gave_up"
  /\ worker' = [worker EXCEPT ![w] = IdleWorker]
  /\ UNCHANGED <<saved, form, contract, offered, jobs>>

-----------------------------------------------------------------------------
(* The human's edits *)

LoadForm ==
  /\ saved \notin {NoProposal, Torn, form}
  /\ form' = saved
  /\ UNCHANGED <<saved, worker, contract, offered, jobs>>

EditSlot(s, m) ==
  /\ form # NoProposal
  /\ m \in Editable[s] \ {form.slots[s].mapping}
  /\ form' = [form EXCEPT !.slots[s].mapping = m, !.slots[s].chosen = "human"]
  /\ UNCHANGED <<saved, worker, contract, offered, jobs>>

\* The client's edited_saved_proposal, stamped against the file as it is now, or
\* wholly as the human's when there is none to read.
SubmitEdit(claimed) ==
  /\ form # NoProposal
  /\ Begin("job")
  /\ LET p == Stamp(form, claimed)
     IN worker' = [worker EXCEPT !["job"] = [IdleWorker EXCEPT
          !.pc = "resolved",
          !.proposal = WithAliases(IF saved \in {NoProposal, Torn} THEN Stamp(p, "human")
                                   ELSE StampPerSlot(p, saved))]]
  /\ UNCHANGED <<saved, form, contract, offered>>

\* `rhino adapt propose --from-proposal`, with the saved file edited by hand in one slot
FromProposal(s, m) ==
  /\ saved \notin {NoProposal, Torn}
  /\ m \in Editable[s]
  /\ Begin("cli")
  /\ LET edited == IF m = saved.slots[s].mapping THEN saved
                   ELSE [saved EXCEPT !.slots[s].mapping = m, !.slots[s].chosen = "human"]
     IN worker' = [worker EXCEPT !["cli"] = [IdleWorker EXCEPT
          !.pc = "resolved", !.proposal = WithAliases(Stamp(edited, "human"))]]
  /\ UNCHANGED <<saved, form, contract, offered>>

-----------------------------------------------------------------------------
(* The files *)

\* `rhino adapt propose` writes the file in place, the server beside it and renames.
TearSaved(w) ==
  /\ w = "cli" /\ worker[w].pc = "resolved"
  /\ saved' = Torn
  /\ worker' = [worker EXCEPT ![w].pc = "torn"]
  /\ UNCHANGED <<form, contract, offered, jobs>>

SaveProposal(w) ==
  /\ worker[w].pc = (IF w = "cli" THEN "torn" ELSE "resolved")
  /\ saved' = worker[w].proposal
  /\ offered' = offered \cup
       {<<s, worker[w].proposal.slots[s].mapping>> :
          s \in {x \in Slots : worker[w].proposal.slots[x].chosen \in {"model", "registry"}}}
  /\ worker' = [worker EXCEPT ![w] =
       IF Assembled(w, worker[w].proposal) = NoContract THEN IdleWorker
       ELSE [IdleWorker EXCEPT !.pc = "writing", !.proposal = worker[w].proposal]]
  /\ UNCHANGED <<form, contract, jobs>>

WriteContract(w) ==
  /\ worker[w].pc = "writing"
  /\ contract' = Assembled(w, worker[w].proposal)
  /\ worker' = [worker EXCEPT ![w] = IdleWorker]
  /\ UNCHANGED <<saved, form, offered, jobs>>

\* The process is killed, or a file cannot be written.
Crash(w) ==
  /\ worker[w].pc # "idle"
  /\ worker' = [worker EXCEPT ![w] = IdleWorker]
  /\ UNCHANGED <<saved, form, contract, offered, jobs>>

Step(w) ==
  \/ AttemptFails(w) \/ Answer(w) \/ GiveUp(w)
  \/ TearSaved(w) \/ SaveProposal(w) \/ WriteContract(w)

ProposalNext ==
  \/ \E w \in Programs : Propose(w) \/ Step(w) \/ Crash(w)
  \/ LoadForm
  \/ \E s \in Slots, m \in Mappings : EditSlot(s, m) \/ FromProposal(s, m)
  \/ \E claimed \in Authors : SubmitEdit(claimed)

ProposalSpec == ProposalInit /\ [][ProposalNext]_proposalVars

-----------------------------------------------------------------------------
(* Properties *)

\* A mapping a human wrote, and no model or registry ever offered, is in every
\* contract assembled from the proposal it was in: _degrade_invalid_slots never puts
\* a placeholder in its place, whatever author the client claimed for it, and
\* however stale the form it was written in.
HumanMappingIsKept ==
  contract # NoContract =>
    \A s \in Slots :
      LET slot == contract.source.slots[s]
      IN slot.chosen = "human" /\ <<s, slot.mapping>> \notin offered
           => contract.mapping[s] = slot.mapping

\* A scoring axis whose value nobody mapped (_provisional_placeholder_for filled it)
\* is one the scorer leaves out, as far as it can see from the contract file alone
\* (placeholder_axes): no fabricated value moves a score.
FabricatedValueIsNeutralized ==
  contract # NoContract =>
    \A s \in Axes :
      contract.mapping[s] # contract.source.slots[s].mapping => s \in Neutralized(contract)

\* A contract is written only if every mapping in it is legal and grounded, and every
\* column of the source is either read or listed as unread, never both: whichever of
\* the repairs of assemble_provisional_contract it went through.
WrittenContractIsWhole ==
  contract # NoContract =>
    /\ \A s \in Slots : contract.mapping[s] \notin Ungrounded \cup Illegal \cup Misfit
    /\ \A c \in Columns : c \in Accounted(contract.mapping) <=> c \notin contract.unmapped

\* Both assemblies agree wherever the strict one succeeds, and the provisional one
\* changes no mapping that validate_contract accepts.
ProvisionalExtendsStrict ==
  saved \notin {NoProposal, Torn} =>
    /\ Strict(saved) # NoContract => Provisional(saved) = Strict(saved)
    /\ Provisional(saved) # NoContract =>
         \A s \in Slots : LegalFor(s, saved.slots[s].mapping)
                         /\ saved.slots[s].mapping \notin Misfit \cup {"unresolved"}
                           => Provisional(saved).mapping[s] = saved.slots[s].mapping

=============================================================================
