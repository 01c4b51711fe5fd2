--------------------------- MODULE ContractReview ---------------------------
(***************************************************************************)
(* The life of one contract file, config/adapters/<format>.json: proposed, *)
(* edited by hand, reviewed and signed, edited again, re-signed, proposed  *)
(* anew, and read by every run that ingests the source                     *)
(* (adapters/config_io.py, adapters/review.py, the digests and             *)
(* attestations of adapters/config_model.py, `rhino adapt confirm`, the    *)
(* confirm route of web/adapters.py).                                      *)
(*                                                                         *)
(* Several processes work on the file.  Each reads it whole and replaces   *)
(* it whole, with any number of steps of the others in between.  A digest  *)
(* is modelled by the value it is the digest of.  Of a contract the model  *)
(* keeps the recipe of finding.finding_id, which memory.decisions is keyed *)
(* by, all other mapping decisions as one value, and two things that lie   *)
(* outside the decisions: the excluded records of `observed` and the slots *)
(* that mapping_confidence doubts.                                         *)
(***************************************************************************)
EXTENDS Naturals, FiniteSets

CONSTANTS
  Recipes,       \* mappings of finding.finding_id
  Synthesized,   \* the recipes that are a content_address
  Regions,       \* every other mapping decision
  Unioned,       \* the regions whose asset_grouping has union_fields
  Enriched,      \* the regions with an enrichment block
  Doubts,        \* what mapping_confidence may say: some scoring slots are below the threshold
  None,
  Broken,        \* a file that cannot be read as a contract
  Signers,       \* `rhino adapt confirm` processes and POST .../confirm requests
  Proposers,     \* `rhino adapt propose` processes and ingest_propose jobs
  MaxVersion,    \* bound on proposals
  MaxEdits,      \* bound on edits by hand
  MaxSigned      \* bound on the signed contents when a review starts

ASSUME DecisionAssumption ==
  /\ Synthesized \subseteq Recipes /\ Unioned \cup Enriched \subseteq Regions
  /\ None \notin Recipes \cup Regions \cup Nat \cup Doubts /\ "missing" \notin Recipes
ASSUME BoundAssumption == MaxVersion \in Nat /\ MaxEdits \in Nat /\ MaxSigned \in Nat

VARIABLES
  file,       \* the contract file
  signer,     \* what each review is at
  proposing,  \* the proposers whose model is at work
  signed,     \* history: everything a human ever signed
  edits

vars == <<file, signer, proposing, signed, edits>>

Items == {"enrichment", "union", "finding_id.synthesized", "exclusions", "low_confidence_mappings"}
Counts == {0, 1}

\* The slots below the threshold, None when there is none.
Doubted == Doubts \cup {None}

\* What an attestation was written about, None if there is none.  For low-confidence
\* mappings that is the mappings and what is doubted of them.
Claim == Recipes \cup Regions \cup Counts \cup Regions \X Doubted \cup {None}
Attestations == [Items -> Claim]
Unattested == [i \in Items |-> None]

\* Everything but review: what content_digest covers.
Content == [version : Nat \ {0}, recipe : Recipes, region : Regions,
            excluded : Counts, doubts : Doubted, attested : Attestations]

\* slot is what slot_digests holds of finding.finding_id: None without slot_digests,
\* "missing" when they lack that entry.  anchor (no field of the file) is the recipe
\* of the signature this revision descends from.
Review == [state : {"proposed", "confirmed"},
           content : Content \cup {None},
           recipe : Recipes \cup {None}, region : Regions \cup {None},
           slot : Recipes \cup {None, "missing"},
           anchor : Recipes \cup {None}]
Proposed == [state |-> "proposed", content |-> None, recipe |-> None, region |-> None,
             slot |-> None, anchor |-> None]
Contract == [content : Content, review : Review]
Files == Contract \cup {None, Broken}
Readable(f) == f \notin {None, Broken}

Signer == [pc : {"idle", "reviewing", "writing"}, contract : Contract \cup {None},
           reset : BOOLEAN]
Idle == [pc |-> "idle", contract |-> None, reset |-> FALSE]

TypeOK ==
  /\ file \in Files
  /\ signer \in [Signers -> Signer]
  /\ proposing \subseteq Proposers
  /\ signed \subseteq Content
  /\ edits \in 0..MaxEdits

Required(c) ==
  {i \in Items : \/ i = "enrichment" /\ c.region \in Enriched
                 \/ i = "union" /\ c.region \in Unioned
                 \/ i = "finding_id.synthesized" /\ c.recipe \in Synthesized
                 \/ i = "exclusions" /\ c.excluded > 0
                 \/ i = "low_confidence_mappings" /\ c.doubts # None}

\* What a human who attests to an item now writes about.
Subject(c, i) ==
  CASE i \in {"enrichment", "union"} -> c.region
    [] i = "finding_id.synthesized" -> c.recipe
    [] i = "exclusions" -> c.excluded
    [] i = "low_confidence_mappings" -> <<c.region, c.doubts>>

\* A contract written by hand, with what it has to attest to.
ByHand(r, d) ==
  LET c == [version |-> 1, recipe |-> r, region |-> d, excluded |-> 0, doubts |-> None,
            attested |-> Unattested]
  IN [c EXCEPT !.attested = [i \in Items |-> IF i \in Required(c) THEN Subject(c, i) ELSE None]]

\* A format starts without a file, or with a committed contract, whose signature may
\* have recorded slot_digests.
Committed(c, evidence) ==
  [content |-> c,
   review |-> [state |-> "confirmed", content |-> c, recipe |-> c.recipe,
               region |-> c.region, slot |-> evidence, anchor |-> c.recipe]]

Init ==
  /\ \/ file = None /\ signed = {}
     \/ \E r \in Recipes, d \in Regions, evidence \in Recipes \cup {None} :
          /\ evidence \in {r, None}
          /\ file = Committed(ByHand(r, d), evidence) /\ signed = {ByHand(r, d)}
  /\ signer = [s \in Signers |-> Idle]
  /\ proposing = {}
  /\ edits = 0

-----------------------------------------------------------------------------
(* What moved since the signature *)

WasConfirmed(c) == c.review.recipe # None
DecisionsMoved(c) ==
  /\ WasConfirmed(c)
  /\ c.review.recipe # c.content.recipe \/ c.review.region # c.content.region

\* partition_slots: finding.finding_id is in `unchanged`.
IdentityProven(c) == c.review.slot = c.content.recipe

\* Mutant of IdentityHeld: a recipe is frozen only when it is known to have changed.
IdentityNotKnownChanged(c) == c.review.slot \in {c.content.recipe, None, "missing"}

\* The identity freeze of review_contract.
IdentityHeld(c) == IdentityProven(c)

\* Mutant of Carried: every attestation carries over.
CarriedAll(c) == c.content.attested

\* carried_attestations: which claims survive the drift.
Carried(c) ==
  [i \in Items |->
     IF \/ ~DecisionsMoved(c)
        \/ i = "exclusions"
        \/ i = "finding_id.synthesized" /\ IdentityProven(c)
     THEN c.content.attested[i] ELSE None]

\* Mutant of Confirmed: only the decisions are compared.
ConfirmedDecisions(c) ==
  /\ c.review.state = "confirmed"
  /\ c.review.recipe = c.content.recipe /\ c.review.region = c.content.region

\* assert_confirmed, which ConfiguredAdapter calls before it reads a source.
Confirmed(c) ==
  /\ c.review.state = "confirmed"
  /\ c.review.content = c.content
  /\ c.review.recipe = c.content.recipe /\ c.review.region = c.content.region

-----------------------------------------------------------------------------
(* Proposals *)

\* The file is looked at, and a confirmed one is refused without overwrite_confirmed,
\* before the model is called; a file that cannot be read is no obstacle.
StartPropose(p, overwrite) ==
  /\ p \notin proposing
  /\ Readable(file) /\ file.review.state = "confirmed" => overwrite
  /\ proposing' = proposing \cup {p}
  /\ UNCHANGED <<file, signer, signed, edits>>

\* write_contract: one version up from what is there now, unsigned.
WriteProposal(p) ==
  /\ p \in proposing
  /\ Readable(file) => file.content.version < MaxVersion
  /\ \E r \in Recipes, d \in Regions, doubts \in Doubted :
       file' = [content |-> [version |-> IF Readable(file) THEN file.content.version + 1 ELSE 1,
                             recipe |-> r, region |-> d, excluded |-> 0,
                             doubts |-> doubts, attested |-> Unattested],
                review |-> Proposed]
  /\ proposing' = proposing \ {p}
  /\ UNCHANGED <<signer, signed, edits>>

\* The proposal is refused or its process dies.
AbandonPropose(p) ==
  /\ p \in proposing
  /\ proposing' = proposing \ {p}
  /\ UNCHANGED <<file, signer, signed, edits>>

-----------------------------------------------------------------------------
(* The file is edited by hand: a decision, a measurement, a confidence, the unsigned  *)
(* evidence.  The record of the signature itself is left alone: without it the file   *)
(* is a proposal nobody signed, and neither the freeze nor Carried has anything to    *)
(* compare with.                                                                      *)

HandEdit ==
  /\ edits < MaxEdits
  /\ Readable(file)
  /\ \/ \E r \in Recipes : file' = [file EXCEPT !.content.recipe = r]
     \/ \E d \in Regions : file' = [file EXCEPT !.content.region = d]
     \/ \E n \in Counts : file' = [file EXCEPT !.content.excluded = n]
     \/ \E doubts \in Doubted : file' = [file EXCEPT !.content.doubts = doubts]
     \/ \E evidence \in {None, "missing"} :
          file.review.slot # None /\ file' = [file EXCEPT !.review.slot = evidence]
     \/ file' = Broken
  /\ edits' = edits + 1
  /\ UNCHANGED <<signer, proposing, signed>>

-----------------------------------------------------------------------------
(* Review *)

ReadContract(s) ==
  /\ Cardinality(signed) <= MaxSigned
  /\ signer[s].pc = "idle" /\ Readable(file)
  /\ signer' = [signer EXCEPT ![s] = [@ EXCEPT !.pc = "reviewing", !.contract = file]]
  /\ UNCHANGED <<file, proposing, signed, edits>>

\* What the source measures is put into the contract...
Measured(c, excluded) == [c.content EXCEPT !.excluded = excluded]

\* ... and the claims supplied now are put with those that survived.
Candidate(c, supplied, excluded) ==
  [Measured(c, excluded) EXCEPT !.attested =
     [i \in Items |-> IF i \in supplied THEN Subject(Measured(c, excluded), i) ELSE Carried(c)[i]]]

\* review_contract refuses an undeclared second signature and change of identity...
Signable(c, reconfirm, reset) ==
  /\ c.review.state = "confirmed" => reconfirm
  /\ DecisionsMoved(c) /\ ~IdentityHeld(c) => reset

\* ... and a missing claim.
Complete(candidate) == \A i \in Required(candidate) : candidate.attested[i] # None

\* confirm_contract
Stamped(candidate) ==
  [content |-> candidate,
   review |-> [state |-> "confirmed", content |-> candidate,
               recipe |-> candidate.recipe, region |-> candidate.region,
               slot |-> candidate.recipe, anchor |-> candidate.recipe]]

\* The review works on the contract it was handed; a claim nothing requires is refused.
\* The anchor of the old signature stays in signer[s].contract until the new one is on disk.
Sign(s, excluded, reconfirm, reset) ==
  /\ signer[s].pc = "reviewing"
  /\ LET c == signer[s].contract
     IN /\ Signable(c, reconfirm, reset)
        /\ \E supplied \in SUBSET Required(Measured(c, excluded)) :
             LET candidate == Candidate(c, supplied, excluded)
             IN /\ Complete(candidate)
                /\ signer' = [signer EXCEPT ![s] =
                     [pc |-> "writing", reset |-> reset,
                      contract |-> [Stamped(candidate) EXCEPT !.review.anchor = c.review.anchor]]]
  /\ UNCHANGED <<file, proposing, signed, edits>>

\* A refusal, an unclean measurement, a rereview, or the end of the process.
EndReview(s) ==
  /\ signer[s].pc # "idle"
  /\ signer' = [signer EXCEPT ![s] = Idle]
  /\ UNCHANGED <<file, proposing, signed, edits>>

\* overwrite_contract: the version the review read, whatever the file holds now.
Overwrite(s) ==
  /\ signer[s].pc = "writing"
  /\ LET c == signer[s].contract.content
     IN /\ file' = Stamped(c)
        /\ signed' = signed \cup {c}
  /\ signer' = [signer EXCEPT ![s] = Idle]
  /\ UNCHANGED <<proposing, edits>>

Next ==
  \/ \E p \in Proposers : \/ \E overwrite \in BOOLEAN : StartPropose(p, overwrite)
                          \/ WriteProposal(p) \/ AbandonPropose(p)
  \/ HandEdit
  \/ \E s \in Signers :
       \/ ReadContract(s) \/ EndReview(s) \/ Overwrite(s)
       \/ \E excluded \in Counts, reconfirm \in BOOLEAN, reset \in BOOLEAN :
            Sign(s, excluded, reconfirm, reset)

Spec == Init /\ [][Next]_vars

-----------------------------------------------------------------------------
(* Properties *)

\* A contract that a run would ingest a source by was signed as it stands, decisions,
\* measurement and attestations: assert_confirmed compares digests with the content, so
\* no edit after the signature, by hand or by a proposal that races it, gets through.
IngestedIsSigned == Readable(file) /\ Confirmed(file) => file.content \in signed

\* Every claim a signature rests on was written about the mapping it signs: an attestation
\* written for one enrichment, asset grouping, finding_id recipe or low-confidence mapping
\* never stands for another (carried_attestations), however often the contract was edited
\* and re-signed.  Of what lies outside the decisions the code keeps an old claim, and the
\* property asks nothing: the number of excluded records, and which mappings are doubted.
ClaimsAreAboutWhatIsSigned ==
  \A c \in signed : \A i \in Required(c) \ {"exclusions"} :
    IF i = "low_confidence_mappings"
      THEN \E doubts \in Doubted : c.attested[i] = <<c.region, doubts>>
      ELSE c.attested[i] = Subject(c, i)

\* A signature that descends from an earlier one keeps its finding_id recipe, which every
\* recorded decision is keyed by, unless --reset-identity was given; evidence that was
\* deleted, or never recorded, does not help.
RekeyingIsDeclared ==
  \A s \in Signers :
    LET c == signer[s].contract
    IN signer[s].pc = "writing" /\ c.review.anchor # None /\ c.content.recipe # c.review.anchor
         => signer[s].reset

=============================================================================
