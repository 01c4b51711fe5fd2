------------------------ MODULE ContractReview_proofs ------------------------
(***************************************************************************)
(* Theorems about ContractReview, for every set of mappings and any number *)
(* of reviewers, proposers, versions and edits.                            *)
(*                                                                         *)
(* The three properties are about what gets signed, but an attestation or  *)
(* the evidence of a recipe lives in the file between two signatures.  The *)
(* invariant therefore says what a revision that is not signed yet still   *)
(* knows of the last signature (Descends): its claims and its evidence are *)
(* about the decisions its review records, whatever it maps by now.        *)
(*                                                                         *)
(* The second half is about Proposal, which assembles the contracts that   *)
(* are reviewed: what a written contract says of each slot is what the     *)
(* proposal it came from said, or a neutral placeholder in place of what   *)
(* no human chose (ProposalInv).                                           *)
(***************************************************************************)
EXTENDS ContractReview, Proposal, TLAPS

\* What is claimed of the doubted mappings was claimed of the mappings of this region.
AboutMapping(c, d) ==
  \E doubts \in Doubted : c.attested["low_confidence_mappings"] = <<d, doubts>>

\* What holds of every revision on disk, or in the hands of a reviewer.
Descends(c) ==
  /\ c.review.anchor = c.review.recipe
  /\ c.review.slot \in {c.review.recipe, None, "missing"}
  /\ c.review.recipe = None => c.review.region = None
  /\ \A i \in {"enrichment", "union"} : c.content.attested[i] \in {None, c.review.region}
  /\ c.content.attested["finding_id.synthesized"] \in {None, c.review.recipe}
  /\ \/ c.content.attested["low_confidence_mappings"] = None
     \/ c.review.recipe # None /\ AboutMapping(c.content, c.review.region)

\* What holds of a content that is ready to be signed.
Attested(c) ==
  /\ \A i \in {"enrichment", "union"} : c.attested[i] \in {None, c.region}
  /\ c.attested["finding_id.synthesized"] \in {None, c.recipe}
  /\ c.attested["low_confidence_mappings"] = None \/ AboutMapping(c, c.region)
  /\ \A i \in Required(c) : c.attested[i] # None

Declared(w) == w.contract.review.anchor \notin {None, w.contract.content.recipe} => w.reset

FileIsSigned == Readable(file) /\ file.review.state = "confirmed" => file.review.content \in signed
FileDescends == Readable(file) => Descends(file)
ReviewsDescend ==
  \A s \in Signers : signer[s].pc = "reviewing" =>
    signer[s].contract \in Contract /\ Descends(signer[s].contract)
WritersAreReady ==
  \A s \in Signers : signer[s].pc = "writing" =>
    signer[s].contract \in Contract /\ Attested(signer[s].contract.content) /\ Declared(signer[s])
SignedIsAttested == \A c \in signed : Attested(c)

IInv == TypeOK /\ FileIsSigned /\ FileDescends /\ ReviewsDescend /\ WritersAreReady /\ SignedIsAttested

-----------------------------------------------------------------------------
(* A signature *)

LEMMA ContractParts ==
  ASSUME NEW c \in Contract
  PROVE  /\ c = [content |-> c.content, review |-> c.review]
         /\ c.content \in Content /\ c.review \in Review
         /\ c.content.attested \in Attestations
         /\ c.content.recipe \in Recipes /\ c.content.region \in Regions
         /\ c.content.excluded \in Counts /\ c.content.doubts \in Doubted
         /\ c.content.version \in Nat \ {0}
  BY DEF Contract, Content

LEMMA SubjectType ==
  ASSUME NEW c \in Content, NEW i \in Items
  PROVE  Subject(c, i) \in Claim
  BY DEF Subject, Content, Items, Claim

LEMMA CandidateType ==
  ASSUME NEW c \in Contract, NEW supplied \in SUBSET Items, NEW excluded \in Counts
  PROVE  LET k == Candidate(c, supplied, excluded)
         IN /\ k \in Content
            /\ k.recipe = c.content.recipe /\ k.region = c.content.region
            /\ k.doubts = c.content.doubts
            /\ \A i \in Items : k.attested[i] = IF i \in supplied THEN Subject(k, i) ELSE Carried(c)[i]
<1> DEFINE measured == Measured(c, excluded)
           attested == [i \in Items |-> IF i \in supplied THEN Subject(measured, i) ELSE Carried(c)[i]]
           k == [measured EXCEPT !.attested = attested]
<1>1. /\ measured \in Content /\ measured.recipe = c.content.recipe
      /\ measured.region = c.content.region /\ measured.excluded = excluded
      /\ measured.doubts = c.content.doubts
  BY ContractParts DEF Content, Measured
<1>2. \A i \in Items : Carried(c)[i] \in Claim
  BY ContractParts DEF Carried, Attestations, Claim
<1>3. attested \in Attestations
  BY <1>1, <1>2, SubjectType DEF Attestations
<1>4. /\ k \in Content /\ k.attested = attested
      /\ k.recipe = measured.recipe /\ k.region = measured.region /\ k.excluded = measured.excluded
      /\ k.doubts = measured.doubts
  <2> HIDE DEF measured, attested
  <2> QED BY <1>1, <1>3 DEF Content
<1>5. \A i \in Items : Subject(k, i) = Subject(measured, i)
  <2> HIDE DEF k, measured
  <2> QED BY <1>4 DEF Subject
<1>6. \A i \in Items : k.attested[i] = IF i \in supplied THEN Subject(k, i) ELSE Carried(c)[i]
  <2> HIDE DEF k, measured
  <2> QED BY <1>4, <1>5
<1>7. Candidate(c, supplied, excluded) = k
  BY DEF Candidate
<1> QED
  <2> HIDE DEF k
  <2> QED BY <1>1, <1>4, <1>6, <1>7

\* Whatever a human supplies or leaves out, a candidate that may be signed makes claims
\* about its own decisions only, and has a new recipe only if that was declared.
LEMMA SignableIsAttested ==
  ASSUME NEW c \in Contract, Descends(c),
         NEW supplied \in SUBSET Items, NEW excluded \in Counts,
         NEW reconfirm \in BOOLEAN, NEW reset \in BOOLEAN,
         Signable(c, reconfirm, reset), Complete(Candidate(c, supplied, excluded))
  PROVE  /\ Attested(Candidate(c, supplied, excluded))
         /\ c.review.anchor \notin {None, c.content.recipe} => reset
<1> DEFINE k == Candidate(c, supplied, excluded)
<1>1. /\ k \in Content
      /\ k.recipe = c.content.recipe /\ k.region = c.content.region /\ k.doubts \in Doubted
      /\ \A i \in Items : k.attested[i] = IF i \in supplied THEN Subject(k, i) ELSE Carried(c)[i]
  <2>1. c.content.doubts \in Doubted
    BY ContractParts
  <2> HIDE DEF k
  <2> QED BY <2>1, CandidateType DEF k
<1>2. /\ c.content.recipe \in Recipes /\ c.content.region \in Regions
      /\ c.content.recipe \notin {None, "missing"}
  BY ContractParts, DecisionAssumption
<1>3. \A i \in Required(k) : k.attested[i] # None
  BY DEF Complete
<1> HIDE DEF k
<1>4. ~DecisionsMoved(c) => /\ c.review.recipe \in {None, c.content.recipe}
                            /\ c.review.region \in {None, c.content.region}
  BY DEF DecisionsMoved, WasConfirmed, Descends
<1>5. IdentityProven(c) => c.review.recipe = c.content.recipe
  BY <1>2 DEF IdentityProven, Descends
<1>6. \A i \in {"enrichment", "union"} : k.attested[i] \in {None, k.region}
  <2>1. \A i \in {"enrichment", "union"} : Carried(c)[i] \in {None, k.region}
    BY <1>1, <1>4 DEF Carried, Descends, Items
  <2> QED BY <1>1, <2>1 DEF Subject, Items
<1>7. k.attested["finding_id.synthesized"] \in {None, k.recipe}
  <2>1. Carried(c)["finding_id.synthesized"] \in {None, k.recipe}
    BY <1>1, <1>4, <1>5 DEF Carried, Descends, Items
  <2> QED BY <1>1, <2>1 DEF Subject, Items
<1>8. k.attested["low_confidence_mappings"] = None \/ AboutMapping(k, k.region)
  <2>1. \/ Carried(c)["low_confidence_mappings"] = None
        \/ \E doubts \in Doubted : Carried(c)["low_confidence_mappings"] = <<k.region, doubts>>
    <3>1. CASE DecisionsMoved(c)
      BY <3>1 DEF Carried, Items
    <3>2. CASE ~DecisionsMoved(c)
      <4>1. Carried(c)["low_confidence_mappings"] = c.content.attested["low_confidence_mappings"]
        BY <3>2 DEF Carried, Items
      <4>2. c.review.recipe # None => c.review.region = k.region
        BY <1>1, <3>2 DEF DecisionsMoved, WasConfirmed
      <4> QED BY <4>1, <4>2 DEF Descends, AboutMapping
    <3> QED BY <3>1, <3>2
  <2>2. Subject(k, "low_confidence_mappings") = <<k.region, k.doubts>>
    BY DEF Subject
  <2> QED BY <1>1, <2>1, <2>2 DEF AboutMapping, Items
<1>9. c.review.anchor \notin {None, c.content.recipe} => reset
  BY <1>4, <1>5 DEF Descends, Signable, IdentityHeld
<1> QED BY <1>3, <1>6, <1>7, <1>8, <1>9 DEF Attested, k

\* What is stamped descends from itself.
LEMMA StampedDescends ==
  ASSUME NEW c \in Content, Attested(c)
  PROVE  /\ Stamped(c) \in Contract /\ Descends(Stamped(c))
         /\ Stamped(c).content = c /\ Stamped(c).review.content = c
<1> DEFINE r == [state |-> "confirmed", content |-> c, recipe |-> c.recipe, region |-> c.region,
                 slot |-> c.recipe, anchor |-> c.recipe]
<1>1. c.recipe \in Recipes /\ c.region \in Regions
  BY DEF Content
<1>2. r \in Review
  BY <1>1 DEF Review
<1>3. Stamped(c) = [content |-> c, review |-> r]
  BY DEF Stamped
<1>4. Stamped(c) \in Contract
  <2> HIDE DEF r
  <2> QED BY <1>2, <1>3 DEF Contract
<1>5. c.recipe # None
  BY <1>1, DecisionAssumption
<1> QED BY <1>3, <1>4, <1>5 DEF Descends, Attested, AboutMapping

-----------------------------------------------------------------------------
(* The invariant *)

LEMMA ByHandType ==
  ASSUME NEW r \in Recipes, NEW d \in Regions, NEW c, c = ByHand(r, d)
  PROVE  /\ c \in Content /\ c.recipe = r /\ c.region = d
         /\ \A i \in Items : c.attested[i] = IF i \in Required(c) THEN Subject(c, i) ELSE None
         /\ Required(c) \subseteq {"enrichment", "union", "finding_id.synthesized"}
<1> DEFINE bare == [version |-> 1, recipe |-> r, region |-> d, excluded |-> 0, doubts |-> None,
                    attested |-> Unattested]
           attested == [i \in Items |-> IF i \in Required(bare) THEN Subject(bare, i) ELSE None]
<1>1. bare \in Content
  BY DEF Content, Counts, Doubted, Attestations, Claim, Unattested
<1>2. bare.recipe = r /\ bare.region = d /\ bare.excluded = 0 /\ bare.doubts = None
  OBVIOUS
<1>3. c = [bare EXCEPT !.attested = attested]
  BY DEF ByHand
<1> HIDE DEF bare
<1>4. attested \in Attestations
  BY <1>1, SubjectType DEF Attestations, Claim
<1>5. \A i \in Items : attested[i] = IF i \in Required(bare) THEN Subject(bare, i) ELSE None
  OBVIOUS
<1> HIDE DEF attested
<1>6. /\ c \in Content /\ c.recipe = r /\ c.region = d /\ c.excluded = 0 /\ c.doubts = None
      /\ c.attested = attested
  BY <1>1, <1>2, <1>3, <1>4 DEF Content
<1>7. Required(c) = Required(bare) /\ \A i \in Items : Subject(c, i) = Subject(bare, i)
  BY <1>2, <1>6 DEF Required, Subject
<1>8. Required(c) \subseteq {"enrichment", "union", "finding_id.synthesized"}
  BY <1>6 DEF Required, Items
<1> QED BY <1>5, <1>6, <1>7, <1>8

LEMMA InitIInv == Init => IInv
<1> SUFFICES ASSUME Init PROVE IInv
  OBVIOUS
<1>1. /\ \A s \in Signers : signer[s].pc = "idle" /\ signer[s] \in Signer
      /\ signer \in [Signers -> Signer]
  BY DEF Init, Idle, Signer
<1>2. ReviewsDescend /\ WritersAreReady
  BY <1>1 DEF ReviewsDescend, WritersAreReady
<1>3. proposing \subseteq Proposers /\ edits \in 0..MaxEdits
  BY BoundAssumption DEF Init
<1>4. CASE file = None /\ signed = {}
  BY <1>1, <1>2, <1>3, <1>4
     DEF IInv, TypeOK, Files, FileIsSigned, FileDescends, SignedIsAttested, Readable
<1>5. ASSUME NEW r \in Recipes, NEW d \in Regions, NEW e \in {r, None}, NEW c, c = ByHand(r, d),
             file = Committed(c, e), signed = {c}
      PROVE  IInv
  <2> DEFINE v == [state |-> "confirmed", content |-> c, recipe |-> r, region |-> d,
                   slot |-> e, anchor |-> r]
  <2>1. /\ c \in Content /\ c.recipe = r /\ c.region = d
        /\ \A i \in Items : c.attested[i] = IF i \in Required(c) THEN Subject(c, i) ELSE None
        /\ Required(c) \subseteq {"enrichment", "union", "finding_id.synthesized"}
    BY <1>5, ByHandType
  <2>2. v \in Review
    BY <2>1 DEF Review
  <2>3. file = [content |-> c, review |-> v]
    BY <1>5, <2>1 DEF Committed
  <2>4. file \in Contract
    <3> HIDE DEF v
    <3> QED BY <2>1, <2>2, <2>3 DEF Contract
  <2>5. /\ \A i \in {"enrichment", "union"} : c.attested[i] \in {None, d}
        /\ c.attested["finding_id.synthesized"] \in {None, r}
        /\ c.attested["low_confidence_mappings"] = None
    BY <2>1 DEF Items, Subject
  <2>6. Descends(file)
    BY <2>3, <2>5, DecisionAssumption DEF Descends
  <2>7. \A i \in Required(c) : c.attested[i] # None
    BY <2>1, DecisionAssumption DEF Items, Subject
  <2>8. Attested(c)
    BY <2>1, <2>5, <2>7 DEF Attested
  <2>9. FileIsSigned
    BY <1>5, <2>3 DEF FileIsSigned
  <2> QED
    BY <1>1, <1>2, <1>3, <1>5, <2>1, <2>4, <2>6, <2>8, <2>9
       DEF IInv, TypeOK, Files, FileDescends, SignedIsAttested
<1> QED BY <1>4, <1>5 DEF Init

LEMMA StartProposePreservesIInv ==
  ASSUME IInv, NEW p \in Proposers, NEW overwrite \in BOOLEAN, StartPropose(p, overwrite)
  PROVE  IInv'
  BY DEF IInv, StartPropose, TypeOK, FileIsSigned, FileDescends, ReviewsDescend, WritersAreReady,
         SignedIsAttested, Readable

LEMMA AbandonProposePreservesIInv ==
  ASSUME IInv, NEW p \in Proposers, AbandonPropose(p)
  PROVE  IInv'
  BY DEF IInv, AbandonPropose, TypeOK, FileIsSigned, FileDescends, ReviewsDescend, WritersAreReady,
         SignedIsAttested, Readable

LEMMA WriteProposalPreservesIInv ==
  ASSUME IInv, NEW p \in Proposers, WriteProposal(p)
  PROVE  IInv'
<1> DEFINE v == IF Readable(file) THEN file.content.version + 1 ELSE 1
           content(r, d, n) == [version |-> v, recipe |-> r, region |-> d, excluded |-> 0,
                                doubts |-> n, attested |-> Unattested]
<1>1. v \in Nat \ {0}
  <2>1. Readable(file) => file.content.version \in Nat \ {0}
    BY ContractParts DEF IInv, TypeOK, Files, Readable
  <2> QED BY <2>1
<1>2. PICK r \in Recipes, d \in Regions, n \in Doubted :
        file' = [content |-> content(r, d, n), review |-> Proposed]
  BY DEF WriteProposal
<1> HIDE DEF v
<1>3. Unattested \in Attestations
  BY DEF Unattested, Attestations, Claim
<1>4. content(r, d, n) \in Content /\ content(r, d, n).attested = Unattested
  BY <1>1, <1>3 DEF Content, Counts
<1>5. Proposed \in Review
  BY DEF Proposed, Review
<1>6. file' \in Contract /\ file'.review = Proposed /\ file'.content.attested = Unattested
  <2> HIDE DEF content
  <2> QED BY <1>2, <1>4, <1>5 DEF Contract
<1>7. Descends(file')
  BY <1>6 DEF Descends, Proposed, Unattested, Items
<1>8. FileDescends' /\ FileIsSigned'
  BY <1>6, <1>7 DEF FileDescends, FileIsSigned, Proposed
<1> QED
  BY <1>6, <1>8 DEF IInv, WriteProposal, TypeOK, Files, ReviewsDescend, WritersAreReady, SignedIsAttested

LEMMA HandEditPreservesIInv ==
  ASSUME IInv, HandEdit
  PROVE  IInv'
<1>1. file \in Contract /\ Descends(file) /\ Readable(file)
  BY DEF IInv, TypeOK, Files, HandEdit, Readable, FileDescends
<1>2. /\ file.content \in Content /\ file.review \in Review
      /\ file = [content |-> file.content, review |-> file.review]
  BY <1>1, ContractParts
<1>3. edits' \in 0..MaxEdits
  BY BoundAssumption DEF HandEdit, IInv, TypeOK
<1>4. \/ file' = Broken
      \/ /\ file' \in Contract /\ Descends(file')
         /\ file'.review.state = file.review.state /\ file'.review.content = file.review.content
  <2>1. ASSUME NEW r \in Recipes, file' = [file EXCEPT !.content.recipe = r]
        PROVE  file' \in Contract /\ file'.review = file.review /\ file'.content.attested = file.content.attested
    <3> DEFINE c == [file.content EXCEPT !.recipe = r]
    <3>1. c \in Content /\ c.attested = file.content.attested
      BY <1>2 DEF Content
    <3>2. file' = [content |-> c, review |-> file.review]
      BY <1>2, <2>1
    <3> HIDE DEF c
    <3> QED BY <1>2, <3>1, <3>2 DEF Contract
  <2>2. ASSUME NEW d \in Regions, file' = [file EXCEPT !.content.region = d]
        PROVE  file' \in Contract /\ file'.review = file.review /\ file'.content.attested = file.content.attested
    <3> DEFINE c == [file.content EXCEPT !.region = d]
    <3>1. c \in Content /\ c.attested = file.content.attested
      BY <1>2 DEF Content
    <3>2. file' = [content |-> c, review |-> file.review]
      BY <1>2, <2>2
    <3> HIDE DEF c
    <3> QED BY <1>2, <3>1, <3>2 DEF Contract
  <2>3. ASSUME NEW n \in Counts, file' = [file EXCEPT !.content.excluded = n]
        PROVE  file' \in Contract /\ file'.review = file.review /\ file'.content.attested = file.content.attested
    <3> DEFINE c == [file.content EXCEPT !.excluded = n]
    <3>1. c \in Content /\ c.attested = file.content.attested
      BY <1>2 DEF Content
    <3>2. file' = [content |-> c, review |-> file.review]
      BY <1>2, <2>3
    <3> HIDE DEF c
    <3> QED BY <1>2, <3>1, <3>2 DEF Contract
  <2>4. ASSUME NEW n \in Doubted, file' = [file EXCEPT !.content.doubts = n]
        PROVE  file' \in Contract /\ file'.review = file.review /\ file'.content.attested = file.content.attested
    <3> DEFINE c == [file.content EXCEPT !.doubts = n]
    <3>1. c \in Content /\ c.attested = file.content.attested
      BY <1>2 DEF Content
    <3>2. file' = [content |-> c, review |-> file.review]
      BY <1>2, <2>4
    <3> HIDE DEF c
    <3> QED BY <1>2, <3>1, <3>2 DEF Contract
  <2>5. ASSUME NEW e \in {None, "missing"}, file' = [file EXCEPT !.review.slot = e]
        PROVE  file' \in Contract /\ Descends(file')
               /\ file'.review.state = file.review.state /\ file'.review.content = file.review.content
    <3> DEFINE v == [file.review EXCEPT !.slot = e]
    <3>1. /\ v \in Review /\ v.slot = e /\ v.anchor = file.review.anchor /\ v.recipe = file.review.recipe
          /\ v.region = file.review.region /\ v.state = file.review.state /\ v.content = file.review.content
      BY <1>2 DEF Review
    <3>2. file' = [content |-> file.content, review |-> v]
      BY <1>2, <2>5
    <3> HIDE DEF v
    <3>3. file' \in Contract /\ file'.content = file.content /\ file'.review = v
      BY <1>2, <3>1, <3>2 DEF Contract
    <3> QED BY <1>1, <3>1, <3>3 DEF Descends
  <2>6. file'.review = file.review /\ file'.content.attested = file.content.attested => Descends(file')
    BY <1>1 DEF Descends, AboutMapping
  <2> QED BY <2>1, <2>2, <2>3, <2>4, <2>5, <2>6 DEF HandEdit
<1>5. FileDescends' /\ FileIsSigned'
  BY <1>1, <1>4 DEF FileDescends, FileIsSigned, IInv, HandEdit, Readable
<1> QED
  BY <1>3, <1>4, <1>5
     DEF IInv, HandEdit, TypeOK, Files, ReviewsDescend, WritersAreReady, SignedIsAttested

LEMMA ReadContractPreservesIInv ==
  ASSUME IInv, NEW s \in Signers, ReadContract(s)
  PROVE  IInv'
<1>1. file \in Contract /\ Descends(file)
  BY DEF IInv, TypeOK, Files, ReadContract, Readable, FileDescends
<1>2. signer[s] \in Signer /\ signer \in [Signers -> Signer]
  BY DEF IInv, TypeOK
<1> DEFINE w == [signer[s] EXCEPT !.pc = "reviewing", !.contract = file]
<1>3. w \in Signer /\ w.pc = "reviewing" /\ w.contract = file
  BY <1>1, <1>2 DEF Signer
<1>4. signer' = [signer EXCEPT ![s] = w]
  BY DEF ReadContract
<1> HIDE DEF w
<1>5. /\ signer' \in [Signers -> Signer] /\ signer'[s] = w
      /\ \A t \in Signers \ {s} : signer'[t] = signer[t]
  BY <1>2, <1>3, <1>4
<1>6. ReviewsDescend' /\ WritersAreReady'
  BY <1>1, <1>3, <1>5 DEF ReviewsDescend, WritersAreReady, IInv
<1> QED
  BY <1>5, <1>6 DEF IInv, ReadContract, TypeOK, FileIsSigned, FileDescends, SignedIsAttested, Readable

LEMMA SignPreservesIInv ==
  ASSUME IInv, NEW s \in Signers, NEW excluded \in Counts, NEW reconfirm \in BOOLEAN,
         NEW reset \in BOOLEAN, Sign(s, excluded, reconfirm, reset)
  PROVE  IInv'
<1> DEFINE c == signer[s].contract
<1>1. c \in Contract /\ Descends(c)
  BY DEF IInv, ReviewsDescend, Sign
<1> HIDE DEF c
<1>2. PICK supplied \in SUBSET Items :
        LET k == Candidate(c, supplied, excluded)
        IN /\ Signable(c, reconfirm, reset) /\ Complete(k)
           /\ signer' = [signer EXCEPT ![s] =
                [pc |-> "writing", reset |-> reset,
                 contract |-> [Stamped(k) EXCEPT !.review.anchor = c.review.anchor]]]
  BY DEF Sign, c, Required
<1> DEFINE k == Candidate(c, supplied, excluded)
           stamped == Stamped(k)
           anchored == [stamped EXCEPT !.review.anchor = c.review.anchor]
           w == [pc |-> "writing", reset |-> reset, contract |-> anchored]
<1>3. k \in Content /\ k.recipe = c.content.recipe
  BY <1>1, CandidateType
<1>4. Attested(k) /\ (c.review.anchor \notin {None, c.content.recipe} => reset)
  BY <1>1, <1>2, SignableIsAttested
<1>5. signer' = [signer EXCEPT ![s] = w]
  BY <1>2
<1> HIDE DEF k
<1>6. stamped \in Contract /\ stamped.content = k
  BY <1>3, <1>4, StampedDescends
<1> HIDE DEF stamped
<1>7. anchored \in Contract /\ anchored.content = k /\ anchored.review.anchor = c.review.anchor
  <2> DEFINE v == [stamped.review EXCEPT !.anchor = c.review.anchor]
  <2>1. c.review.anchor \in Recipes \cup {None}
    BY <1>1, ContractParts DEF Review
  <2>2. v \in Review /\ v.anchor = c.review.anchor
    BY <1>6, <2>1, ContractParts DEF Review
  <2>3. anchored = [content |-> stamped.content, review |-> v]
    BY <1>6, ContractParts
  <2> HIDE DEF v, anchored
  <2> QED BY <1>3, <1>6, <2>2, <2>3 DEF Contract
<1> HIDE DEF anchored
<1>8. /\ w \in Signer /\ w.pc = "writing" /\ w.contract = anchored /\ Declared(w)
  BY <1>3, <1>4, <1>7 DEF Signer, Declared
<1> HIDE DEF w
<1>9. /\ signer' \in [Signers -> Signer] /\ signer'[s] = w
      /\ \A t \in Signers \ {s} : signer'[t] = signer[t]
  BY <1>5, <1>8 DEF IInv, TypeOK
<1>10. ReviewsDescend' /\ WritersAreReady'
  BY <1>4, <1>7, <1>8, <1>9 DEF ReviewsDescend, WritersAreReady, IInv, Declared
<1> QED
  BY <1>9, <1>10 DEF IInv, Sign, TypeOK, FileIsSigned, FileDescends, SignedIsAttested, Readable

LEMMA EndReviewPreservesIInv ==
  ASSUME IInv, NEW s \in Signers, EndReview(s)
  PROVE  IInv'
<1>1. Idle \in Signer /\ Idle.pc = "idle"
  BY DEF Idle, Signer
<1>2. /\ signer' \in [Signers -> Signer] /\ signer'[s].pc = "idle"
      /\ \A t \in Signers \ {s} : signer'[t] = signer[t]
  BY <1>1 DEF IInv, TypeOK, EndReview
<1>3. ReviewsDescend' /\ WritersAreReady'
  BY <1>2 DEF ReviewsDescend, WritersAreReady, IInv, Declared
<1> QED
  BY <1>2, <1>3 DEF IInv, EndReview, TypeOK, FileIsSigned, FileDescends, SignedIsAttested, Readable

LEMMA OverwritePreservesIInv ==
  ASSUME IInv, NEW s \in Signers, Overwrite(s)
  PROVE  IInv'
<1> DEFINE c == signer[s].contract.content
<1>1. c \in Content /\ c.recipe \in Recipes /\ Attested(c)
  BY ContractParts DEF IInv, WritersAreReady, Overwrite
<1>2. /\ Stamped(c) \in Contract /\ Descends(Stamped(c)) /\ Stamped(c).review.content = c
  BY <1>1, StampedDescends
<1>3. file' = Stamped(c) /\ signed' = signed \cup {c}
  BY DEF Overwrite
<1> HIDE DEF c
<1>4. FileIsSigned' /\ FileDescends' /\ SignedIsAttested'
  BY <1>1, <1>2, <1>3 DEF FileIsSigned, FileDescends, SignedIsAttested, IInv
<1>5. Idle \in Signer /\ Idle.pc = "idle"
  BY DEF Idle, Signer
<1>6. /\ signer' \in [Signers -> Signer] /\ signer'[s].pc = "idle"
      /\ \A t \in Signers \ {s} : signer'[t] = signer[t]
  BY <1>5 DEF IInv, TypeOK, Overwrite
<1>7. ReviewsDescend' /\ WritersAreReady'
  BY <1>6 DEF ReviewsDescend, WritersAreReady, IInv, Declared
<1>8. TypeOK'
  BY <1>1, <1>2, <1>3, <1>6 DEF TypeOK, IInv, Files, Overwrite
<1> QED BY <1>4, <1>7, <1>8 DEF IInv

THEOREM InductiveInvariant == Spec => []IInv
<1>1. Init => IInv
  BY InitIInv
<1>2. IInv /\ [Next]_vars => IInv'
  <2>1. IInv /\ Next => IInv'
    BY StartProposePreservesIInv, WriteProposalPreservesIInv, AbandonProposePreservesIInv,
       HandEditPreservesIInv, ReadContractPreservesIInv, SignPreservesIInv, EndReviewPreservesIInv,
       OverwritePreservesIInv DEF Next
  <2>2. IInv /\ UNCHANGED vars => IInv'
    BY DEF IInv, vars, TypeOK, FileIsSigned, FileDescends, ReviewsDescend, WritersAreReady,
           SignedIsAttested, Readable
  <2> QED BY <2>1, <2>2
<1> QED BY <1>1, <1>2, PTL DEF Spec

-----------------------------------------------------------------------------
(* The theorems *)

\* The contract file and every review of it keep their type, whoever writes the file
\* between the steps of whom.
THEOREM TypeCorrect == Spec => []TypeOK
<1>1. IInv => TypeOK
  BY DEF IInv
<1> QED BY <1>1, InductiveInvariant, PTL

\* A source is ingested by nothing but a content a human signed: whatever edits,
\* proposals and other signatures came in between, assert_confirmed lets only those
\* contracts through whose review records the very content they have.
THEOREM OnlySignedIsIngested == Spec => []IngestedIsSigned
<1>1. IInv => IngestedIsSigned
  BY DEF IInv, FileIsSigned, IngestedIsSigned, Confirmed
<1> QED BY <1>1, InductiveInvariant, PTL

\* Over any number of revisions and signatures, carried_attestations carries over no
\* claim to a mapping it was not written about; what is claimed of doubted mappings may be
\* about other doubts, but not about other mappings.
THEOREM ClaimsFollowDecisions == Spec => []ClaimsAreAboutWhatIsSigned
<1>1. ASSUME NEW c, Attested(c), NEW i \in Required(c) \ {"exclusions", "low_confidence_mappings"}
      PROVE  c.attested[i] = Subject(c, i)
  BY <1>1 DEF Attested, Required, Subject, Items
<1>2. ASSUME NEW c, Attested(c), "low_confidence_mappings" \in Required(c)
      PROVE  \E doubts \in Doubted : c.attested["low_confidence_mappings"] = <<c.region, doubts>>
  BY <1>2 DEF Attested, AboutMapping
<1>3. IInv => ClaimsAreAboutWhatIsSigned
  BY <1>1, <1>2 DEF IInv, SignedIsAttested, ClaimsAreAboutWhatIsSigned
<1> QED BY <1>3, InductiveInvariant, PTL

\* review_contract never signs another finding_id recipe than the last signature's
\* without --reset-identity, with whatever evidence the file still has.
THEOREM RekeyingIsSignalled == Spec => []RekeyingIsDeclared
<1>1. IInv => RekeyingIsDeclared
  BY DEF IInv, WritersAreReady, Declared, RekeyingIsDeclared
<1> QED BY <1>1, InductiveInvariant, PTL

-----------------------------------------------------------------------------
(* How the file comes to be: Proposal, whose contract is the first content *)
(* of this file.  Three of its properties are about what the two           *)
(* assemblies make of any proposal; that a human's mapping survives them   *)
(* needs the authors of the proposal, which an invariant follows through   *)
(* models, forms and files.                                                *)

\* A strict contract has the proposal's own mappings, and all of them pass.
LEMMA StrictIsWhole ==
  ASSUME NEW p, Strict(p) # NoContract
  PROVE  LET mapping == [s \in Slots |-> p.slots[s].mapping]
         IN /\ UnresolvedSlots(p) = {} /\ FailedSlots(p) = {}
            /\ Problems(mapping, p.unmapped) = NoProblems
            /\ Strict(p) = AsContract(mapping, p.unmapped, p)
BY DEF Strict

\* No problem means: legal, fitting, and every column accounted for exactly once.
LEMMA NoProblemsMeansWhole ==
  ASSUME NEW mapping, NEW unmapped, Problems(mapping, unmapped) = NoProblems
  PROVE  /\ \A s \in Slots : LegalFor(s, mapping[s]) /\ mapping[s] \notin Misfit
         /\ \A c \in Columns : c \in Accounted(mapping) <=> c \notin unmapped
<1>1. /\ {s \in Slots : ~LegalFor(s, mapping[s]) \/ mapping[s] \in Misfit} = {}
      /\ (Columns \ Accounted(mapping)) \ unmapped = {}
      /\ Accounted(mapping) \cap unmapped = {}
  BY DEF Problems, NoProblems
<1> QED
  BY <1>1

\* What fills a slot that may be filled: grounded, and left out by the scorer on an axis.
LEMMA PlaceholderIsNeutral ==
  ASSUME NEW s \in Slots, HasPlaceholder(s)
  PROVE  /\ Placeholder(s) \in {"literal", "not_collected", "absent"}
         /\ s \in Axes => (IF s = Role THEN Placeholder(s) = "literal"
                                       ELSE Placeholder(s) = "not_collected")
BY SlotAssumption DEF HasPlaceholder, Placeholder

\* The provisional assembly: every mapping is the proposal's own or, where it has none
\* that passes, a placeholder, never over a human's mapping; and the whole passes.
LEMMA ProvisionalIsWhole ==
  ASSUME NEW p, Provisional(p) # NoContract
  PROVE  \E mapping, unmapped :
           /\ Provisional(p) = AsContract(mapping, unmapped, p)
           /\ FailedSlots(p) = {}
           /\ Problems(mapping, unmapped) = NoProblems
           /\ mapping = [s \in Slots |-> mapping[s]]
           /\ \A s \in Slots :
                \/ mapping[s] = p.slots[s].mapping /\ Mapped(s, p)
                \/ /\ mapping[s] = Placeholder(s) /\ HasPlaceholder(s)
                   /\ \/ ~Mapped(s, p)
                      \/ /\ p.slots[s].by # "human"
                         /\ \/ ~LegalFor(s, p.slots[s].mapping)
                            \/ p.slots[s].mapping \in Misfit
<1> DEFINE filled == [s \in Slots |-> IF Mapped(s, p) THEN p.slots[s].mapping
                                                        ELSE Placeholder(s)]
           unmapped == p.unmapped \ Prunable(Problems(filled, p.unmapped))
           problems == Problems(filled, unmapped)
           degraded == [s \in Slots |-> IF s \in problems.slots THEN Placeholder(s)
                                                                ELSE filled[s]]
           again == Problems(degraded, unmapped)
           listed == unmapped \cup (again.orphaned \cap Freed(filled, problems.slots))
<1>1. /\ FailedSlots(p) = {}
      /\ \A s \in UnresolvedSlots(p) : HasPlaceholder(s)
      /\ \/ problems = NoProblems /\ Provisional(p) = AsContract(filled, unmapped, p)
         \/ /\ Degradable(problems, p) /\ Problems(degraded, listed) = NoProblems
            /\ Provisional(p) = AsContract(degraded, listed, p)
  BY DEF Provisional
<1>2. problems.slots = {s \in Slots : ~LegalFor(s, filled[s]) \/ filled[s] \in Misfit}
  <2> HIDE DEF filled, unmapped
  <2> QED BY DEF Problems
<1>3. \A s \in Slots : ~Mapped(s, p) => HasPlaceholder(s)
  BY <1>1 DEF UnresolvedSlots
<1>4. \A s \in Slots : filled[s] = IF Mapped(s, p) THEN p.slots[s].mapping ELSE Placeholder(s)
  OBVIOUS
<1>5. CASE problems = NoProblems /\ Provisional(p) = AsContract(filled, unmapped, p)
  <2>1. filled = [s \in Slots |-> filled[s]]
    OBVIOUS
  <2> HIDE DEF filled, unmapped
  <2> QED BY <1>1, <1>3, <1>4, <1>5, <2>1
<1>6. CASE /\ Degradable(problems, p) /\ Problems(degraded, listed) = NoProblems
           /\ Provisional(p) = AsContract(degraded, listed, p)
  <2>1. degraded = [s \in Slots |-> degraded[s]]
    OBVIOUS
  <2>2. \A s \in Slots : degraded[s] = IF s \in problems.slots THEN Placeholder(s)
                                                               ELSE filled[s]
    OBVIOUS
  <2> HIDE DEF filled, unmapped, problems, degraded, listed
  <2>3. \A s \in problems.slots : p.slots[s].by # "human" /\ HasPlaceholder(s)
    BY <1>6 DEF Degradable
  <2> QED BY <1>1, <1>2, <1>3, <1>4, <1>6, <2>1, <2>2, <2>3
<1> QED BY <1>1, <1>5, <1>6

\* Where the strict assembly succeeds there is nothing to fill, prune or degrade.
LEMMA ProvisionalAgreesWithStrict ==
  ASSUME NEW p, Strict(p) # NoContract
  PROVE  Provisional(p) = Strict(p)
<1> DEFINE mapping == [s \in Slots |-> p.slots[s].mapping]
           filled == [s \in Slots |-> IF Mapped(s, p) THEN p.slots[s].mapping
                                                        ELSE Placeholder(s)]
           unmapped == p.unmapped \ Prunable(Problems(filled, p.unmapped))
<1>1. /\ UnresolvedSlots(p) = {} /\ FailedSlots(p) = {}
      /\ Problems(mapping, p.unmapped) = NoProblems
      /\ Strict(p) = AsContract(mapping, p.unmapped, p)
  BY StrictIsWhole
<1>2. filled = mapping
  BY <1>1 DEF UnresolvedSlots
<1>3. Prunable(Problems(filled, p.unmapped)) = {}
  BY <1>1, <1>2 DEF Prunable, NoProblems
<1>4. unmapped = p.unmapped
  <2> HIDE DEF filled
  <2> QED BY <1>3
<1>5. Problems(filled, unmapped) = NoProblems
  BY <1>1, <1>2, <1>4
<1>6. Provisional(p) = AsContract(filled, unmapped, p)
  BY <1>1, <1>5 DEF Provisional
<1> QED BY <1>1, <1>2, <1>4, <1>6

\* A proposal in which a slot is mapped exactly if somebody chose its mapping.
Chosen(p) ==
  /\ p \in AdapterProposal
  /\ \A s \in Slots : Mapped(s, p) <=> p.slots[s].chosen # "none"

\* What a program may save: a human's mapping that nobody else ever offered has the
\* human as its author, and no vocabulary is left incomplete.
Traced(p) ==
  /\ Chosen(p)
  /\ \A s \in Slots :
       /\ p.slots[s].chosen = "human" /\ <<s, p.slots[s].mapping>> \notin offered =>
            p.slots[s].by = "human"
       /\ s \in RegistryBacked => p.slots[s].mapping # "partial"

\* What was saved was offered, unless a human chose it.
Offered(p) ==
  \A s \in Slots : p.slots[s].chosen \in {"model", "registry"} =>
    <<s, p.slots[s].mapping>> \in offered

WorkerIsTraced(k) ==
  /\ k.pc \in {"resolved", "torn", "writing"} => Traced(k.proposal)
  /\ k.illegal # NoProposal =>
       Chosen(k.illegal) /\ \A s \in Slots : k.illegal.slots[s].chosen \in {"none", "model"}

ContractIsAssembled ==
  contract # NoContract =>
    /\ Traced(contract.source)
    /\ contract \in {Strict(contract.source), Provisional(contract.source)}

\* The inductive invariant of Proposal.
ProposalInv ==
  /\ saved \notin {NoProposal, Torn} => Traced(saved) /\ Offered(saved)
  /\ form # NoProposal => Chosen(form)
  /\ worker \in [Programs -> Worker]
  /\ \A w \in Programs : WorkerIsTraced(worker[w])
  /\ ContractIsAssembled

\* Stamping touches only who is named as the author of a mapped slot.
LEMMA StampKeepsChosen ==
  ASSUME NEW p, Chosen(p), NEW author \in Authors
  PROVE  /\ Chosen(Stamp(p, author))
         /\ \A s \in Slots :
              /\ Stamp(p, author).slots[s].mapping = p.slots[s].mapping
              /\ Stamp(p, author).slots[s].chosen = p.slots[s].chosen
              /\ p.slots[s].chosen # "none" => Stamp(p, author).slots[s].by = author
<1> DEFINE q == Stamp(p, author)
<1>1. p \in AdapterProposal /\ p.slots \in [Slots -> Slot]
  BY DEF Chosen, AdapterProposal
<1>2. q.unmapped = p.unmapped
      /\ q.slots = [s \in Slots |-> IF Mapped(s, p) THEN [p.slots[s] EXCEPT !.by = author]
                                                      ELSE p.slots[s]]
      /\ q = [slots |-> q.slots, unmapped |-> q.unmapped]
  BY <1>1 DEF Stamp, AdapterProposal
<1> HIDE DEF q
<1>3. ASSUME NEW s \in Slots
      PROVE  /\ q.slots[s] \in Slot
             /\ q.slots[s].mapping = p.slots[s].mapping
             /\ q.slots[s].chosen = p.slots[s].chosen
             /\ Mapped(s, p) => q.slots[s].by = author
  BY <1>1, <1>2 DEF Slot, Authors
<1>4. q \in AdapterProposal
  BY <1>1, <1>2, <1>3 DEF AdapterProposal
<1>5. Chosen(q)
  BY <1>3, <1>4 DEF Chosen, Mapped
<1> QED
  BY <1>3, <1>5 DEF q, Chosen

\* Against a saved proposal, a human's mapping is stamped as the human's unless the
\* saved proposal has the same mapping, which was then offered or the human's before.
LEMMA StampPerSlotNamesTheHuman ==
  ASSUME NEW p, Chosen(p), NEW baseline, Traced(baseline), Offered(baseline)
  PROVE  LET q == StampPerSlot(p, baseline)
         IN /\ Chosen(q)
            /\ \A s \in Slots : q.slots[s].chosen = "human" =>
                 \/ q.slots[s].by = "human"
                 \/ /\ <<s, q.slots[s].mapping>> \in offered
                    /\ ~(s \in RegistryBacked /\ q.slots[s].mapping = "partial")
<1> DEFINE q == StampPerSlot(p, baseline)
<1>1. /\ p \in AdapterProposal /\ p.slots \in [Slots -> Slot]
      /\ baseline \in AdapterProposal /\ baseline.slots \in [Slots -> Slot]
  BY DEF Chosen, Traced, AdapterProposal
<1>2. q.unmapped = p.unmapped
      /\ q.slots = [s \in Slots |->
           IF ~Mapped(s, p) THEN p.slots[s]
           ELSE [p.slots[s] EXCEPT !.by =
                   IF baseline.slots[s].mapping = p.slots[s].mapping
                   THEN baseline.slots[s].by ELSE "human"]]
      /\ q = [slots |-> q.slots, unmapped |-> q.unmapped]
  BY <1>1 DEF StampPerSlot, AdapterProposal
<1> HIDE DEF q
<1>3. ASSUME NEW s \in Slots
      PROVE  /\ q.slots[s] \in Slot
             /\ q.slots[s].mapping = p.slots[s].mapping
             /\ q.slots[s].chosen = p.slots[s].chosen
             /\ Mapped(s, p) =>
                  q.slots[s].by = IF baseline.slots[s].mapping = p.slots[s].mapping
                                  THEN baseline.slots[s].by ELSE "human"
  BY <1>1, <1>2 DEF Slot, Authors
<1>4. q \in AdapterProposal
  BY <1>1, <1>2, <1>3 DEF AdapterProposal
<1>5. Chosen(q)
  BY <1>3, <1>4 DEF Chosen, Mapped
<1>6. ASSUME NEW s \in Slots, q.slots[s].chosen = "human", q.slots[s].by # "human"
      PROVE  /\ <<s, q.slots[s].mapping>> \in offered
             /\ ~(s \in RegistryBacked /\ q.slots[s].mapping = "partial")
  <2>1. Mapped(s, p)
    BY <1>3, <1>6 DEF Chosen
  <2>2. /\ baseline.slots[s].mapping = q.slots[s].mapping
        /\ baseline.slots[s].by # "human"
    BY <1>3, <1>6, <2>1
  <2>3. baseline.slots[s].chosen \in {"human", "model", "registry"}
    BY <1>1, <1>3, <2>1, <2>2 DEF Traced, Chosen, Mapped, Slot, Authors
  <2> QED
    BY <2>2, <2>3 DEF Traced, Offered
<1> QED
  BY <1>5, <1>6 DEF q

\* The registry completes vocabularies and takes no mapping from a human.
LEMMA AliasesAreTraced ==
  ASSUME NEW p, Chosen(p),
         \A s \in Slots : p.slots[s].chosen = "human" =>
           \/ p.slots[s].by = "human"
           \/ /\ <<s, p.slots[s].mapping>> \in offered
              /\ ~(s \in RegistryBacked /\ p.slots[s].mapping = "partial")
  PROVE  Traced(WithAliases(p))
<1> DEFINE q == WithAliases(p)
<1>1. p \in AdapterProposal /\ p.slots \in [Slots -> Slot]
  BY DEF Chosen, AdapterProposal
<1>2. /\ q.unmapped = p.unmapped
      /\ q.slots = [s \in Slots |-> Aliased(s, p)]
      /\ q = [slots |-> q.slots, unmapped |-> q.unmapped]
  BY <1>1 DEF WithAliases, AdapterProposal
<1> HIDE DEF q
<1>3. ASSUME NEW s \in Slots
      PROVE  \/ /\ s \in RegistryBacked /\ p.slots[s].mapping = "partial"
                /\ q.slots[s] = [p.slots[s] EXCEPT !.mapping = "full"]
             \/ /\ ~Mapped(s, p)
                /\ q.slots[s] = [mapping |-> "full", by |-> "registry", chosen |-> "registry"]
             \/ /\ ~(s \in RegistryBacked /\ p.slots[s].mapping = "partial")
                /\ q.slots[s] = p.slots[s]
  BY <1>2 DEF Aliased
<1>4. ASSUME NEW s \in Slots
      PROVE  /\ q.slots[s] \in Slot
             /\ Mapped(s, q) <=> q.slots[s].chosen # "none"
             /\ q.slots[s].chosen = "human" /\ <<s, q.slots[s].mapping>> \notin offered =>
                  q.slots[s].by = "human"
             /\ s \in RegistryBacked => q.slots[s].mapping # "partial"
  <2>1. p.slots[s] \in Slot /\ (Mapped(s, p) <=> p.slots[s].chosen # "none")
    BY <1>1 DEF Chosen
  <2>2. CASE /\ s \in RegistryBacked /\ p.slots[s].mapping = "partial"
             /\ q.slots[s] = [p.slots[s] EXCEPT !.mapping = "full"]
    BY <2>1, <2>2 DEF Slot, Mapped, Mappings
  <2>3. CASE q.slots[s] = [mapping |-> "full", by |-> "registry", chosen |-> "registry"]
    BY <2>3 DEF Slot, Mapped, Mappings, Authors
  <2>4. CASE /\ ~(s \in RegistryBacked /\ p.slots[s].mapping = "partial")
             /\ q.slots[s] = p.slots[s]
    BY <2>1, <2>4 DEF Mapped
  <2> QED BY <1>3, <2>2, <2>3, <2>4
<1>5. q \in AdapterProposal
  BY <1>1, <1>2, <1>4 DEF AdapterProposal
<1> QED
  BY <1>4, <1>5 DEF q, Traced, Chosen

\* A model chooses every mapping it answers.
LEMMA AnswersAreTheModels ==
  ASSUME NEW p \in Answers
  PROVE  Chosen(p) /\ \A s \in Slots : p.slots[s].chosen \in {"none", "model"}
<1>1. PICK m \in [Slots -> Mappings \cup {"unresolved"}], u \in Dispositions :
        p = [slots |-> [s \in Slots |-> IF m[s] = "unresolved" THEN Unresolved
                                        ELSE [mapping |-> m[s], by |-> "none", chosen |-> "model"]],
             unmapped |-> u]
  BY DEF Answers
<1>2. ASSUME NEW s \in Slots
      PROVE  /\ p.slots[s] \in Slot /\ p.slots[s].chosen \in {"none", "model"}
             /\ Mapped(s, p) <=> p.slots[s].chosen # "none"
  BY <1>1 DEF Slot, Authors, Unresolved, Mapped
<1>3. p \in AdapterProposal
  BY <1>1, <1>2, ColumnAssumption DEF AdapterProposal
<1> QED BY <1>2, <1>3 DEF Chosen

\* What a model answered is traced once it is stamped and completed.
LEMMA ModelsProposalIsTraced ==
  ASSUME NEW p, Chosen(p), \A s \in Slots : p.slots[s].chosen \in {"none", "model"}
  PROVE  Traced(WithAliases(Stamp(p, "model")))
<1>1. "model" \in Authors
  BY DEF Authors
<1> QED BY <1>1, StampKeepsChosen, AliasesAreTraced

\* So is what is stamped as a human's.
LEMMA HumansProposalIsTraced ==
  ASSUME NEW p, Chosen(p)
  PROVE  Traced(WithAliases(Stamp(p, "human")))
<1>1. "human" \in Authors
  BY DEF Authors
<1> QED BY <1>1, StampKeepsChosen, AliasesAreTraced

\* One slot edited by a human.
LEMMA EditKeepsChosen ==
  ASSUME NEW p, Chosen(p), NEW s \in Slots, NEW m \in Editable[s]
  PROVE  Chosen([p EXCEPT !.slots[s].mapping = m, !.slots[s].chosen = "human"])
<1> DEFINE q == [p EXCEPT !.slots[s].mapping = m, !.slots[s].chosen = "human"]
<1>1. p \in AdapterProposal /\ p.slots \in [Slots -> Slot] /\ m \in Mappings
  BY ColumnAssumption DEF Chosen, AdapterProposal
<1>2. m # "unresolved"
  BY <1>1 DEF Mappings, Ungrounded, IllegalValues, Illegal, Misfit, Unread
<1>3. PICK slot : slot = p.slots[s]
  OBVIOUS
<1>4. slot = [mapping |-> slot.mapping, by |-> slot.by, chosen |-> slot.chosen] /\ slot \in Slot
  BY <1>1, <1>3 DEF Slot
<1>5. PICK r : r = [p EXCEPT !.slots[s].mapping = m]
  OBVIOUS
<1>6. r = [slots |-> [p.slots EXCEPT ![s] = [mapping |-> m, by |-> slot.by, chosen |-> slot.chosen]],
           unmapped |-> p.unmapped]
  BY <1>1, <1>3, <1>4, <1>5 DEF AdapterProposal
<1>7. q = [r EXCEPT !.slots[s].chosen = "human"]
  BY <1>5
<1> HIDE DEF q
<1>8. q = [slots |-> [p.slots EXCEPT ![s] = [mapping |-> m, by |-> slot.by, chosen |-> "human"]],
           unmapped |-> p.unmapped]
  BY <1>1, <1>6, <1>7
<1>9. ASSUME NEW x \in Slots
      PROVE  /\ q.slots[x] \in Slot
             /\ Mapped(x, q) <=> q.slots[x].chosen # "none"
  <2>1. CASE x = s
    BY <1>1, <1>2, <1>4, <1>8, <2>1 DEF Slot, Authors, Mapped
  <2>2. CASE x # s
    BY <1>1, <1>8, <2>2 DEF Mapped, Chosen
  <2> QED BY <2>1, <2>2
<1>10. q \in AdapterProposal
  BY <1>1, <1>8, <1>9 DEF AdapterProposal
<1> QED BY <1>9, <1>10 DEF q, Chosen

\* What has been offered stays so, and with it what is traced and what is offered.
LEMMA OfferedOnlyGrows ==
  ASSUME offered \subseteq offered', NEW p
  PROVE  /\ Traced(p) => Traced(p)'
         /\ Offered(p) => Offered(p)'
BY DEF Traced, Offered, Chosen

\* A step of one program that keeps the files and the form.
LEMMA WorkersStep ==
  ASSUME ProposalInv, NEW w \in Programs, NEW k \in Worker, WorkerIsTraced(k),
         worker' = [worker EXCEPT ![w] = k],
         UNCHANGED <<saved, form, contract, offered>>
  PROVE  ProposalInv'
<1>1. worker' \in [Programs -> Worker] /\ \A x \in Programs : WorkerIsTraced(worker'[x])
  BY DEF ProposalInv
<1>2. ASSUME NEW q
      PROVE  /\ (Traced(q)' <=> Traced(q)) /\ (Offered(q)' <=> Offered(q))
             /\ (Chosen(q)' <=> Chosen(q))
             /\ (WorkerIsTraced(q)' <=> WorkerIsTraced(q))
  BY DEF Traced, Offered, Chosen, WorkerIsTraced
<1>3. ContractIsAssembled'
  BY <1>2 DEF ContractIsAssembled, ProposalInv
<1> QED
  BY <1>1, <1>2, <1>3 DEF ProposalInv

\* The states of a program between two of its steps are states of the invariant.
LEMMA IdleIsTraced ==
  IdleWorker \in Worker /\ WorkerIsTraced(IdleWorker)
BY AttemptAssumption DEF IdleWorker, Worker, WorkerIsTraced

\* After the last attempt the last illegal candidate is stamped and completed too.
LEMMA ExhaustedIsTraced ==
  ASSUME NEW k \in Worker, WorkerIsTraced(k), k.pc = "calling"
  PROVE  Exhausted(k) \in Worker /\ WorkerIsTraced(Exhausted(k))
<1>1. CASE k.attempts < MaxAttempts
  BY <1>1 DEF Exhausted
<1>2. CASE ~(k.attempts < MaxAttempts) /\ k.illegal = NoProposal
  <2>1. Exhausted(k) = [k EXCEPT !.pc = "gave_up"]
    BY <1>2 DEF Exhausted
  <2> QED BY <2>1 DEF Worker, WorkerIsTraced
<1>3. CASE ~(k.attempts < MaxAttempts) /\ k.illegal # NoProposal
  <2>1. PICK p : p = WithAliases(Stamp(k.illegal, "model"))
    OBVIOUS
  <2>2. Exhausted(k) = [k EXCEPT !.pc = "resolved", !.proposal = p]
    BY <1>3, <2>1 DEF Exhausted
  <2>3. Traced(p)
    BY <1>3, <2>1, ModelsProposalIsTraced DEF WorkerIsTraced
  <2>4. p \in AdapterProposal
    BY <2>3 DEF Traced, Chosen
  <2> QED BY <2>2, <2>3, <2>4 DEF Worker, WorkerIsTraced
<1> QED BY <1>1, <1>2, <1>3

\* Nothing is saved, loaded, running or written at first.
LEMMA FirstProposalIsTraced ==
  ASSUME ProposalInit
  PROVE  ProposalInv
BY IdleIsTraced DEF ProposalInit, ProposalInv, ContractIsAssembled

\* A model's attempts change one program, and none of the files.
LEMMA ProposalAttempts ==
  ASSUME ProposalInv, NEW w \in Programs,
         Propose(w) \/ AttemptFails(w) \/ Answer(w) \/ GiveUp(w) \/ Crash(w)
  PROVE  ProposalInv'
<1>1. worker[w] \in Worker /\ WorkerIsTraced(worker[w])
  BY DEF ProposalInv
<1>2. CASE Propose(w)
  <2>1. PICK k : k = [worker[w] EXCEPT !.pc = "calling"]
    OBVIOUS
  <2>2. worker' = [worker EXCEPT ![w] = k] /\ UNCHANGED <<saved, form, contract, offered>>
    BY <1>2, <2>1 DEF Propose
  <2>3. k \in Worker /\ WorkerIsTraced(k)
    BY <1>1, <2>1 DEF Worker, WorkerIsTraced
  <2> QED BY <2>2, <2>3, WorkersStep
<1>3. CASE AttemptFails(w)
  <2>1. PICK k : k = Asked(worker[w])
    OBVIOUS
  <2>2. k \in Worker /\ WorkerIsTraced(k) /\ k.pc = "calling"
    BY <1>1, <1>3, <2>1, AttemptAssumption DEF AttemptFails, Asked, Worker, WorkerIsTraced
  <2>3. worker' = [worker EXCEPT ![w] = Exhausted(k)]
        /\ UNCHANGED <<saved, form, contract, offered>>
    BY <1>3, <2>1 DEF AttemptFails
  <2> QED BY <2>2, <2>3, ExhaustedIsTraced, WorkersStep
<1>4. CASE Answer(w)
  <2>1. PICK p \in Answers :
          worker' = [worker EXCEPT ![w] =
            IF IllegalSlots(p) # {} THEN Exhausted([Asked(@) EXCEPT !.illegal = p])
            ELSE [Asked(@) EXCEPT !.pc = "resolved",
                                    !.proposal = WithAliases(Stamp(p, "model"))]]
    BY <1>4 DEF Answer
  <2>2. Chosen(p) /\ \A s \in Slots : p.slots[s].chosen \in {"none", "model"}
    BY AnswersAreTheModels
  <2>3. PICK asked : asked = Asked(worker[w])
    OBVIOUS
  <2>4. asked \in Worker /\ WorkerIsTraced(asked) /\ asked.pc = "calling"
    <3>1. /\ worker[w].pc = "calling" /\ worker[w].attempts < MaxAttempts
          /\ asked = [worker[w] EXCEPT !.attempts = @ + 1]
      BY <1>4, <2>3 DEF Answer, Asked
    <3> QED BY <1>1, <3>1, AttemptAssumption DEF Worker, WorkerIsTraced
  <2>5. UNCHANGED <<saved, form, contract, offered>>
    BY <1>4 DEF Answer
  <2>6. CASE IllegalSlots(p) # {}
    <3>1. PICK k : k = [asked EXCEPT !.illegal = p]
      OBVIOUS
    <3>2. worker' = [worker EXCEPT ![w] = Exhausted(k)]
      BY <2>1, <2>3, <2>6, <3>1
    <3>3. k \in Worker /\ WorkerIsTraced(k) /\ k.pc = "calling"
      BY <2>2, <2>4, <3>1 DEF Worker, WorkerIsTraced, Chosen
    <3> QED BY <2>5, <3>2, <3>3, ExhaustedIsTraced, WorkersStep
  <2>7. CASE IllegalSlots(p) = {}
    <3>1. PICK q : q = WithAliases(Stamp(p, "model"))
      OBVIOUS
    <3>2. PICK k : k = [asked EXCEPT !.pc = "resolved", !.proposal = q]
      OBVIOUS
    <3>3. worker' = [worker EXCEPT ![w] = k]
      BY <2>1, <2>3, <2>7, <3>1, <3>2
    <3>4. Traced(q) /\ q \in AdapterProposal
      BY <2>2, <3>1, ModelsProposalIsTraced DEF Traced, Chosen
    <3>5. k \in Worker /\ WorkerIsTraced(k)
      BY <2>4, <3>2, <3>4 DEF Worker, WorkerIsTraced
    <3> QED BY <2>5, <3>3, <3>5, WorkersStep
  <2> QED BY <2>6, <2>7
<1>5. CASE GiveUp(w) \/ Crash(w)
  <2>1. worker' = [worker EXCEPT ![w] = IdleWorker] /\ UNCHANGED <<saved, form, contract, offered>>
    BY <1>5 DEF GiveUp, Crash
  <2> QED BY <2>1, IdleIsTraced, WorkersStep
<1> QED BY <1>2, <1>3, <1>4, <1>5

\* A program that has resolved a traced proposal.
LEMMA ResolvedIsTraced ==
  ASSUME NEW p, Traced(p)
  PROVE  LET k == [IdleWorker EXCEPT !.pc = "resolved", !.proposal = p]
         IN k \in Worker /\ WorkerIsTraced(k)
<1> DEFINE k == [IdleWorker EXCEPT !.pc = "resolved", !.proposal = p]
<1>1. p \in AdapterProposal
  BY DEF Traced, Chosen
<1>2. PICK r : r = [IdleWorker EXCEPT !.pc = "resolved"]
  OBVIOUS
<1>3. r = [pc |-> "resolved", proposal |-> NoProposal, illegal |-> NoProposal, attempts |-> 0]
  BY <1>2 DEF IdleWorker
<1>4. k = [r EXCEPT !.proposal = p]
  BY <1>2
<1> HIDE DEF k
<1>5. k = [pc |-> "resolved", proposal |-> p, illegal |-> NoProposal, attempts |-> 0]
  BY <1>3, <1>4
<1>6. 0 \in 0..MaxAttempts
  BY AttemptAssumption
<1>7. k \in Worker /\ WorkerIsTraced(k)
  BY <1>1, <1>5, <1>6 DEF Worker, WorkerIsTraced
<1> QED BY <1>7 DEF k

\* A human's edits reach a program stamped against the file, or wholly as the human's.
LEMMA ProposalEdits ==
  ASSUME ProposalInv,
         \/ LoadForm
         \/ \E s \in Slots, m \in Mappings : EditSlot(s, m) \/ FromProposal(s, m)
         \/ \E claimed \in Authors : SubmitEdit(claimed)
  PROVE  ProposalInv'
<1> USE DEF ProposalInv
<1>1. ASSUME UNCHANGED <<saved, worker, contract, offered>>, form' # NoProposal => Chosen(form')
      PROVE  ProposalInv'
  <2>1. ASSUME NEW q
        PROVE  /\ (Traced(q)' <=> Traced(q)) /\ (Offered(q)' <=> Offered(q))
               /\ (WorkerIsTraced(q)' <=> WorkerIsTraced(q)) /\ (Chosen(q)' <=> Chosen(q))
    BY <1>1 DEF Traced, Offered, Chosen, WorkerIsTraced
  <2>2. ContractIsAssembled'
    BY <1>1, <2>1 DEF ContractIsAssembled
  <2> QED BY <1>1, <2>1, <2>2
<1>2. CASE LoadForm
  BY <1>1, <1>2 DEF LoadForm, Traced
<1>3. ASSUME NEW s \in Slots, NEW m \in Mappings, EditSlot(s, m)
      PROVE  ProposalInv'
  <2>1. Chosen(form')
    BY <1>3, EditKeepsChosen DEF EditSlot
  <2> QED BY <1>1, <1>3, <2>1 DEF EditSlot
<1>4. ASSUME NEW s \in Slots, NEW m \in Mappings, FromProposal(s, m)
      PROVE  ProposalInv'
  <2> DEFINE edited == IF m = saved.slots[s].mapping THEN saved
                       ELSE [saved EXCEPT !.slots[s].mapping = m, !.slots[s].chosen = "human"]
             p == WithAliases(Stamp(edited, "human"))
             k == [IdleWorker EXCEPT !.pc = "resolved", !.proposal = p]
  <2>1. worker' = [worker EXCEPT !["cli"] = k] /\ UNCHANGED <<saved, form, contract, offered>>
    BY <1>4 DEF FromProposal
  <2>2. Chosen(edited)
    BY <1>4, EditKeepsChosen DEF FromProposal, Traced
  <2> HIDE DEF edited
  <2>3. Traced(p)
    BY <2>2, HumansProposalIsTraced
  <2> HIDE DEF p
  <2>4. k \in Worker /\ WorkerIsTraced(k)
    BY <2>3, ResolvedIsTraced
  <2>5. "cli" \in Programs
    BY DEF Programs
  <2> HIDE DEF k
  <2> QED BY <2>1, <2>4, <2>5, WorkersStep
<1>5. ASSUME NEW claimed \in Authors, SubmitEdit(claimed)
      PROVE  ProposalInv'
  <2> DEFINE q == Stamp(form, claimed)
             p == WithAliases(IF saved \in {NoProposal, Torn} THEN Stamp(q, "human")
                                ELSE StampPerSlot(q, saved))
             k == [IdleWorker EXCEPT !.pc = "resolved", !.proposal = p]
  <2>1. worker' = [worker EXCEPT !["job"] = k] /\ UNCHANGED <<saved, form, contract, offered>>
    BY <1>5 DEF SubmitEdit
  <2>2. Chosen(q)
    BY <1>5, StampKeepsChosen DEF SubmitEdit
  <2> HIDE DEF q
  <2>3. Traced(p)
    <3>1. CASE saved \in {NoProposal, Torn}
      BY <2>2, <3>1, HumansProposalIsTraced
    <3>2. CASE saved \notin {NoProposal, Torn}
      BY <2>2, <3>2, StampPerSlotNamesTheHuman, AliasesAreTraced
    <3> QED BY <3>1, <3>2
  <2> HIDE DEF p
  <2>4. k \in Worker /\ WorkerIsTraced(k)
    BY <2>3, ResolvedIsTraced
  <2>5. "job" \in Programs
    BY DEF Programs
  <2> HIDE DEF k
  <2> QED BY <2>1, <2>4, <2>5, WorkersStep
<1> QED BY <1>2, <1>3, <1>4, <1>5

\* What a program saves and writes is the traced proposal it has resolved.
LEMMA ProposalFiles ==
  ASSUME ProposalInv, NEW w \in Programs,
         TearSaved(w) \/ SaveProposal(w) \/ WriteContract(w)
  PROVE  ProposalInv'
<1>1. worker[w] \in Worker /\ WorkerIsTraced(worker[w])
  BY DEF ProposalInv
<1>2. PICK p : p = worker[w].proposal
  OBVIOUS
<1>3. CASE TearSaved(w)
  <2>1. PICK k : k = [worker[w] EXCEPT !.pc = "torn"]
    OBVIOUS
  <2>2. k \in Worker /\ WorkerIsTraced(k)
    BY <1>1, <1>3, <2>1 DEF TearSaved, Worker, WorkerIsTraced
  <2>3. worker' = [worker EXCEPT ![w] = k]
    BY <1>3, <2>1 DEF TearSaved
  <2>4. saved' = Torn /\ UNCHANGED <<form, contract, offered>>
    BY <1>3 DEF TearSaved
  <2>5. ASSUME NEW q
        PROVE  /\ (Traced(q)' <=> Traced(q)) /\ (WorkerIsTraced(q)' <=> WorkerIsTraced(q))
    BY <2>4 DEF Traced, Chosen, WorkerIsTraced
  <2>6. ContractIsAssembled'
    BY <2>4, <2>5 DEF ContractIsAssembled, ProposalInv
  <2> QED BY <2>2, <2>3, <2>4, <2>5, <2>6 DEF ProposalInv
<1>4. CASE SaveProposal(w)
  <2>1. PICK k : k = IF Assembled(w, p) = NoContract THEN IdleWorker
                     ELSE [IdleWorker EXCEPT !.pc = "writing", !.proposal = p]
    OBVIOUS
  <2>2. /\ worker' = [worker EXCEPT ![w] = k] /\ saved' = p
        /\ UNCHANGED <<form, contract>>
        /\ offered' = offered \cup
             {<<s, p.slots[s].mapping>> :
                s \in {x \in Slots : p.slots[x].chosen \in {"model", "registry"}}}
        /\ worker[w].pc \in {"resolved", "torn"}
    BY <1>2, <1>4, <2>1 DEF SaveProposal
  <2>3. Traced(p) /\ p \in AdapterProposal
    BY <1>1, <1>2, <2>2 DEF WorkerIsTraced, Traced, Chosen
  <2>4. k \in Worker /\ WorkerIsTraced(k)
    BY <2>1, <2>3, IdleIsTraced DEF IdleWorker, Worker, WorkerIsTraced
  <2>5. offered \subseteq offered'
    BY <2>2
  <2>6. ASSUME NEW q
        PROVE  (Traced(q) => Traced(q)') /\ (WorkerIsTraced(q) => WorkerIsTraced(q)')
    BY <2>5, OfferedOnlyGrows DEF WorkerIsTraced
  <2>7. Traced(p)' /\ Offered(p)'
    BY <2>2, <2>3, <2>6 DEF Offered
  <2>8. ContractIsAssembled'
    BY <2>2, <2>6 DEF ContractIsAssembled, ProposalInv
  <2>9. worker' \in [Programs -> Worker] /\ \A x \in Programs : WorkerIsTraced(worker'[x])
    BY <2>2, <2>4 DEF ProposalInv
  <2>10. \A x \in Programs : WorkerIsTraced(worker[x])'
    BY <2>6, <2>9
  <2> QED BY <2>2, <2>7, <2>8, <2>9, <2>10 DEF ProposalInv, Chosen
<1>5. CASE WriteContract(w)
  <2>1. /\ worker' = [worker EXCEPT ![w] = IdleWorker]
        /\ contract' = Assembled(w, p) /\ worker[w].pc = "writing"
        /\ UNCHANGED <<saved, form, offered>>
    BY <1>2, <1>5 DEF WriteContract
  <2>2. Traced(p)
    BY <1>1, <1>2, <2>1 DEF WorkerIsTraced
  <2>3. ASSUME NEW q
        PROVE  /\ (Traced(q)' <=> Traced(q)) /\ (Offered(q)' <=> Offered(q))
               /\ (WorkerIsTraced(q)' <=> WorkerIsTraced(q))
    BY <2>1 DEF Traced, Offered, Chosen, WorkerIsTraced
  <2>4. ASSUME contract' # NoContract
        PROVE  /\ contract'.source = p
               /\ contract' \in {Strict(p), Provisional(p)}
    <3>1. contract' \in {Strict(p), Provisional(p)}
      BY <2>1 DEF Assembled
    <3>2. Strict(p) # NoContract => Strict(p).source = p
      BY DEF Strict, AsContract
    <3>3. Provisional(p) # NoContract => Provisional(p).source = p
      BY ProvisionalIsWhole DEF AsContract
    <3> QED BY <2>4, <3>1, <3>2, <3>3
  <2>5. ContractIsAssembled'
    BY <2>2, <2>3, <2>4 DEF ContractIsAssembled
  <2>6. worker' \in [Programs -> Worker] /\ \A x \in Programs : WorkerIsTraced(worker'[x])
    BY <2>1, IdleIsTraced DEF ProposalInv
  <2> QED BY <2>1, <2>3, <2>5, <2>6 DEF ProposalInv, Chosen
<1> QED BY <1>3, <1>4, <1>5

\* Of whom every mapping in a contract is: the proposal's, or nobody's and neutral.
THEOREM ProposalInvariant ==
  ProposalSpec => []ProposalInv
<1>1. ProposalInit => ProposalInv
  BY FirstProposalIsTraced
<1>2. ProposalInv /\ [ProposalNext]_proposalVars => ProposalInv'
  <2>1. ASSUME ProposalInv, ProposalNext PROVE ProposalInv'
    <3>1. CASE \E w \in Programs : Propose(w) \/ Step(w) \/ Crash(w)
      BY <2>1, <3>1, ProposalAttempts, ProposalFiles DEF Step
    <3>2. CASE \/ LoadForm
               \/ \E s \in Slots, m \in Mappings : EditSlot(s, m) \/ FromProposal(s, m)
               \/ \E claimed \in Authors : SubmitEdit(claimed)
      BY <2>1, <3>2, ProposalEdits
    <3> QED BY <2>1, <3>1, <3>2 DEF ProposalNext
  <2>2. ASSUME ProposalInv, UNCHANGED proposalVars PROVE ProposalInv'
    BY <2>2 DEF ProposalInv, proposalVars, Traced, Offered, Chosen, WorkerIsTraced, ContractIsAssembled
  <2> QED BY <2>1, <2>2
<1> QED BY <1>1, <1>2, PTL DEF ProposalSpec

\* Whichever assembly a contract comes from, it maps every slot, to a mapping, and lists
\* columns of the source.
LEMMA AssembliesAreTyped ==
  ASSUME NEW p \in AdapterProposal
  PROVE  {Strict(p), Provisional(p)} \subseteq AssembledContract \cup {NoContract}
<1>1. /\ \A s \in Slots : p.slots[s].mapping \in Mappings \cup {"unresolved"}
      /\ p.unmapped \subseteq Columns
  BY DEF AdapterProposal, Slot
<1>2. ASSUME Strict(p) # NoContract PROVE Strict(p) \in AssembledContract
  <2> DEFINE mapping == [s \in Slots |-> p.slots[s].mapping]
  <2>1. UnresolvedSlots(p) = {} /\ Strict(p) = AsContract(mapping, p.unmapped, p)
    BY <1>2, StrictIsWhole
  <2>2. \A s \in Slots : p.slots[s].mapping \in Mappings
    BY <1>1, <2>1 DEF UnresolvedSlots, Mapped
  <2>3. mapping \in [Slots -> Mappings]
    BY <2>2
  <2> HIDE DEF mapping
  <2> QED BY <1>1, <2>1, <2>3 DEF AsContract, AssembledContract
<1>3. ASSUME Provisional(p) # NoContract PROVE Provisional(p) \in AssembledContract
  <2>1. PICK mapping, unmapped :
          /\ Provisional(p) = AsContract(mapping, unmapped, p)
          /\ mapping = [s \in Slots |-> mapping[s]]
          /\ \A s \in Slots :
               \/ mapping[s] = p.slots[s].mapping /\ Mapped(s, p)
               \/ mapping[s] = Placeholder(s) /\ HasPlaceholder(s)
    BY <1>3, ProvisionalIsWhole
  <2>2. \A s \in Slots : mapping[s] \in Mappings
    BY <1>1, <2>1, PlaceholderIsNeutral DEF Mapped, Mappings, Unread
  <2>3. mapping \in [Slots -> Mappings]
    BY <2>1, <2>2
  <2>4. unmapped \subseteq Columns
    <3> DEFINE filled == [s \in Slots |-> IF Mapped(s, p) THEN p.slots[s].mapping
                                                           ELSE Placeholder(s)]
               kept == p.unmapped \ Prunable(Problems(filled, p.unmapped))
               problems == Problems(filled, kept)
               degraded == [s \in Slots |-> IF s \in problems.slots THEN Placeholder(s)
                                                                    ELSE filled[s]]
               again == Problems(degraded, kept)
               listed == kept \cup (again.orphaned \cap Freed(filled, problems.slots))
    <3>1. \/ Provisional(p) = AsContract(filled, kept, p)
          \/ Provisional(p) = AsContract(degraded, listed, p)
      BY <1>3 DEF Provisional
    <3>2. unmapped = kept \/ unmapped = listed
      <4> HIDE DEF filled, kept, degraded, listed
      <4> QED BY <2>1, <3>1 DEF AsContract
    <3>3. again.orphaned \subseteq Columns
      <4> HIDE DEF filled, kept, degraded
      <4> QED BY DEF Problems
    <3>4. kept \subseteq Columns
      BY <1>1
    <3> HIDE DEF filled, kept, problems, again
    <3> QED BY <3>2, <3>3, <3>4
  <2> QED BY <2>1, <2>3, <2>4 DEF AsContract, AssembledContract
<1> QED BY <1>2, <1>3

\* The proposals, the programs' states and the contract keep their types, over torn files,
\* crashes and everybody's answers and edits.
THEOREM ProposalTypeCorrect == ProposalSpec => []ProposalTypeOK
<1> DEFINE Counted == offered \subseteq Slots \X Mappings /\ jobs \in 0..MaxJobs
<1>1. ProposalInit => Counted
  BY AttemptAssumption DEF ProposalInit
<1>2. ProposalInv /\ Counted /\ [ProposalNext]_proposalVars => Counted'
  <2> SUFFICES ASSUME ProposalInv, Counted, [ProposalNext]_proposalVars PROVE Counted'
    OBVIOUS
  <2>1. jobs' \in 0..MaxJobs
    <3>1. jobs' = jobs \/ (jobs < MaxJobs /\ jobs' = jobs + 1)
      BY DEF ProposalNext, proposalVars, Propose, Begin, Step, AttemptFails, Answer, GiveUp,
             TearSaved, SaveProposal, WriteContract, Crash, LoadForm, EditSlot, FromProposal,
             SubmitEdit
    <3> QED BY <3>1, AttemptAssumption
  <2>2. CASE \E w \in Programs : SaveProposal(w)
    <3>1. PICK w \in Programs : SaveProposal(w)
      BY <2>2
    <3>2. PICK p : p = worker[w].proposal
      OBVIOUS
    <3>3. Chosen(p)
      BY <3>1, <3>2 DEF SaveProposal, ProposalInv, WorkerIsTraced, Traced
    <3>4. \A s \in Slots : p.slots[s].chosen \in {"model", "registry"} =>
                              p.slots[s].mapping \in Mappings
      BY <3>3 DEF Chosen, Mapped, AdapterProposal, Slot
    <3>5. offered' = offered \cup
            {<<s, p.slots[s].mapping>> :
               s \in {x \in Slots : p.slots[x].chosen \in {"model", "registry"}}}
      BY <3>1, <3>2 DEF SaveProposal
    <3> QED BY <2>1, <3>4, <3>5
  <2>3. CASE ~\E w \in Programs : SaveProposal(w)
    <3>1. offered' = offered
      BY <2>3 DEF ProposalNext, proposalVars, Propose, Step, AttemptFails, Answer, GiveUp,
                  TearSaved, WriteContract, Crash, LoadForm, EditSlot, FromProposal, SubmitEdit
    <3> QED BY <2>1, <3>1
  <2> QED BY <2>2, <2>3
<1>3. ProposalInv /\ Counted => ProposalTypeOK
  <2> SUFFICES ASSUME ProposalInv, Counted PROVE ProposalTypeOK
    OBVIOUS
  <2>1. saved \in AdapterProposal \cup {NoProposal, Torn} /\ form \in AdapterProposal \cup {NoProposal}
    BY DEF ProposalInv, Traced, Chosen
  <2>2. contract \in AssembledContract \cup {NoContract}
    <3>1. CASE contract # NoContract
      <4>1. PICK p : p = contract.source
        OBVIOUS
      <4>2. p \in AdapterProposal /\ contract \in {Strict(p), Provisional(p)}
        BY <3>1, <4>1 DEF ProposalInv, ContractIsAssembled, Traced, Chosen
      <4> QED BY <4>2, AssembliesAreTyped
    <3> QED BY <3>1
  <2> QED BY <2>1, <2>2 DEF ProposalInv, ProposalTypeOK
<1> HIDE DEF Counted
<1> QED BY <1>1, <1>2, <1>3, ProposalInvariant, PTL DEF ProposalSpec

\* What a written contract maps a slot to, and from which proposal.
LEMMA ContractsMappings ==
  ASSUME ProposalInv, contract # NoContract
  PROVE  /\ Traced(contract.source)
         /\ FailedSlots(contract.source) = {}
         /\ Problems(contract.mapping, contract.unmapped) = NoProblems
         /\ \A s \in Slots :
              \/ /\ contract.mapping[s] = contract.source.slots[s].mapping
                 /\ Mapped(s, contract.source)
              \/ /\ contract.mapping[s] = Placeholder(s) /\ HasPlaceholder(s)
                 /\ ~Mapped(s, contract.source) \/ contract.source.slots[s].by # "human"
<1> DEFINE p == contract.source
<1>1. Traced(p) /\ (contract = Strict(p) \/ contract = Provisional(p))
  BY DEF ProposalInv, ContractIsAssembled
<1>2. PICK q : q = p
  OBVIOUS
<1>3. CASE contract = Strict(p)
  <2>1. Strict(q) # NoContract
    BY <1>2, <1>3
  <2>2. /\ UnresolvedSlots(q) = {} /\ FailedSlots(q) = {}
        /\ Problems([s \in Slots |-> q.slots[s].mapping], q.unmapped) = NoProblems
        /\ contract = AsContract([s \in Slots |-> q.slots[s].mapping], q.unmapped, q)
    BY <1>2, <1>3, <2>1, StrictIsWhole
  <2>3. /\ contract.mapping = [s \in Slots |-> q.slots[s].mapping]
        /\ contract.unmapped = q.unmapped
    BY <2>2 DEF AsContract
  <2>4. \A s \in Slots : Mapped(s, q)
    BY <2>2 DEF UnresolvedSlots
  <2> HIDE DEF p
  <2> QED BY <1>1, <1>2, <2>2, <2>3, <2>4 DEF p
<1>4. CASE contract = Provisional(p)
  <2>1. Provisional(q) # NoContract
    BY <1>2, <1>4
  <2>2. PICK mapping, unmapped :
           /\ Provisional(q) = AsContract(mapping, unmapped, q)
           /\ FailedSlots(q) = {}
           /\ Problems(mapping, unmapped) = NoProblems
           /\ \A s \in Slots :
                \/ mapping[s] = q.slots[s].mapping /\ Mapped(s, q)
                \/ /\ mapping[s] = Placeholder(s) /\ HasPlaceholder(s)
                   /\ ~Mapped(s, q) \/ q.slots[s].by # "human"
    BY <2>1, ProvisionalIsWhole
  <2>3. contract.mapping = mapping /\ contract.unmapped = unmapped
    BY <1>2, <1>4, <2>2 DEF AsContract
  <2> QED BY <1>1, <1>2, <2>2, <2>3
<1> QED BY <1>1, <1>3, <1>4

\* No human's mapping is lost: a slot that somebody chose is mapped, and one that only
\* a human chose has the human as its author, so no assembly fills or degrades it.
THEOREM HumansMappingIsKept ==
  ProposalSpec => []HumanMappingIsKept
<1>1. ProposalInv => HumanMappingIsKept
  <2> SUFFICES ASSUME ProposalInv, contract # NoContract, NEW s \in Slots,
                      contract.source.slots[s].chosen = "human",
                      <<s, contract.source.slots[s].mapping>> \notin offered
               PROVE  contract.mapping[s] = contract.source.slots[s].mapping
    BY DEF HumanMappingIsKept
  <2>1. Traced(contract.source)
    BY ContractsMappings
  <2>2. Mapped(s, contract.source) /\ contract.source.slots[s].by = "human"
    BY <2>1 DEF Traced, Chosen
  <2> QED BY <2>2, ContractsMappings
<1> QED BY <1>1, ProposalInvariant, PTL

\* No fabricated value moves a score: what differs from the proposal is a placeholder,
\* and on an axis every placeholder is one the scorer leaves out.
THEOREM FabricatedValuesAreNeutral ==
  ProposalSpec => []FabricatedValueIsNeutralized
<1>1. ProposalInv => FabricatedValueIsNeutralized
  <2> SUFFICES ASSUME ProposalInv, contract # NoContract, NEW s \in Axes,
                      contract.mapping[s] # contract.source.slots[s].mapping
               PROVE  s \in Neutralized(contract)
    BY DEF FabricatedValueIsNeutralized
  <2>1. s \in Slots
    BY SlotAssumption
  <2>2. contract.mapping[s] = Placeholder(s) /\ HasPlaceholder(s)
    BY <2>1, ContractsMappings
  <2>3. contract.mapping[s] = IF s = Role THEN "literal" ELSE "not_collected"
    BY <2>1, <2>2, PlaceholderIsNeutral
  <2> QED BY <2>3 DEF Neutralized
<1> QED BY <1>1, ProposalInvariant, PTL

\* Whichever repairs an assembly went through, what it writes is legal, grounded, and
\* accounts for every column exactly once.
THEOREM WrittenContractsAreWhole ==
  ProposalSpec => []WrittenContractIsWhole
<1>1. ProposalInv => WrittenContractIsWhole
  <2> SUFFICES ASSUME ProposalInv, contract # NoContract
               PROVE  /\ \A s \in Slots :
                           contract.mapping[s] \notin Ungrounded \cup Illegal \cup Misfit
                      /\ \A c \in Columns :
                           c \in Accounted(contract.mapping) <=> c \notin contract.unmapped
    BY DEF WrittenContractIsWhole
  <2>1. PICK mapping, unmapped : mapping = contract.mapping /\ unmapped = contract.unmapped
    OBVIOUS
  <2>2. /\ \A s \in Slots : LegalFor(s, mapping[s]) /\ mapping[s] \notin Misfit
        /\ \A c \in Columns : c \in Accounted(mapping) <=> c \notin unmapped
    BY <2>1, ContractsMappings, NoProblemsMeansWhole
  <2>3. ASSUME NEW s \in Slots PROVE mapping[s] \notin Ungrounded
    <3>1. CASE mapping[s] = contract.source.slots[s].mapping
      BY <3>1, ContractsMappings DEF FailedSlots
    <3>2. CASE mapping[s] = Placeholder(s) /\ HasPlaceholder(s)
      <4>1. mapping[s] \in {"literal", "not_collected", "absent"}
        BY <3>2, PlaceholderIsNeutral
      <4> QED BY <4>1 DEF Ungrounded, IllegalValues
    <3> QED BY <2>1, <3>1, <3>2, ContractsMappings
  <2> QED BY <2>1, <2>2, <2>3 DEF LegalFor
<1> QED BY <1>1, ProposalInvariant, PTL

\* The provisional assembly is the strict one wherever that succeeds, and changes no
\* mapping that passes.
THEOREM ProvisionalOnlyFills == ProposalSpec => []ProvisionalExtendsStrict
<1>1. ProvisionalExtendsStrict
  <2>1. PICK p : p = saved
    OBVIOUS
  <2>2. Strict(p) # NoContract => Provisional(p) = Strict(p)
    BY ProvisionalAgreesWithStrict
  <2>3. ASSUME Provisional(p) # NoContract, NEW s \in Slots,
               LegalFor(s, p.slots[s].mapping),
               p.slots[s].mapping \notin Misfit \cup {"unresolved"}
        PROVE  Provisional(p).mapping[s] = p.slots[s].mapping
    <3>1. PICK mapping, unmapped :
             /\ Provisional(p) = AsContract(mapping, unmapped, p)
             /\ \A x \in Slots :
                  \/ mapping[x] = p.slots[x].mapping
                  \/ ~Mapped(x, p)
                  \/ ~LegalFor(x, p.slots[x].mapping)
                  \/ p.slots[x].mapping \in Misfit
      BY <2>3, ProvisionalIsWhole
    <3>2. Provisional(p).mapping = mapping
      BY <3>1 DEF AsContract
    <3> QED BY <2>3, <3>1, <3>2 DEF Mapped
  <2> QED BY <2>1, <2>2, <2>3 DEF ProvisionalExtendsStrict
<1> QED BY <1>1, PTL

=============================================================================
