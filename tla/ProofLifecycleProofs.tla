------------------------- MODULE ProofLifecycleProofs -------------------------
(***************************************************************************)
(* Proofs about ProofLifecycle, for every set of primitives, versions and   *)
(* values, every length of an order and every number of corruptions.        *)
(*                                                                         *)
(* The inductive invariant remembers two things that the properties need    *)
(* and no state shows: that the issued proof is what the generator makes of *)
(* some arguments, and that every copy carries its envelope commitment.     *)
(***************************************************************************)
EXTENDS ProofLifecycle, ProofTheoryProofs

VersionMaps == [Ids -> Versions] \cup {<<>>}
ReasonLists == Seq(Reasons \cup {Blank} \cup LegacyReasons)

(* The proof is what the generator makes of some arguments. *)
WasGenerated(proof) ==
  \E decision \in BOOLEAN, order \in SeqOf(IdArguments, MaxPrimitives),
     signals \in SeqOf(SignalInput, MaxPrimitives), versions \in VersionMaps,
     reasons \in ReasonLists, context \in Contexts, time \in Times :
    IsGenerated(proof, decision, order, signals, versions, reasons, context, time)

Sealed == issued # NoProof => WasGenerated(issued)

SameEnvelope == issued # NoProof => held.envelope_commitment = issued.envelope_commitment

LegacyDenies == legacy => issued # NoProof /\ ~issued.decision

IInv == TypeOK /\ Sealed /\ SameEnvelope /\ LegacyDenies
-----------------------------------------------------------------------------
(* Types. *)

LEMMA SeqOfLength ==
  ASSUME NEW S, NEW m \in Nat, NEW seq \in SeqOf(S, m)
  PROVE  \E n \in 0..m : seq \in [1..n -> S] /\ Len(seq) = n
BY DEF SeqOf

LEMMA SeqOfIsSeq ==
  ASSUME NEW S, NEW m \in Nat
  PROVE  SeqOf(S, m) \subseteq Seq(S)
BY DEF SeqOf

LEMMA EmptySeqOf ==
  ASSUME NEW S, NEW m \in Nat
  PROVE  <<>> \in SeqOf(S, m)
<1>1. <<>> \in [1..0 -> S] /\ 0 \in 0..m
  OBVIOUS
<1> QED BY <1>1 DEF SeqOf

LEMMA CanonicalType ==
  ASSUME NEW signal \in SignalInput, signal.data \notin Uncommittable
  PROVE  CanonicalSignal(signal) \in StoredSignal
BY DEF SignalInput, StoredSignal, StoredValues, CanonicalSignal, Encode

LEMMA InputShape ==
  ASSUME NEW signal \in SignalInput
  PROVE  SignalShape(signal)
BY DEF SignalInput, SignalShape

(* What the arguments of the generator say of each other. *)
LEMMA GeneratorArguments ==
  ASSUME NEW decision, NEW order \in SeqOf(IdArguments, MaxPrimitives),
         NEW signals \in SeqOf(SignalInput, MaxPrimitives), NEW versions \in VersionMaps,
         NEW reasons, NEW context,
         CanProve(decision, order, signals, versions, reasons, context)
  PROVE  \E n \in 0..MaxPrimitives :
           /\ order \in [1..n -> Ids]
           /\ Len(order) = n
           /\ signals \in [1..n -> SignalInput]
           /\ \A i \in 1..n : signals[i].data \notin Uncommittable
           /\ \A i \in 1..n : versions[order[i]] \in Versions
<1>1. PICK n \in 0..MaxPrimitives : order \in [1..n -> IdArguments] /\ Len(order) = n
  BY SeqOfLength, LifecycleConstants
<1>2. PICK m \in 0..MaxPrimitives : signals \in [1..m -> SignalInput] /\ Len(signals) = m
  BY SeqOfLength, LifecycleConstants
<1>3. m = n
  BY <1>1, <1>2 DEF CanProve
<1>4. DOMAIN order = 1..n
  BY <1>1
<1>5. \A i \in 1..n : order[i] \in Ids
  BY <1>1, <1>4 DEF CanProve, EvaluatedOnce, IdArguments
<1>6. \A i \in 1..n : versions[order[i]] \in Versions
  BY <1>4 DEF CanProve, EvaluatedOnce, VersionMaps
<1>7. \A i \in 1..n : signals[i].data \notin Uncommittable
  BY <1>4 DEF CanProve
<1>8. order \in [1..n -> Ids]
  BY <1>1, <1>5
<1> QED BY <1>1, <1>2, <1>3, <1>6, <1>7, <1>8

(* The generator makes proofs. *)
LEMMA GeneratedType ==
  ASSUME NEW proof, WasGenerated(proof)
  PROVE  proof \in GovernanceProof
<1>1. PICK decision \in BOOLEAN, order \in SeqOf(IdArguments, MaxPrimitives),
           signals \in SeqOf(SignalInput, MaxPrimitives), versions \in VersionMaps,
           reasons \in ReasonLists, context \in Contexts, time \in Times :
             IsGenerated(proof, decision, order, signals, versions, reasons, context, time)
  BY DEF WasGenerated
<1>2. CanProve(decision, order, signals, versions, reasons, context)
  BY <1>1 DEF IsGenerated
<1>3. PICK n \in 0..MaxPrimitives :
        /\ order \in [1..n -> Ids]
        /\ Len(order) = n
        /\ signals \in [1..n -> SignalInput]
        /\ \A i \in 1..n : signals[i].data \notin Uncommittable
        /\ \A i \in 1..n : versions[order[i]] \in Versions
  BY <1>2, GeneratorArguments
<1>4. order \in SeqOf(Ids, MaxPrimitives)
  BY <1>3 DEF SeqOf
<1>5. proof.primitive_versions \in UNION {[S -> Versions] : S \in SUBSET Ids}
  <2> DEFINE ids == {order[i] : i \in DOMAIN order}
  <2>1. proof.primitive_versions = [id \in ids |-> versions[id]]
    BY <1>1 DEF IsGenerated
  <2>2. ids \in SUBSET Ids /\ \A id \in ids : versions[id] \in Versions
    BY <1>3
  <2> HIDE DEF ids
  <2>3. proof.primitive_versions \in [ids -> Versions]
    BY <2>1, <2>2
  <2> QED BY <2>2, <2>3
<1>6. \A i \in 1..n : CanonicalSignal(signals[i]) \in StoredSignal
  BY <1>3, CanonicalType
<1>7. proof.signals \in Seq(StoredSignal) /\ proof.signal_commitments \in Seq([sha256 : StoredSignal])
  <2>1. /\ proof.signals = [i \in 1..Len(order) |-> CanonicalSignal(signals[i])]
        /\ proof.signal_commitments = [i \in 1..Len(order) |-> Commitment(CanonicalSignal(signals[i]))]
    BY <1>1 DEF IsGenerated
  <2>2. proof.signals = [i \in 1..n |-> CanonicalSignal(signals[i])]
    BY <1>3, <2>1
  <2>3. proof.signal_commitments = [i \in 1..n |-> Commitment(CanonicalSignal(signals[i]))]
    BY <1>3, <2>1
  <2>4. \A i \in 1..n : Commitment(CanonicalSignal(signals[i])) \in [sha256 : StoredSignal]
    BY <1>6 DEF Commitment
  <2> QED BY <1>6, <2>2, <2>3, <2>4
<1>8. context # NoContext => Encode(context) \in StoredValues
  BY <1>2 DEF CanProve, Contexts, StoredValues, Encode
<1>9. /\ proof.context_snapshot \in {NoContext} \cup Values \cup StoredValues
      /\ proof.context_commitment \in {NoCommitment} \cup [sha256 : StoredValues]
  BY <1>1, <1>8 DEF IsGenerated, Commitment
<1>10. /\ proof.schema_version \in SchemaVersions
       /\ proof.evaluation_order \in SeqOf(Ids, MaxPrimitives)
       /\ proof.decision \in BOOLEAN
       /\ proof.failure_reasons \in Seq(Reasons \cup {Blank} \cup LegacyReasons)
       /\ proof.generated_at \in Times
       /\ HasProofFields(proof)
       /\ proof.envelope_commitment = Commitment(Envelope(proof))
  <2>1. proof.schema_version \in SchemaVersions
    BY <1>1, Zenon DEF IsGenerated, SchemaVersions
  <2>2. proof.evaluation_order \in SeqOf(Ids, MaxPrimitives)
    BY <1>1, <1>4 DEF IsGenerated
  <2>3. proof.decision = decision
    BY <1>1, Zenon DEF IsGenerated
  <2>4. proof.failure_reasons \in Seq(Reasons \cup {Blank} \cup LegacyReasons)
    BY <1>1, Zenon DEF IsGenerated, ReasonLists
  <2>5. /\ proof.generated_at \in Times
        /\ HasProofFields(proof)
        /\ proof.envelope_commitment = Commitment(Envelope(proof))
    BY <1>1, Zenon DEF IsGenerated
  <2> QED BY <2>1, <2>2, <2>3, <2>4, <2>5
<1>11. Envelope(proof) \in CommittedEnvelope
  BY <1>5, <1>7, <1>9, <1>10 DEF Envelope, CommittedEnvelope
<1>12. proof.envelope_commitment \in [sha256 : CommittedEnvelope]
  BY <1>10, <1>11 DEF Commitment
<1>13. proof = [schema_version |-> proof.schema_version,
                primitive_versions |-> proof.primitive_versions,
                evaluation_order |-> proof.evaluation_order,
                decision |-> proof.decision,
                signals |-> proof.signals,
                signal_commitments |-> proof.signal_commitments,
                failure_reasons |-> proof.failure_reasons,
                context_snapshot |-> proof.context_snapshot,
                context_commitment |-> proof.context_commitment,
                generated_at |-> proof.generated_at,
                envelope_commitment |-> proof.envelope_commitment]
  BY <1>10 DEF HasProofFields, ProofFields
<1> QED BY <1>5, <1>7, <1>9, <1>10, <1>12, <1>13 DEF GovernanceProof

LEMMA ProofHasFields ==
  ASSUME NEW proof \in GovernanceProof
  PROVE  HasProofFields(proof)
BY DEF GovernanceProof, HasProofFields, ProofFields

(* RoundTrip and Corrupt leave a proof a proof, under the same envelope     *)
(* commitment.                                                              *)
LEMMA RoundTripType ==
  ASSUME NEW proof \in GovernanceProof
  PROVE  /\ RoundTrip(proof) \in GovernanceProof
         /\ RoundTrip(proof).envelope_commitment = proof.envelope_commitment
BY DEF RoundTrip, GovernanceProof

LEMMA AlteredType ==
  ASSUME NEW S, NEW seq \in Seq(S), NEW altered \in Altered(seq, S)
  PROVE  altered \in Seq(S)
<1>1. <<>> \in Seq(S)
  OBVIOUS
<1>2. Reverse(seq) \in Seq(S)
  <2>1. \A i \in 1..Len(seq) : seq[(Len(seq) - i) + 1] \in S
    OBVIOUS
  <2>2. Reverse(seq) \in [1..Len(seq) -> S]
    BY <2>1 DEF Reverse
  <2> QED BY <2>2
<1>3. ASSUME NEW i \in DOMAIN seq, NEW e \in S
      PROVE  ReplaceAt(seq, i, e) \in Seq(S)
  BY DEF ReplaceAt
<1> DEFINE replaced == {ReplaceAt(seq, i, e) : i \in DOMAIN seq, e \in S}
<1>4. ASSUME altered \in replaced PROVE altered \in Seq(S)
  <2>1. PICK i \in DOMAIN seq, e \in S : altered = ReplaceAt(seq, i, e)
    BY <1>4
  <2>2. ReplaceAt(seq, i, e) \in Seq(S)
    BY <1>3
  <2> QED BY <2>1, <2>2, Zenon
<1>5. Altered(seq, S) = {<<>>, Reverse(seq)} \cup replaced
  BY DEF Altered
<1> HIDE DEF replaced
<1>6. altered = <<>> \/ altered = Reverse(seq) \/ altered \in replaced
  BY <1>5
<1> QED BY <1>1, <1>2, <1>4, <1>6

LEMMA CorruptType ==
  ASSUME held \in GovernanceProof, NEW field \in CorruptibleFields,
         NEW value \in FieldValues(field)
  PROVE  /\ [held EXCEPT ![field] = value] \in GovernanceProof
         /\ [held EXCEPT ![field] = value].envelope_commitment = held.envelope_commitment
<1>1. CASE field = "schema_version"
  BY <1>1 DEF GovernanceProof, FieldValues, SchemaVersions
<1>2. CASE field = "primitive_versions"
  <2>1. value \in UNION {[S -> Versions] : S \in SUBSET Ids}
    BY <1>2 DEF FieldValues
  <2> QED BY <1>2, <2>1 DEF GovernanceProof
<1>3. CASE field = "evaluation_order"
  BY <1>3 DEF GovernanceProof, FieldValues
<1>4. CASE field = "decision"
  BY <1>4 DEF GovernanceProof, FieldValues
<1>5. CASE field = "signals"
  <2>1. value \in Altered(held.signals, StoredSignal)
    BY <1>5 DEF FieldValues
  <2>2. held.signals \in Seq(StoredSignal)
    BY DEF GovernanceProof
  <2>3. value \in Seq(StoredSignal)
    BY <2>1, <2>2, AlteredType
  <2> QED BY <1>5, <2>3 DEF GovernanceProof
<1>6. CASE field = "signal_commitments"
  <2>1. value \in Altered(held.signal_commitments, [sha256 : StoredSignal])
    BY <1>6 DEF FieldValues
  <2>2. held.signal_commitments \in Seq([sha256 : StoredSignal])
    BY DEF GovernanceProof
  <2>3. value \in Seq([sha256 : StoredSignal])
    BY <2>1, <2>2, AlteredType
  <2> QED BY <1>6, <2>3 DEF GovernanceProof
<1>7. CASE field = "failure_reasons"
  <2>1. value \in SeqOf(Reasons \cup {Blank}, 1)
    BY <1>7 DEF FieldValues
  <2>2. value \in Seq(Reasons \cup {Blank} \cup LegacyReasons)
    <3>1. value \in Seq(Reasons \cup {Blank})
      BY <2>1, SeqOfIsSeq
    <3> QED BY <3>1
  <2> QED BY <1>7, <2>2 DEF GovernanceProof
<1>8. CASE field = "context_snapshot"
  BY <1>8 DEF GovernanceProof, FieldValues
<1>9. CASE field = "context_commitment"
  BY <1>9 DEF GovernanceProof, FieldValues
<1>10. CASE field = "generated_at"
  BY <1>10 DEF GovernanceProof, FieldValues
<1> QED
  BY <1>1, <1>2, <1>3, <1>4, <1>5, <1>6, <1>7, <1>8, <1>9, <1>10 DEF CorruptibleFields
-----------------------------------------------------------------------------
(* The invariant. *)

LEMMA InitIInv == Init => IInv
<1> SUFFICES ASSUME Init PROVE IInv
  OBVIOUS
<1>1. issued = NoProof /\ held = NoProof /\ legacy = FALSE /\ supplied \in [Ids -> Versions]
      /\ corruptions = 0
  BY DEF Init
<1>2. corruptions \in 0..(IF held = NoProof THEN 0
                                           ELSE MaxCorruptions[Len(issued.evaluation_order)])
  BY <1>1
<1>3. TypeOK
  BY <1>1, <1>2 DEF TypeOK
<1> QED BY <1>1, <1>3 DEF IInv, Sealed, SameEnvelope, LegacyDenies

(* A proof is issued, and its holder gets it. *)
LEMMA IssuedIInv ==
  ASSUME IInv, issued = NoProof, WasGenerated(issued'), issued' # NoProof,
         held' = issued', legacy' \in BOOLEAN, legacy' => ~issued'.decision,
         UNCHANGED <<supplied, corruptions>>
  PROVE  IInv'
<1>1. issued' \in GovernanceProof
  BY GeneratedType
<1>2. held = NoProof /\ corruptions = 0
  BY DEF IInv, TypeOK
<1>3. Len(issued'.evaluation_order) \in 0..MaxPrimitives
  <2>1. issued'.evaluation_order \in SeqOf(Ids, MaxPrimitives)
    BY <1>1 DEF GovernanceProof
  <2> QED BY <2>1, SeqOfLength, LifecycleConstants
<1>4. MaxCorruptions[Len(issued'.evaluation_order)] \in Nat
  BY <1>3, LifecycleConstants
<1>5. TypeOK'
  BY <1>1, <1>2, <1>4 DEF IInv, TypeOK
<1>6. Sealed' /\ SameEnvelope' /\ LegacyDenies'
  BY DEF Sealed, SameEnvelope, LegacyDenies
<1> QED BY <1>5, <1>6 DEF IInv

LEMMA IssueIInv ==
  ASSUME IInv, issued = NoProof, NEW decision \in BOOLEAN,
         NEW order \in SeqOf(IdArguments, MaxPrimitives),
         NEW signals \in SeqOf(SignalInput, MaxPrimitives),
         NEW versions \in [Ids -> Versions], NEW reasons \in SeqOf(Reasons \cup {Blank}, 1),
         NEW context \in Contexts, NEW time \in Times,
         Issue(decision, order, signals, versions, reasons, context, time)
  PROVE  IInv'
<1> DEFINE proof == GenerateProofForContext(decision, order, signals, versions, reasons, context, time)
<1>1. /\ proof # NoProof
      /\ issued' = proof
      /\ held' = issued'
      /\ UNCHANGED <<legacy, supplied, corruptions>>
  BY DEF Issue
<1>2. IsGenerated(proof, decision, order, signals, versions, reasons, context, time)
  <2> HIDE DEF proof
  <2> QED BY <1>1, GeneratedProof DEF proof
<1>3. reasons \in ReasonLists
  <2>1. reasons \in Seq(Reasons \cup {Blank})
    BY SeqOfIsSeq
  <2> QED BY <2>1 DEF ReasonLists
<1>4. WasGenerated(proof)
  <2> HIDE DEF proof
  <2> QED BY <1>2, <1>3, Zenon DEF WasGenerated, VersionMaps
<1>5. ~legacy' /\ legacy' \in BOOLEAN
  BY <1>1 DEF IInv, LegacyDenies, TypeOK
<1> HIDE DEF proof
<1> QED BY <1>1, <1>4, <1>5, IssuedIInv

(* The fallback of the legacy interface can always be proved, a permission  *)
(* never.                                                                   *)
LEMMA FallbackProvable ==
  CanProve(FALSE, <<>>, <<>>, <<>>, <<"proof generation failed">>, NoContext)
<1> DEFINE denial == <<"proof generation failed">>
<1>1. ValidateFailureReasons(FALSE, denial)
  <2>1. denial # <<>> /\ \A i \in DOMAIN denial : denial[i] # Blank
    <3>1. DOMAIN denial = {1} /\ denial[1] = "proof generation failed"
      OBVIOUS
    <3>2. Blank # "proof generation failed"
      BY LifecycleConstants DEF LegacyReasons
    <3>3. denial # <<>>
      OBVIOUS
    <3> QED BY <3>1, <3>2, <3>3
  <2> HIDE DEF denial
  <2> QED BY <2>1 DEF ValidateFailureReasons
<1>2. NoContext \notin Uncommittable
  BY ProofConstants
<1>3. FALSE = AllValid(<<>>)
  BY DEF AllValid
<1>4. EvaluatedOnce(<<>>, <<>>)
  BY DEF EvaluatedOnce
<1>5. Len(<<>>) = Len(<<>>) /\ DOMAIN <<>> = {}
  OBVIOUS
<1> HIDE DEF denial
<1>6. CanProve(FALSE, <<>>, <<>>, <<>>, denial, NoContext)
  BY <1>1, <1>2, <1>3, <1>4, <1>5 DEF CanProve
<1> QED BY <1>6 DEF denial

LEMMA LegacyGenerates ==
  ASSUME NEW decision \in BOOLEAN,
         NEW order \in SeqOf(IdArguments, MaxPrimitives),
         NEW signals \in SeqOf(SignalInput, MaxPrimitives),
         NEW versions \in [Ids -> Versions], NEW time \in Times,
         NEW proof, proof = GenerateLegacyProof(decision, order, signals, versions, time)
  PROVE  WasGenerated(proof) /\ ~proof.decision
<1> DEFINE reasons == IF decision THEN <<>> ELSE <<"governance evaluation denied">>
           first == GenerateProofForContext(decision, order, signals, versions, reasons, NoContext, time)
           second == GenerateProofForContext(FALSE, <<>>, <<>>, <<>>, <<"proof generation failed">>,
                                             NoContext, time)
<1>1. NoContext \in Contexts
  BY DEF Contexts
<1>2. CASE first # NoProof
  <2>1. proof = first
    BY <1>2 DEF GenerateLegacyProof
  <2>2. reasons \in ReasonLists
    <3>1. <<>> \in ReasonLists /\ <<"governance evaluation denied">> \in ReasonLists
      BY DEF ReasonLists, LegacyReasons
    <3> QED BY <3>1
  <2> HIDE DEF first, reasons
  <2>3. IsGenerated(proof, decision, order, signals, versions, reasons, NoContext, time)
    BY <1>2, <2>1, GeneratedProof DEF first
  <2>4. WasGenerated(proof)
    BY <1>1, <2>2, <2>3, Zenon DEF WasGenerated, VersionMaps
  <2>5. ~decision /\ proof.decision = decision
    BY <2>3 DEF IsGenerated, CanProve
  <2> QED BY <2>4, <2>5
<1>3. CASE first = NoProof
  <2>1. proof = second
    BY <1>3 DEF GenerateLegacyProof, DenialProof
  <2> DEFINE denial == <<"proof generation failed">>
  <2>2. denial \in ReasonLists
    BY DEF ReasonLists, LegacyReasons
  <2>3. <<>> \in SeqOf(IdArguments, MaxPrimitives) /\ <<>> \in SeqOf(SignalInput, MaxPrimitives)
    BY EmptySeqOf, LifecycleConstants
  <2> HIDE DEF second, denial
  <2>4. IsGenerated(proof, FALSE, <<>>, <<>>, <<>>, denial, NoContext, time)
    BY <2>1, GeneratedProof, FallbackProvable DEF second, denial
  <2>5. WasGenerated(proof)
    BY <1>1, <2>2, <2>3, <2>4, Zenon DEF WasGenerated, VersionMaps
  <2>6. proof.decision = FALSE
    BY <2>4 DEF IsGenerated
  <2> QED BY <2>5, <2>6
<1> QED BY <1>2, <1>3

LEMMA IssueLegacyIInv ==
  ASSUME IInv, issued = NoProof, NEW decision \in BOOLEAN,
         NEW order \in SeqOf(IdArguments, MaxPrimitives),
         NEW signals \in SeqOf(SignalInput, MaxPrimitives),
         NEW versions \in [Ids -> Versions], NEW time \in Times,
         IssueLegacy(decision, order, signals, versions, time)
  PROVE  IInv'
<1>1. WasGenerated(issued') /\ ~issued'.decision
  BY LegacyGenerates DEF IssueLegacy
<1>2. issued' # NoProof
  BY <1>1, GeneratedType, NoProofIsNil
<1> QED BY <1>1, <1>2, IssuedIInv DEF IssueLegacy

(* The copy changes, the issued proof does not. *)
LEMMA CopiedIInv ==
  ASSUME IInv, held # NoProof, held' \in GovernanceProof,
         held'.envelope_commitment = held.envelope_commitment,
         UNCHANGED <<issued, legacy, supplied>>,
         \/ corruptions' = corruptions
         \/ /\ corruptions < MaxCorruptions[Len(issued.evaluation_order)]
            /\ corruptions' = corruptions + 1
  PROVE  IInv'
<1>1. issued # NoProof /\ issued \in GovernanceProof
  BY DEF IInv, TypeOK
<1>2. MaxCorruptions[Len(issued.evaluation_order)] \in Nat
  <2>1. issued.evaluation_order \in SeqOf(Ids, MaxPrimitives)
    BY <1>1 DEF GovernanceProof
  <2> QED BY <2>1, SeqOfLength, LifecycleConstants
<1>3. held' # NoProof
  BY NoProofIsNil
<1>4. corruptions' \in 0..MaxCorruptions[Len(issued.evaluation_order)]
  BY <1>2 DEF IInv, TypeOK
<1>5. TypeOK'
  BY <1>1, <1>3, <1>4 DEF IInv, TypeOK
<1>6. Sealed' /\ SameEnvelope' /\ LegacyDenies'
  BY DEF IInv, Sealed, SameEnvelope, LegacyDenies
<1> QED BY <1>5, <1>6 DEF IInv

LEMMA NextIInv == IInv /\ [Next]_vars => IInv'
<1> SUFFICES ASSUME IInv, [Next]_vars
             PROVE  IInv'
  OBVIOUS
<1>1. ASSUME issued = NoProof, SomeIssue
      PROVE  IInv'
  BY <1>1, IssueIInv, IssueLegacyIInv DEF SomeIssue
<1>2. CASE Serialise
  <2>1. held # NoProof /\ held \in GovernanceProof
    BY <1>2 DEF Serialise, IInv, TypeOK
  <2>2. /\ held' \in GovernanceProof
        /\ held'.envelope_commitment = held.envelope_commitment
    BY <1>2, <2>1, RoundTripType DEF Serialise
  <2>3. UNCHANGED <<issued, legacy, supplied>> /\ corruptions' = corruptions
    BY <1>2 DEF Serialise
  <2> QED BY <2>1, <2>2, <2>3, CopiedIInv
<1>3. ASSUME held # NoProof, NEW field \in CorruptibleFields, NEW value \in FieldValues(field),
             Corrupt(field, value)
      PROVE  IInv'
  <2>1. held \in GovernanceProof
    BY <1>3 DEF IInv, TypeOK
  <2>2. /\ held' \in GovernanceProof
        /\ held'.envelope_commitment = held.envelope_commitment
    BY <1>3, <2>1, CorruptType DEF Corrupt
  <2> QED BY <1>3, <2>2, CopiedIInv DEF Corrupt
<1>4. ASSUME NEW id \in Ids, NEW version \in Versions, Upgrade(id, version)
      PROVE  IInv'
  <2>1. supplied' \in [Ids -> Versions]
    BY <1>4 DEF Upgrade, IInv, TypeOK
  <2>2. UNCHANGED <<issued, held, legacy, corruptions>>
    BY <1>4 DEF Upgrade
  <2>3. TypeOK'
    BY <2>1, <2>2 DEF IInv, TypeOK
  <2>4. Sealed' /\ SameEnvelope' /\ LegacyDenies'
    BY <2>2 DEF IInv, Sealed, SameEnvelope, LegacyDenies
  <2> QED BY <2>3, <2>4 DEF IInv
<1>5. CASE UNCHANGED vars
  <2>1. TypeOK'
    BY <1>5 DEF vars, IInv, TypeOK
  <2>2. Sealed' /\ SameEnvelope' /\ LegacyDenies'
    BY <1>5 DEF vars, IInv, Sealed, SameEnvelope, LegacyDenies
  <2> QED BY <2>1, <2>2 DEF IInv
<1> QED BY <1>1, <1>2, <1>3, <1>4, <1>5 DEF Next

LEMMA Invariance == Spec => []IInv
BY InitIInv, NextIInv, PTL DEF Spec
-----------------------------------------------------------------------------
(* The properties. *)

(* The state is typed: the issued proof and the copy are proofs, or absent  *)
(* together, and no copy is corrupted more often than the bound says.       *)
THEOREM TypeCorrect == Spec => []TypeOK
<1>1. IInv => TypeOK
  BY DEF IInv
<1> QED BY <1>1, Invariance, PTL

(* What the envelope commitment of the issued proof stands for. *)
LEMMA IssuedIsSealed ==
  ASSUME IInv, held # NoProof
  PROVE  /\ issued # NoProof
         /\ HasProofFields(issued)
         /\ HasProofFields(held)
         /\ issued.envelope_commitment = Commitment(Envelope(issued))
         /\ CommittedContext(issued)
         /\ held.envelope_commitment = issued.envelope_commitment
<1>1. /\ issued # NoProof
      /\ HasProofFields(issued)
      /\ HasProofFields(held)
      /\ held.envelope_commitment = issued.envelope_commitment
  BY ProofHasFields DEF IInv, TypeOK, SameEnvelope
<1>2. WasGenerated(issued)
  BY <1>1 DEF IInv, Sealed
<1>3. issued.envelope_commitment = Commitment(Envelope(issued)) /\ CommittedContext(issued)
  BY <1>2 DEF WasGenerated, IsGenerated, CommittedContext
<1> QED BY <1>1, <1>3

(* Whatever fields of a copy changed, in whatever order and however often,  *)
(* a copy that verifies under the issued envelope commitment is the issued  *)
(* proof: Verify of core/proof_theory.go misses no change.                  *)
THEOREM CopiesAreTamperEvident == Spec => []TamperEvident
<1>1. IInv => TamperEvident
  BY IssuedIsSealed, VerifiedUnderEnvelope DEF TamperEvident
<1> QED BY <1>1, Invariance, PTL

(* ReconstructContext answers the context that was committed, or none.      *)
THEOREM ReconstructionsAreBound == Spec => []ReconstructionIsBound
<1>1. IInv => ReconstructionIsBound
  BY IssuedIsSealed, ReconstructedUnderEnvelope DEF ReconstructionIsBound
<1> QED BY <1>1, Invariance, PTL

LEMMA IssuedVerification == IInv => IssuedVerifies
<1> SUFFICES ASSUME IInv, issued # NoProof
             PROVE  Verify(issued, supplied) <=> SuppliedMatches
  BY DEF IssuedVerifies
<1>1. PICK decision \in BOOLEAN, order \in SeqOf(IdArguments, MaxPrimitives),
           signals \in SeqOf(SignalInput, MaxPrimitives), versions \in VersionMaps,
           reasons \in ReasonLists, context \in Contexts, time \in Times :
             IsGenerated(issued, decision, order, signals, versions, reasons, context, time)
  BY DEF IInv, Sealed, WasGenerated
<1>2. CanProve(decision, order, signals, versions, reasons, context)
  BY <1>1 DEF IsGenerated
<1>3. PICK n \in 0..MaxPrimitives :
        /\ order \in [1..n -> Ids]
        /\ signals \in [1..n -> SignalInput]
  BY <1>2, GeneratorArguments
<1>4. Verify(issued, supplied) <=> Reported(order, versions, supplied)
  <2>1. Shaped(signals)
    BY <1>3, InputShape DEF Shaped
  <2>2. n \in Nat /\ context \in Values \cup {NoContext}
    BY LifecycleConstants DEF Contexts
  <2> QED BY <1>1, <1>3, <2>1, <2>2, GeneratedVerifies
<1>5. SuppliedMatches <=> \A i \in 1..n : supplied[order[i]] = versions[order[i]]
  <2> DEFINE ids == {order[i] : i \in DOMAIN order}
  <2>1. issued.primitive_versions = [id \in ids |-> versions[id]]
    BY <1>1 DEF IsGenerated
  <2>2. ids = {order[i] : i \in 1..n}
    BY <1>3
  <2>3. (\A id \in ids : supplied[id] = versions[id])
          <=> \A i \in 1..n : supplied[order[i]] = versions[order[i]]
    BY <2>2
  <2> HIDE DEF ids
  <2> QED BY <2>1, <2>3 DEF SuppliedMatches
<1>6. \A i \in 1..n : order[i] \in DOMAIN supplied
  BY <1>3 DEF IInv, TypeOK
<1> QED BY <1>3, <1>4, <1>5, <1>6 DEF Reported

(* Generator and verifier agree: an issued proof verifies, untouched,       *)
(* exactly when the supplied primitives report the versions it names.       *)
THEOREM IssuedProofsVerify == Spec => []IssuedVerifies
BY IssuedVerification, Invariance, PTL

(* generateLegacyProof always answers a proof, never an authorisation, and  *)
(* one that verifies.                                                       *)
THEOREM LegacyInterfaceFailsClosed == Spec => []LegacyFailsClosed
<1>1. IInv => LegacyFailsClosed
  BY IssuedVerification DEF IInv, LegacyDenies, LegacyFailsClosed, IssuedVerifies
<1> QED BY <1>1, Invariance, PTL
=============================================================================
