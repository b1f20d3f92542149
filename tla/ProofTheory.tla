----------------------------- MODULE ProofTheory -----------------------------
(***************************************************************************)
(* GovernanceProof and ProofGenerator (core/proof_theory.go) as operators. *)
(*                                                                         *)
(* A value carried by a signal (its metadata and evidence) or by a context *)
(* is a member of Values.  SHA-256 is taken to be collision free, so a     *)
(* commitment is the committed value under a tag: equal commitments mean   *)
(* equal content.  Every string the code tests with TrimSpace is either    *)
(* Blank or something else.                                                *)
(***************************************************************************)
EXTENDS Naturals, Sequences, FiniteSets

CONSTANTS
  Values,         \* what metadata/evidence and context maps may hold
  Uncommittable,  \* the Values encodeProofValue refuses (too deep, malformed)
  EmptyContext,   \* the context map with no entry
  NoContext,      \* a nil context map
  NoCommitment,   \* the empty commitment string
  NoProof,        \* a nil *GovernanceProof
  Blank           \* the blank string, as ID, version or failure reason

ASSUME ProofConstants ==
  /\ Uncommittable \subseteq Values
  /\ EmptyContext \in Values \ Uncommittable
  /\ NoContext \notin Values \cup {[gsas_value |-> value] : value \in Values}

GovernanceProofSchemaVersion == "gsas-governance-proof/v1"

(* encodeProofRootObject/Array: the stored form is tagged, never the raw value. *)
Encode(value) == [gsas_value |-> value]

(* cloneStoredRootObject/Array accept canonical encodings and nothing else. *)
IsStored(value) == \E raw \in Values \ Uncommittable : value = Encode(raw)

(* hashBytes over a canonical encoding. *)
Commitment(content) == [sha256 |-> content]

(* A signal is [primitive_id, version, valid, data]. *)
CanonicalSignal(signal) == [signal EXCEPT !.data = Encode(@)]

(* validateSignal, on a signal whose shape canonicalisation has checked. *)
ValidateSignal(signal, id, version) ==
  /\ signal.primitive_id = id
  /\ signal.version = version

(* allValid of GenerateProofForContext and Verify: empty is not valid. *)
AllValid(signals) ==
  /\ signals # <<>>
  /\ \A i \in DOMAIN signals : signals[i].valid

ValidateFailureReasons(decision, reasons) ==
  /\ \A i \in DOMAIN reasons : reasons[i] # Blank
  /\ decision <=> (reasons = <<>>)

(* The seen map and the version look-up at the head of both loops. *)
EvaluatedOnce(order, versions) ==
  \A i \in DOMAIN order :
    /\ order[i] # Blank
    /\ \A j \in DOMAIN order : order[j] = order[i] => j = i
    /\ order[i] \in DOMAIN versions
    /\ versions[order[i]] # Blank

(* Mutations: the failure reasons, or the context, are left out. *)
EnvelopeWithoutReasons(proof) ==
  [schema_version     |-> proof.schema_version,
   primitive_versions |-> proof.primitive_versions,
   evaluation_order   |-> proof.evaluation_order,
   decision           |-> proof.decision,
   signals            |-> proof.signals,
   signal_commitments |-> proof.signal_commitments,
   context_included   |-> proof.context_snapshot # NoContext,
   context_commitment |-> proof.context_commitment,
   generated_at       |-> proof.generated_at]

(* computeEnvelopeCommitment: the snapshot itself is represented in the    *)
(* envelope by its presence and by its commitment only.                    *)
Envelope(proof) ==
  [schema_version     |-> proof.schema_version,
   primitive_versions |-> proof.primitive_versions,
   evaluation_order   |-> proof.evaluation_order,
   decision           |-> proof.decision,
   signals            |-> proof.signals,
   signal_commitments |-> proof.signal_commitments,
   failure_reasons    |-> proof.failure_reasons,
   context_included   |-> proof.context_snapshot # NoContext,
   context_commitment |-> proof.context_commitment,
   generated_at       |-> proof.generated_at]

(* Mutation: the decision is not compared with the signals. *)
CanProveAnyDecision(decision, order, signals, versions, reasons, context) ==
  /\ Len(order) = Len(signals)
  /\ ValidateFailureReasons(decision, reasons)
  /\ decision => context # NoContext
  /\ EvaluatedOnce(order, versions)
  /\ \A i \in DOMAIN order :
       /\ signals[i].data \notin Uncommittable
       /\ ValidateSignal(signals[i], order[i], versions[order[i]])
  /\ context \notin Uncommittable

(* Why GenerateProofForContext returns an error instead of a proof. *)
CanProve(decision, order, signals, versions, reasons, context) ==
  /\ Len(order) = Len(signals)
  /\ ValidateFailureReasons(decision, reasons)
  /\ decision => context # NoContext
  /\ EvaluatedOnce(order, versions)
  /\ \A i \in DOMAIN order :
       /\ signals[i].data \notin Uncommittable
       /\ ValidateSignal(signals[i], order[i], versions[order[i]])
  /\ decision = AllValid(signals)
  /\ context \notin Uncommittable

(* The proof before its envelope is committed. *)
UnsealedProof(decision, order, signals, versions, reasons, context, time) ==
  [schema_version      |-> GovernanceProofSchemaVersion,
   primitive_versions  |-> [id \in {order[i] : i \in DOMAIN order} |-> versions[id]],
   evaluation_order    |-> order,
   decision            |-> decision,
   signals             |-> [i \in 1..Len(order) |-> CanonicalSignal(signals[i])],
   signal_commitments  |-> [i \in 1..Len(order) |-> Commitment(CanonicalSignal(signals[i]))],
   failure_reasons     |-> reasons,
   context_snapshot    |-> IF context = NoContext THEN NoContext ELSE Encode(context),
   context_commitment  |-> IF context = NoContext THEN NoCommitment
                                                  ELSE Commitment(Encode(context)),
   generated_at        |-> time,
   envelope_commitment |-> NoCommitment]

GenerateProofForContext(decision, order, signals, versions, reasons, context, time) ==
  IF ~CanProve(decision, order, signals, versions, reasons, context)
  THEN NoProof
  ELSE LET proof == UnsealedProof(decision, order, signals, versions, reasons, context, time)
       IN  [proof EXCEPT !.envelope_commitment = Commitment(Envelope(proof))]

(* A denial that evaluated no primitive: the fallback of the legacy API and *)
(* the proof of a precondition denial.                                      *)
DenialProof(reasons, context, time) ==
  GenerateProofForContext(FALSE, <<>>, <<>>, <<>>, reasons, context, time)

(* Mutation: no fallback when the proof cannot be generated. *)
GenerateLegacyProofOrNothing(decision, order, signals, versions, time) ==
  GenerateProofForContext(decision, order, signals, versions,
    IF decision THEN <<>> ELSE <<"governance evaluation denied">>, NoContext, time)

(* generateLegacyProof: no context can be bound, and an error becomes a denial. *)
GenerateLegacyProof(decision, order, signals, versions, time) ==
  LET reasons == IF decision THEN <<>> ELSE <<"governance evaluation denied">>
      proof   == GenerateProofForContext(decision, order, signals, versions,
                                         reasons, NoContext, time)
  IN  IF proof # NoProof THEN proof
      ELSE DenialProof(<<"proof generation failed">>, NoContext, time)

(* GovernanceProof.Verify returning (true, nil).  supplied maps the IDs of  *)
(* the primitives given to the verifier to the version each one reports,    *)
(* Blank when its Version callback panics.  validSHA256 is implied by the   *)
(* equality with a recomputed commitment.                                   *)
Verify(proof, supplied) ==
  /\ proof # NoProof
  /\ proof.schema_version = GovernanceProofSchemaVersion
  /\ Len(proof.evaluation_order) = Len(proof.signals)
  /\ Len(proof.signals) = Len(proof.signal_commitments)
  /\ Cardinality(DOMAIN proof.primitive_versions) = Len(proof.evaluation_order)
  /\ EvaluatedOnce(proof.evaluation_order, proof.primitive_versions)
  /\ \A i \in DOMAIN proof.evaluation_order :
       LET id      == proof.evaluation_order[i]
           version == proof.primitive_versions[id]
       IN  /\ IsStored(proof.signals[i].data)
           /\ ValidateSignal(proof.signals[i], id, version)
           /\ proof.signal_commitments[i] = Commitment(proof.signals[i])
           /\ id \in DOMAIN supplied
           /\ supplied[id] = version
  /\ proof.decision = AllValid(proof.signals)
  /\ ValidateFailureReasons(proof.decision, proof.failure_reasons)
  /\ IF proof.context_snapshot = NoContext
     THEN /\ ~proof.decision
          /\ proof.context_commitment = NoCommitment
     ELSE /\ IsStored(proof.context_snapshot)
          /\ proof.context_commitment = Commitment(proof.context_snapshot)
  /\ proof.envelope_commitment = Commitment(Envelope(proof))

(* Mutation: the snapshot is not compared with its commitment. *)
ReconstructUncommitted(proof) ==
  IF /\ proof # NoProof
     /\ proof.context_snapshot # NoContext
     /\ IsStored(proof.context_snapshot)
     /\ \A i \in DOMAIN proof.signals : IsStored(proof.signals[i].data)
     /\ proof.envelope_commitment = Commitment(Envelope(proof))
  THEN proof.context_snapshot
  ELSE NoContext

(* ReconstructContext: NoContext stands for the fresh empty map it answers  *)
(* when the snapshot is absent or not the committed one.                    *)
ReconstructContext(proof) ==
  IF /\ proof # NoProof
     /\ proof.context_snapshot # NoContext
     /\ IsStored(proof.context_snapshot)
     /\ proof.context_commitment = Commitment(proof.context_snapshot)
     /\ \A i \in DOMAIN proof.signals : IsStored(proof.signals[i].data)
     /\ proof.envelope_commitment = Commitment(Envelope(proof))
  THEN proof.context_snapshot
  ELSE NoContext

(* Mutation: decoding fails without a context. *)
RoundTripOrNothing(proof) ==
  IF proof.context_snapshot = Encode(EmptyContext) THEN NoProof ELSE proof

(* json.Marshal then json.Unmarshal of a GovernanceProof.  The stored forms *)
(* hold strings, booleans, maps and slices only and come back unchanged;    *)
(* the omitempty tag of context_snapshot drops a map without entries.       *)
RoundTrip(proof) ==
  [proof EXCEPT !.context_snapshot = IF @ = Encode(EmptyContext) THEN NoContext ELSE @]
=============================================================================
