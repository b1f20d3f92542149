--------------------------- MODULE ProofTheoryProofs ---------------------------
(***************************************************************************)
(* Lemmas about the operators of ProofTheory: what a generated proof holds, *)
(* and what the commitment of its envelope and of its context fix.          *)
(***************************************************************************)
EXTENDS ProofTheory, FiniteSetTheorems, TLAPS

ProofFields ==
  {"schema_version", "primitive_versions", "evaluation_order", "decision", "signals",
   "signal_commitments", "failure_reasons", "context_snapshot", "context_commitment",
   "generated_at", "envelope_commitment"}

(* A struct with exactly the fields of a GovernanceProof. *)
HasProofFields(proof) == proof = [field \in ProofFields |-> proof[field]]

(* The order names each primitive once, whatever is said of the versions.  *)
Distinct(order) == \A i, j \in DOMAIN order : order[i] = order[j] => i = j
-----------------------------------------------------------------------------
(* What GenerateProofForContext answers. *)

LEMMA GeneratedFields ==
  ASSUME NEW decision, NEW order, NEW signals, NEW versions, NEW reasons, NEW context, NEW time,
         NEW proof,
         proof = GenerateProofForContext(decision, order, signals, versions, reasons, context, time),
         proof # NoProof \/ CanProve(decision, order, signals, versions, reasons, context)
  PROVE  LET unsealed == UnsealedProof(decision, order, signals, versions, reasons, context, time)
         IN  /\ CanProve(decision, order, signals, versions, reasons, context)
             /\ HasProofFields(proof)
             /\ \A field \in ProofFields \ {"envelope_commitment"} : proof[field] = unsealed[field]
             /\ proof.envelope_commitment = Commitment(Envelope(proof))
<1> DEFINE unsealed == UnsealedProof(decision, order, signals, versions, reasons, context, time)
<1>1. CanProve(decision, order, signals, versions, reasons, context)
  BY DEF GenerateProofForContext
<1>2. proof = [unsealed EXCEPT !.envelope_commitment = Commitment(Envelope(unsealed))]
  BY <1>1 DEF GenerateProofForContext
<1>3. HasProofFields(unsealed)
  BY DEF UnsealedProof, HasProofFields, ProofFields
<1> HIDE DEF unsealed
<1>4. HasProofFields(proof)
  BY <1>2, <1>3 DEF HasProofFields, ProofFields
<1>5. \A field \in ProofFields \ {"envelope_commitment"} : proof[field] = unsealed[field]
  BY <1>2, <1>3 DEF HasProofFields, ProofFields
<1>6. Envelope(proof) = Envelope(unsealed)
  BY <1>5 DEF Envelope, ProofFields
<1>7. proof.envelope_commitment = Commitment(Envelope(proof))
  BY <1>2, <1>3, <1>6 DEF HasProofFields, ProofFields
<1> QED BY <1>1, <1>4, <1>5, <1>7 DEF unsealed

(* A proof made of what the generator was given, field by field. *)
IsGenerated(proof, decision, order, signals, versions, reasons, context, time) ==
  /\ CanProve(decision, order, signals, versions, reasons, context)
  /\ HasProofFields(proof)
  /\ proof.schema_version = GovernanceProofSchemaVersion
  /\ proof.primitive_versions = [id \in {order[i] : i \in DOMAIN order} |-> versions[id]]
  /\ proof.evaluation_order = order
  /\ proof.decision = decision
  /\ proof.signals = [i \in 1..Len(order) |-> CanonicalSignal(signals[i])]
  /\ proof.signal_commitments = [i \in 1..Len(order) |-> Commitment(CanonicalSignal(signals[i]))]
  /\ proof.failure_reasons = reasons
  /\ proof.context_snapshot = (IF context = NoContext THEN NoContext ELSE Encode(context))
  /\ proof.context_commitment = (IF context = NoContext THEN NoCommitment
                                                        ELSE Commitment(Encode(context)))
  /\ proof.generated_at = time
  /\ proof.envelope_commitment = Commitment(Envelope(proof))

LEMMA GeneratedProof ==
  ASSUME NEW decision, NEW order, NEW signals, NEW versions, NEW reasons, NEW context, NEW time,
         NEW proof,
         proof = GenerateProofForContext(decision, order, signals, versions, reasons, context, time),
         proof # NoProof \/ CanProve(decision, order, signals, versions, reasons, context)
  PROVE  IsGenerated(proof, decision, order, signals, versions, reasons, context, time)
<1> DEFINE unsealed == UnsealedProof(decision, order, signals, versions, reasons, context, time)
<1>1. /\ CanProve(decision, order, signals, versions, reasons, context)
      /\ HasProofFields(proof)
      /\ \A field \in ProofFields \ {"envelope_commitment"} : proof[field] = unsealed[field]
      /\ proof.envelope_commitment = Commitment(Envelope(proof))
  BY GeneratedFields
<1>2. /\ proof.schema_version = unsealed.schema_version
      /\ proof.primitive_versions = unsealed.primitive_versions
      /\ proof.evaluation_order = unsealed.evaluation_order
      /\ proof.decision = unsealed.decision
      /\ proof.signals = unsealed.signals
      /\ proof.signal_commitments = unsealed.signal_commitments
      /\ proof.failure_reasons = unsealed.failure_reasons
      /\ proof.context_snapshot = unsealed.context_snapshot
      /\ proof.context_commitment = unsealed.context_commitment
      /\ proof.generated_at = unsealed.generated_at
  <2> HIDE DEF unsealed
  <2> QED BY <1>1 DEF ProofFields
<1> QED BY <1>1, <1>2 DEF UnsealedProof, IsGenerated
-----------------------------------------------------------------------------
(* What the commitments fix. *)

(* Two proofs under one envelope commitment agree in all that the envelope  *)
(* represents.                                                              *)
LEMMA EnvelopeBinds ==
  ASSUME NEW p, NEW q, Commitment(Envelope(p)) = Commitment(Envelope(q))
  PROVE  /\ p.schema_version = q.schema_version
         /\ p.primitive_versions = q.primitive_versions
         /\ p.evaluation_order = q.evaluation_order
         /\ p.decision = q.decision
         /\ p.signals = q.signals
         /\ p.signal_commitments = q.signal_commitments
         /\ p.failure_reasons = q.failure_reasons
         /\ (p.context_snapshot # NoContext) = (q.context_snapshot # NoContext)
         /\ p.context_commitment = q.context_commitment
         /\ p.generated_at = q.generated_at
<1>1. \A x, y : Commitment(x) = Commitment(y) => x = y
  BY DEF Commitment
<1>2. Envelope(p) = Envelope(q)
  BY <1>1
<1> DEFINE P == Envelope(p)
           Q == Envelope(q)
<1>3. /\ P.schema_version = p.schema_version
      /\ P.primitive_versions = p.primitive_versions
      /\ P.evaluation_order = p.evaluation_order
      /\ P.decision = p.decision
      /\ P.signals = p.signals
      /\ P.signal_commitments = p.signal_commitments
      /\ P.failure_reasons = p.failure_reasons
      /\ P.context_included = (p.context_snapshot # NoContext)
      /\ P.context_commitment = p.context_commitment
      /\ P.generated_at = p.generated_at
  BY DEF Envelope
<1>4. /\ Q.schema_version = q.schema_version
      /\ Q.primitive_versions = q.primitive_versions
      /\ Q.evaluation_order = q.evaluation_order
      /\ Q.decision = q.decision
      /\ Q.signals = q.signals
      /\ Q.signal_commitments = q.signal_commitments
      /\ Q.failure_reasons = q.failure_reasons
      /\ Q.context_included = (q.context_snapshot # NoContext)
      /\ Q.context_commitment = q.context_commitment
      /\ Q.generated_at = q.generated_at
  BY DEF Envelope
<1> QED BY <1>2, <1>3, <1>4

(* The commitment of a snapshot fixes the snapshot. *)
CommittedContext(proof) ==
  proof.context_snapshot # NoContext => proof.context_commitment = Commitment(proof.context_snapshot)

LEMMA ContextBinds ==
  ASSUME NEW p, NEW q, Commitment(Envelope(p)) = Commitment(Envelope(q)),
         CommittedContext(p), CommittedContext(q)
  PROVE  p.context_snapshot = q.context_snapshot
<1>1. /\ (p.context_snapshot # NoContext) = (q.context_snapshot # NoContext)
      /\ p.context_commitment = q.context_commitment
  BY EnvelopeBinds
<1>2. \A x, y : Commitment(x) = Commitment(y) => x = y
  BY DEF Commitment
<1> QED BY <1>1, <1>2 DEF CommittedContext
-----------------------------------------------------------------------------
(* Generator and verifier agree. *)

(* A map over the IDs of an order without repetition has as many entries as *)
(* the order.                                                               *)
LEMMA VersionsCounted ==
  ASSUME NEW S, NEW n \in Nat, NEW order \in [1..n -> S], Distinct(order)
  PROVE  Cardinality({order[i] : i \in DOMAIN order}) = n
<1> DEFINE ids == {order[i] : i \in DOMAIN order}
<1>1. order \in Bijection(1..n, ids)
  BY DEF Distinct, Bijection, Injection, Surjection, IsInjective
<1>2. ExistsBijection(1..n, ids)
  BY <1>1 DEF ExistsBijection
<1> QED BY <1>2, FS_CountingElements

(* The signals given to the generator, as far as their shape is concerned. *)
SignalShape(signal) ==
  /\ signal = [primitive_id |-> signal.primitive_id, version |-> signal.version,
               valid |-> signal.valid, data |-> signal.data]
  /\ signal.data \in Values

LEMMA CanonicalFields ==
  ASSUME NEW signal, SignalShape(signal)
  PROVE  /\ CanonicalSignal(signal).primitive_id = signal.primitive_id
         /\ CanonicalSignal(signal).version = signal.version
         /\ CanonicalSignal(signal).valid = signal.valid
         /\ CanonicalSignal(signal).data = Encode(signal.data)
BY DEF SignalShape, CanonicalSignal

LEMMA CanonicalAllValid ==
  ASSUME NEW n \in Nat, NEW signals, DOMAIN signals = 1..n, signals = <<>> <=> n = 0,
         \A i \in 1..n : SignalShape(signals[i])
  PROVE  AllValid([i \in 1..n |-> CanonicalSignal(signals[i])]) = AllValid(signals)
<1> DEFINE canonical == [i \in 1..n |-> CanonicalSignal(signals[i])]
<1>1. DOMAIN canonical = 1..n /\ \A i \in 1..n : canonical[i].valid = signals[i].valid
  BY CanonicalFields
<1>2. canonical = <<>> <=> n = 0
  OBVIOUS
<1> HIDE DEF canonical
<1>3. AllValid(canonical) <=> AllValid(signals)
  BY <1>1, <1>2 DEF AllValid
<1>4. AllValid(canonical) \in BOOLEAN /\ AllValid(signals) \in BOOLEAN
  BY DEF AllValid
<1>5. AllValid(canonical) = AllValid(signals)
  BY <1>3, <1>4
<1> QED BY <1>5 DEF canonical

(* The supplied primitives report the versions of the order. *)
Reported(order, versions, supplied) ==
  \A i \in DOMAIN order : order[i] \in DOMAIN supplied /\ supplied[order[i]] = versions[order[i]]

Shaped(signals) == \A i \in DOMAIN signals : SignalShape(signals[i])

(* A proof that was generated verifies exactly when the primitives that are *)
(* supplied report the versions it was generated for.                       *)
LEMMA GeneratedVerifies ==
  ASSUME NEW n \in Nat, NEW S, NEW order \in [1..n -> S],
         NEW T, NEW signals \in [1..n -> T], Shaped(signals),
         NEW decision, NEW versions, NEW reasons, NEW time,
         NEW context \in Values \cup {NoContext},
         NEW proof, NEW supplied, proof # NoProof,
         IsGenerated(proof, decision, order, signals, versions, reasons, context, time)
  PROVE  Verify(proof, supplied) <=> Reported(order, versions, supplied)
<1> DEFINE ids == {order[i] : i \in DOMAIN order}
           canonical == [i \in 1..n |-> CanonicalSignal(signals[i])]
           commitments == [i \in 1..n |-> Commitment(CanonicalSignal(signals[i]))]
<1>1. DOMAIN order = 1..n /\ Len(order) = n
  OBVIOUS
<1>2. /\ CanProve(decision, order, signals, versions, reasons, context)
      /\ proof.schema_version = GovernanceProofSchemaVersion
      /\ proof.primitive_versions = [id \in ids |-> versions[id]]
      /\ proof.evaluation_order = order
      /\ proof.decision = decision
      /\ proof.signals = canonical
      /\ proof.signal_commitments = commitments
      /\ proof.failure_reasons = reasons
      /\ proof.context_snapshot = (IF context = NoContext THEN NoContext ELSE Encode(context))
      /\ proof.context_commitment = (IF context = NoContext THEN NoCommitment
                                                            ELSE Commitment(Encode(context)))
      /\ proof.envelope_commitment = Commitment(Envelope(proof))
  <2> DEFINE m == Len(order)
  <2>1. m = n
    BY <1>1
  <2>2. /\ proof.signals = [i \in 1..m |-> CanonicalSignal(signals[i])]
        /\ proof.signal_commitments = [i \in 1..m |-> Commitment(CanonicalSignal(signals[i]))]
    BY DEF IsGenerated
  <2> HIDE DEF m
  <2>3. proof.signals = canonical /\ proof.signal_commitments = commitments
    BY <2>1, <2>2
  <2> HIDE DEF canonical, commitments
  <2> QED BY <2>3 DEF IsGenerated
<1>3. /\ ValidateFailureReasons(decision, reasons)
      /\ decision => context # NoContext
      /\ EvaluatedOnce(order, versions)
      /\ decision = AllValid(signals)
      /\ context \notin Uncommittable
      /\ \A i \in 1..n : /\ signals[i].data \notin Uncommittable
                         /\ ValidateSignal(signals[i], order[i], versions[order[i]])
  BY <1>1, <1>2 DEF CanProve
<1>4. Len(canonical) = n /\ Len(commitments) = n
  OBVIOUS
<1>5. Cardinality(DOMAIN proof.primitive_versions) = n
  <2>1. Distinct(order)
    BY <1>3 DEF EvaluatedOnce, Distinct
  <2>2. DOMAIN proof.primitive_versions = ids
    BY <1>2
  <2> QED BY <2>1, <2>2, VersionsCounted
<1>6. AllValid(canonical) = AllValid(signals)
  <2>1. DOMAIN signals = 1..n /\ (signals = <<>> <=> n = 0)
    OBVIOUS
  <2> QED BY <2>1, CanonicalAllValid DEF Shaped
<1>7. /\ \A i \in 1..n : proof.primitive_versions[order[i]] = versions[order[i]]
      /\ EvaluatedOnce(order, proof.primitive_versions)
  <2>1. \A i \in 1..n : order[i] \in ids
    BY <1>1
  <2>2. DOMAIN proof.primitive_versions = ids
    BY <1>2
  <2>3. \A i \in 1..n : proof.primitive_versions[order[i]] = versions[order[i]]
    BY <1>2, <2>1
  <2>4. EvaluatedOnce(order, proof.primitive_versions)
    BY <1>1, <1>3, <2>1, <2>2, <2>3 DEF EvaluatedOnce
  <2> QED BY <2>3, <2>4
<1>8. ASSUME NEW i \in 1..n
      PROVE  /\ IsStored(canonical[i].data)
             /\ ValidateSignal(canonical[i], order[i], versions[order[i]])
             /\ commitments[i] = Commitment(canonical[i])
  <2>1. /\ canonical[i].primitive_id = signals[i].primitive_id
        /\ canonical[i].version = signals[i].version
        /\ canonical[i].data = Encode(signals[i].data)
    BY CanonicalFields DEF Shaped
  <2>2. signals[i].data \in Values \ Uncommittable
    BY <1>3 DEF Shaped, SignalShape
  <2> QED BY <1>3, <2>1, <2>2 DEF IsStored, ValidateSignal
<1>9. /\ IF proof.context_snapshot = NoContext
         THEN ~proof.decision /\ proof.context_commitment = NoCommitment
         ELSE /\ IsStored(proof.context_snapshot)
              /\ proof.context_commitment = Commitment(proof.context_snapshot)
  <2>1. CASE context = NoContext
    BY <1>2, <1>3, <2>1
  <2>2. CASE context # NoContext
    <3>1. context \in Values \ Uncommittable
      BY <1>3, <2>2
    <3>2. Encode(context) # NoContext /\ IsStored(Encode(context))
      BY <3>1, ProofConstants DEF Encode, IsStored
    <3> QED BY <1>2, <2>2, <3>2
  <2> QED BY <2>1, <2>2
<1> DEFINE ReportedAt(i) == order[i] \in DOMAIN supplied /\ supplied[order[i]] = versions[order[i]]
<1>10. ASSUME NEW i \in 1..n
       PROVE  ( /\ IsStored(proof.signals[i].data)
                /\ ValidateSignal(proof.signals[i], order[i], proof.primitive_versions[order[i]])
                /\ proof.signal_commitments[i] = Commitment(proof.signals[i])
                /\ order[i] \in DOMAIN supplied
                /\ supplied[order[i]] = proof.primitive_versions[order[i]] ) <=> ReportedAt(i)
  BY <1>2, <1>7, <1>8
<1> HIDE DEF canonical, commitments, ids, ReportedAt
<1>11. Verify(proof, supplied) <=> \A i \in 1..n : ReportedAt(i)
  <2>1. proof.decision = AllValid(proof.signals)
    BY <1>2, <1>3, <1>6
  <2>2. /\ proof # NoProof
        /\ proof.schema_version = GovernanceProofSchemaVersion
        /\ Len(proof.evaluation_order) = Len(proof.signals)
        /\ Len(proof.signals) = Len(proof.signal_commitments)
        /\ Cardinality(DOMAIN proof.primitive_versions) = Len(proof.evaluation_order)
        /\ EvaluatedOnce(proof.evaluation_order, proof.primitive_versions)
        /\ ValidateFailureReasons(proof.decision, proof.failure_reasons)
        /\ proof.envelope_commitment = Commitment(Envelope(proof))
    BY <1>1, <1>2, <1>3, <1>4, <1>5, <1>7
  <2>3. DOMAIN proof.evaluation_order = 1..n /\ \A i \in 1..n : proof.evaluation_order[i] = order[i]
    BY <1>1, <1>2
  <2> HIDE DEF ReportedAt
  <2> QED BY <1>9, <1>10, <2>1, <2>2, <2>3 DEF Verify
<1> QED BY <1>1, <1>11 DEF Reported, ReportedAt
-----------------------------------------------------------------------------
(* The struct is fixed by its fields. *)
LEMMA SameFields ==
  ASSUME NEW p, NEW q, HasProofFields(p), HasProofFields(q),
         \A field \in ProofFields : p[field] = q[field]
  PROVE  p = q
<1>1. [field \in ProofFields |-> p[field]] = [field \in ProofFields |-> q[field]]
  OBVIOUS
<1> QED BY <1>1 DEF HasProofFields

(* Whatever became of a copy: if it verifies under the envelope commitment   *)
(* of the sealed proof it is that proof.                                    *)
LEMMA VerifiedUnderEnvelope ==
  ASSUME NEW sealed, NEW copy, NEW supplied,
         HasProofFields(sealed), HasProofFields(copy),
         sealed.envelope_commitment = Commitment(Envelope(sealed)),
         CommittedContext(sealed),
         copy.envelope_commitment = sealed.envelope_commitment,
         Verify(copy, supplied)
  PROVE  copy = sealed
<1>1. Commitment(Envelope(copy)) = Commitment(Envelope(sealed)) /\ CommittedContext(copy)
  BY DEF Verify, CommittedContext
<1>2. copy.context_snapshot = sealed.context_snapshot
  BY <1>1, ContextBinds
<1>3. \A field \in ProofFields : copy[field] = sealed[field]
  BY <1>1, <1>2, EnvelopeBinds DEF ProofFields
<1> QED BY <1>3, SameFields

(* A context that is reconstructed from a copy under the envelope commitment *)
(* of a sealed proof is the sealed one.                                     *)
LEMMA ReconstructedUnderEnvelope ==
  ASSUME NEW sealed, NEW copy,
         sealed.envelope_commitment = Commitment(Envelope(sealed)),
         CommittedContext(sealed),
         copy.envelope_commitment = sealed.envelope_commitment
  PROVE  ReconstructContext(copy) \in {NoContext, sealed.context_snapshot}
<1>1. CASE ReconstructContext(copy) = NoContext
  BY <1>1
<1>2. CASE ReconstructContext(copy) # NoContext
  <2>1. /\ Commitment(Envelope(copy)) = Commitment(Envelope(sealed))
        /\ CommittedContext(copy)
        /\ ReconstructContext(copy) = copy.context_snapshot
    BY <1>2 DEF ReconstructContext, CommittedContext
  <2> QED BY <2>1, ContextBinds
<1> QED BY <1>1, <1>2
=============================================================================
