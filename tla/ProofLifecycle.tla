---------------------------- MODULE ProofLifecycle ----------------------------
(***************************************************************************)
(* The life of one proof: a caller of ProofGenerator has it issued, copies *)
(* of it are serialised, stored and possibly corrupted on the way, and a   *)
(* holder verifies its copy against primitives that may meanwhile report   *)
(* another version.  GovernanceProof is a plain struct with exported       *)
(* fields, so any field of a copy may come to hold any value of its type.  *)
(***************************************************************************)
EXTENDS ProofTheory, SequencesExt

CONSTANTS
  Ids,              \* primitive IDs, Blank among the possible arguments
  Versions,         \* version strings
  Reasons,          \* failure reasons
  Times,            \* logical times
  MaxPrimitives,    \* longest evaluation order
  MaxCorruptions    \* fields changed on one copy, by the length of its order

(* The reasons generateLegacyProof gives. *)
LegacyReasons == {"governance evaluation denied", "proof generation failed"}

ASSUME LifecycleConstants ==
  /\ MaxPrimitives \in Nat
  /\ MaxCorruptions \in [0..MaxPrimitives -> Nat]
  /\ Times # {}
  /\ Blank \notin LegacyReasons

VARIABLES
  issued,       \* the proof as the generator returned it, NoProof before
  held,         \* the copy a verifier holds
  legacy,       \* issued through GenerateProof or GenerateProofWithTime
  supplied,     \* versions the verifier's primitives report
  corruptions   \* how many fields of the copy were changed

vars == <<issued, held, legacy, supplied, corruptions>>

IdArguments == Ids \cup {Blank}
Contexts == Values \cup {NoContext}

(* A signal as a caller of the generator may pass it. *)
SignalInput ==
  [primitive_id : Ids, version : Versions, valid : BOOLEAN, data : Values]

SchemaVersions == {GovernanceProofSchemaVersion, "other schema"}

StoredValues == [gsas_value : Values \ Uncommittable]

(* What a stored signal may come to hold: canonical data or a raw value. *)
StoredSignal ==
  [primitive_id : Ids, version : Versions, valid : BOOLEAN, data : Values \cup StoredValues]

(* The type of what an envelope commits, and of a proof. *)
CommittedEnvelope ==
  [schema_version     : SchemaVersions,
   primitive_versions : UNION {[S -> Versions] : S \in SUBSET Ids},
   evaluation_order   : SeqOf(Ids, MaxPrimitives),
   decision           : BOOLEAN,
   signals            : Seq(StoredSignal),
   signal_commitments : Seq([sha256 : StoredSignal]),
   failure_reasons    : Seq(Reasons \cup {Blank} \cup LegacyReasons),
   context_included   : BOOLEAN,
   context_commitment : {NoCommitment} \cup [sha256 : StoredValues],
   generated_at       : Times]

GovernanceProof ==
  [schema_version      : SchemaVersions,
   primitive_versions  : UNION {[S -> Versions] : S \in SUBSET Ids},
   evaluation_order    : SeqOf(Ids, MaxPrimitives),
   decision            : BOOLEAN,
   signals             : Seq(StoredSignal),
   signal_commitments  : Seq([sha256 : StoredSignal]),
   failure_reasons     : Seq(Reasons \cup {Blank} \cup LegacyReasons),
   context_snapshot    : {NoContext} \cup Values \cup StoredValues,
   context_commitment  : {NoCommitment} \cup [sha256 : StoredValues],
   generated_at        : Times,
   envelope_commitment : [sha256 : CommittedEnvelope]]

(* A nil pointer is no proof. *)
ASSUME NoProofIsNil == NoProof \notin GovernanceProof

Init ==
  /\ issued = NoProof
  /\ held = NoProof
  /\ legacy = FALSE
  /\ supplied \in [Ids -> Versions]
  /\ corruptions = 0

(* GenerateProofForContext answers a proof, or an error that issues nothing. *)
Issue(decision, order, signals, versions, reasons, context, time) ==
  LET proof == GenerateProofForContext(decision, order, signals, versions,
                                       reasons, context, time)
  IN  /\ proof # NoProof
      /\ issued' = proof
      /\ held' = proof
      /\ UNCHANGED <<legacy, supplied, corruptions>>

(* GenerateProof and GenerateProofWithTime, which cannot answer an error. *)
IssueLegacy(decision, order, signals, versions, time) ==
  /\ issued' = GenerateLegacyProof(decision, order, signals, versions, time)
  /\ held' = issued'
  /\ legacy' = TRUE
  /\ UNCHANGED <<supplied, corruptions>>

(* A copy goes through json.Marshal and json.Unmarshal. *)
Serialise ==
  /\ held # NoProof
  /\ held' = RoundTrip(held)
  /\ UNCHANGED <<issued, legacy, supplied, corruptions>>

(* A list with its entries lost, swapped, or one of them replaced. *)
Altered(seq, S) ==
  {<<>>, Reverse(seq)} \cup {ReplaceAt(seq, i, e) : i \in DOMAIN seq, e \in S}

(* The values each exported field of a copy may come to hold. *)
FieldValues(field) ==
  CASE field = "schema_version"      -> {"other schema"}
    [] field = "primitive_versions"  -> UNION {[S -> Versions] : S \in SUBSET Ids}
    [] field = "evaluation_order"    -> SeqOf(Ids, MaxPrimitives)
    [] field = "decision"            -> BOOLEAN
    [] field = "signals"             -> Altered(held.signals, StoredSignal)
    [] field = "signal_commitments"  ->
         Altered(held.signal_commitments, [sha256 : StoredSignal])
    [] field = "failure_reasons"     -> SeqOf(Reasons \cup {Blank}, 1)
    [] field = "context_snapshot"    -> {NoContext} \cup Values \cup StoredValues
    [] field = "context_commitment"  ->
         {NoCommitment} \cup [sha256 : StoredValues]
    [] field = "generated_at"        -> Times

CorruptibleFields ==
  {"schema_version", "primitive_versions", "evaluation_order", "decision", "signals",
   "signal_commitments", "failure_reasons", "context_snapshot", "context_commitment",
   "generated_at"}

(* A field of the copy changes; the envelope commitment stays the issued one. *)
Corrupt(field, value) ==
  /\ corruptions < MaxCorruptions[Len(issued.evaluation_order)]
  /\ corruptions' = corruptions + 1
  /\ held' = [held EXCEPT ![field] = value]
  /\ UNCHANGED <<issued, legacy, supplied>>

(* A primitive of the verifier starts to report another version. *)
Upgrade(id, version) ==
  /\ issued # NoProof
  /\ supplied' = [supplied EXCEPT ![id] = version]
  /\ UNCHANGED <<issued, held, legacy, corruptions>>

(* What a caller hands to the generator, whichever entry point it uses. *)
SomeIssue ==
  \E decision \in BOOLEAN, order \in SeqOf(IdArguments, MaxPrimitives),
     signals \in SeqOf(SignalInput, MaxPrimitives), versions \in [Ids -> Versions],
     time \in Times :
    \/ \E reasons \in SeqOf(Reasons \cup {Blank}, 1), context \in Contexts :
         Issue(decision, order, signals, versions, reasons, context, time)
    \/ IssueLegacy(decision, order, signals, versions, time)

Next ==
  \/ issued = NoProof /\ SomeIssue
  \/ Serialise
  \/ held # NoProof /\ \E field \in CorruptibleFields :
                         \E value \in FieldValues(field) : Corrupt(field, value)
  \/ \E id \in Ids, version \in Versions : Upgrade(id, version)

Spec == Init /\ [][Next]_vars
-----------------------------------------------------------------------------
(* Type invariant: the copy and the original are proofs, or absent together. *)
TypeOK ==
  /\ issued \in GovernanceProof \cup {NoProof}
  /\ held \in GovernanceProof \cup {NoProof}
  /\ (issued = NoProof) <=> (held = NoProof)
  /\ legacy \in BOOLEAN
  /\ supplied \in [Ids -> Versions]
  /\ corruptions \in 0..(IF held = NoProof THEN 0
                                             ELSE MaxCorruptions[Len(issued.evaluation_order)])

(* The verifier's primitives report the versions the issued proof names. *)
SuppliedMatches ==
  \A id \in DOMAIN issued.primitive_versions : supplied[id] = issued.primitive_versions[id]

(* GenerateProofForContext and Verify agree: a proof the generator returned *)
(* verifies, untouched, exactly when the supplied primitives report the     *)
(* versions it was issued for.                                              *)
IssuedVerifies ==
  issued # NoProof => (Verify(issued, supplied) <=> SuppliedMatches)

(* Tamper evidence of the envelope: whatever fields of a copy changed, in   *)
(* whatever order, a copy that still verifies under the issued envelope     *)
(* commitment is the issued proof, field by field.                          *)
TamperEvident ==
  (held # NoProof /\ Verify(held, supplied)) => held = issued

(* generateLegacyProof never answers an authorisation and never nothing: it *)
(* binds no context, so a permitted proof is refused and the fallback is a  *)
(* denial that verifies.                                                    *)
LegacyFailsClosed ==
  legacy => /\ issued # NoProof
            /\ ~issued.decision
            /\ SuppliedMatches => Verify(issued, supplied)

(* ReconstructContext answers the context the proof was issued for or none, *)
(* also for a copy that Verify would refuse for other reasons.              *)
ReconstructionIsBound ==
  held # NoProof => ReconstructContext(held) \in {NoContext, issued.context_snapshot}

(* What the README says of a stored proof: "Embedded signal and context     *)
(* snapshots allow envelope integrity to be checked without access to the   *)
(* original runtime".  A copy that was only serialised still verifies.      *)
RoundTripVerifies ==
  (held # NoProof /\ corruptions = 0 /\ SuppliedMatches) => Verify(held, supplied)
=============================================================================
