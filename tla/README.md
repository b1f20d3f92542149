# GSAS verification

TLA+ models, model-checking runs and machine-checked proofs for GSAS, the
governance engine under `src/core`. Paths below are relative to the repository;
`GE`, `PT`, `CC`, `PC`, `CO`, `DC`, `DE` and `FS` abbreviate
`core/governance_engine.go`, `proof_theory.go`, `compliance_checker.go`,
`primitive_contracts.go`, `composition_operators.go`,
`deterministic_context.go`, `determinism_enforcer.go` and `formal_semantics.go`.

## 1. The system

GSAS evaluates *governance primitives* (user code with an `Evaluate` and a
`Version` method, and optional `Name`, `DeterministicSource`,
`ValidateConfiguration` and `ConfigurationFingerprint` methods) against a
*deterministic context*, and answers a permission or a denial with a proof.

| Component | State | Operations | Modelled in |
| --- | --- | --- | --- |
| Governance Evaluation Engine (GE) | `registrations`, `configurationEpoch`, `registrationActive`, `registrationMutationAttempted`, `callbackEvaluations`, all under `ge.mu` | `RegisterPrimitive`, `Evaluate`, `EvaluateWithLogicalTime`, `Clear`, `PrimitiveCount` | `GovernanceEngine`; its promise in `GovernanceGate` |
| Failure Handler (GE, PT) | none | `preconditionDenial`, failure signals, denial after a failed proof | `GovernanceEngine`, `ProofTheory` |
| Composite Proof Generator (PT) | none; a proof is a value | `GenerateProof`, `GenerateProofWithTime`, `GenerateProofForContext`, `Verify`, `ReconstructContext` | `ProofTheory`, `ProofLifecycle`; the stored form of values in `PlainValues` |
| Composition Operators (CO) | the list of children and the threshold, fixed at construction | `Evaluate`, `Version`, `ValidateConfiguration`, `ConfigurationFingerprint` of `SequentialAnd`, `ParallelAnd`, `Threshold` | `CompositionOperators` |
| Compliance Checker (CC) | none | `CheckPrimitive`, `CheckAll` | `ComplianceChecker`; `CheckPrimitive` also inside `GovernanceEngine` |
| Primitive contracts (PC) | none | panic barriers, result normalisation, cloning | `PlainValues`, `DeterministicContext`; the barriers by what they answer, where they are called |
| Deterministic Context (DC) | an immutable map, a logical time, validation issues, a commitment | `NewDeterministicContext`, `NewDeterministicContextChecked`, `Get`, `GetItem`, `Data`, `Has`, `Time`, `ValidationError`, `Commitment` | `PlainValues`, `DeterministicContext`; a constant in `GovernanceEngine` |
| Determinism Enforcer (DE) | none | `ValidateDeterministic`, `ValidatePrimitiveSource`, `ValidatePrimitiveContract` | `DeterminismEnforcer` |
| Formal semantics (FS) | none | `Get`, `GetItem` of `DeterministicContextSpec`; forwarding to the composer and the generator | the former in `DeterministicContext` |
| Entry point (`cmd/gsas`, `init.go`) | none | prints and blocks | not modelled |

How they interact:

* `RegisterPrimitive` (GE:58-129) runs in three lock sections. The first looks
  for the ID and raises `registrationActive`; then, *unlocked*, the Compliance
  Checker probes the primitive (every callback, two evaluations) and the engine
  reads the identity it is going to record (version, source fingerprint,
  configuration fingerprint); the second lock section looks again and publishes;
  a deferred third one lowers the flag on every path.
* `evaluate` (GE:199-293) takes a snapshot of the registrations and of the epoch
  under the lock, walks over it unlocked, calling for each registration the
  identity callbacks, `Evaluate`, `Evaluate` again, and the identity callbacks
  again, and rechecks the epoch under the read lock before it asks the proof
  generator for the decision's proof.
* A context is built from the host's data by a copying walk that refuses what has
  no deterministic form; results of primitives are snapshotted by a second walk,
  proofs are encoded by a third and cloned by a fourth. The host keeps its data
  and gets copies out, and goes on writing to all of it.
* `CheckAll` runs `CheckPrimitive` over a list, and that the source check; the
  engine runs both on registration, and the source check with each identity read.
* A callback may call the engine again. `callbackEvaluations` maps a goroutine
  to the evaluation whose `Evaluate` callback it is in; an evaluation that finds
  its goroutine there is denied and marks the one below.

What is hard in this code: user code runs between lock sections and may do
anything, call the engine included; the flag and the table make up for a lock
that is not held; every early return has to undo them; identities drift between
reads; a decision is made before its proof and must be taken back when the proof
fails; the generator and the verifier repeat each other's checks; four recursive
walks with three depth limits have to agree on what a value is, over memory that
is shared with the host. `PROJECT.json`
lists these hazards line by line with the properties that cover them.

## 2. The modules

### ProofTheory, ProofLifecycle

`ProofTheory` is PT as operators. A signal's metadata and evidence, and a
context, are members of `Values`; some of them are `Uncommittable`
(`encodeProofValue` refuses them: too deep, malformed). A commitment is the
committed value under a tag, that is, SHA-256 is assumed collision free. `Encode`
keeps the code's distinction between a raw value and its stored, tagged form,
which `Verify` insists on. `Envelope` has the very fields of
`computeEnvelopeCommitment`: the snapshot itself enters it by its presence and
its commitment only. `RoundTrip` is `json.Marshal` and `json.Unmarshal`,
including what `omitempty` drops.

`ProofLifecycle` is the life of one proof: any caller has it issued with
arguments of every kind, the copy a verifier holds is serialised and has fields
changed, and the verifier's primitives change their versions.

### GovernanceEngine

* Every section under `ge.mu` is one atomic step. `sync.RWMutex` makes it so; the
  lock is never held while a callback runs or a proof is made.
* Every callback is a program point. A goroutine has a stack of frames:
  `depth[g]` of them are in use, `pc[g][d]` is the program counter of frame `d`,
  `ev[g][d]` the locals of `evaluate` and its evaluation state,
  `rg[g][d]` the locals of `RegisterPrimitive` and `CheckPrimitive`, and
  `answer[g][d]` the decision about to be returned. The goroutine calls the
  engine from outside, or from a callback, which pushes a frame (`MayCall`).
* `callbackEvaluations[g]` is the depth of the frame that is in the table, 0 when
  the goroutine is not; the code's pointer comparison in the deferred delete is
  the comparison of frames. The goroutine ID the code parses from a stack dump is
  the goroutine.
* A primitive's identity is one number per field (`identity[prim]["version"]`,
  `"source"`, `"config"`), which `Drift` increases at any moment. A field that
  changes and changes back is not modelled: no comparison in the code can tell.
  `ValidateConfiguration` followed by `ConfigurationFingerprint` is one program
  point. `Exposes` says which optional callbacks a primitive implements.
* `Evaluate` answers any result, `NoResult` standing for a panic or for a result
  `normalizeEvaluationResult` refuses.
* Denied calls go through the program point `decided`, so that their decision is
  subject to the properties, and `EvaluateReturns` hands it over. Failed
  registrations go through `release`. Registrations refused before any effect
  (nil primitive, malformed or registered ID) change nothing and are not steps.
* Failure reasons are kept by their kind, without the detail the code appends.
* `tainted` is a ghost: an `Evaluate` callback ended under an identity that was
  not the registered one.

### GovernanceGate

What a caller of the engine may rely on, without frames, callbacks, epochs or
proofs: a list of entries (an ID and a version) that grows by one publication at
a time or is emptied, one registration under way at most, voided by anybody
else's attempt to change the list, and for each open call a denial, or a
permission that attests the whole list of that very instant. `GovernanceEngine`
defines the mapping (`Entry`, `RegistrationPhase`, `Attested`, `OutcomeOf`) and
`Gate == INSTANCE GovernanceGate WITH ...`; `ImplementsGate` is the property. What
a permission attests is taken from the *signals of the answer*, not from the
snapshot, so the refinement relates what the caller is given to what was in force
when it was decided, although the engine reads the list long before.

### PlainValues, DeterministicContext

Maps and slices are objects on a heap, so that values share them and form
cycles; `PlainValues` has the walks over them (`Clone`, `Snapshot`) and, for
values without cycles, over their trees (`WriteCanonicalValue`,
`EncodeProofValue`, `CloneStored`). A walk is a recursive function: `Clone` and
`Snapshot` over the places a walk can be at (the value, the address of its copy,
the depth and the objects it is inside of), the others over the paths of a tree,
which is a function from paths of keys to types and scalars. What a walk does at
one place (`CloneValue`, `SnapshotValue`, `WriteNode`, `EncodeProofValue`) is an
operator of its own. An interface around a value shows as an
additional level of depth, just as in the code, where it counts as one; maps and
slices whose elements are not interfaces (`table`, `floats`) make that difference
visible. A slice has indexes from the first one on (`Packed`). `NaN` stands for
every value the walks refuse. A commitment is the sequence of what is hashed:
marks (the single bytes), lengths, and frames, a frame being a text with its
length before it.

`DeterministicContext` puts contexts and result snapshots next to a host program
that begins with data of every kind, hands any object it can reach to the
constructors, gets copies out, and sets and deletes entries of every object it
can reach. `held` is what the host has references to, `stored` what was made;
`source` and `given` are ghosts of the arguments. `ConstructionExact` compares the
walk with a definition by paths (`Sound`, `Retained`, `DepthAt` of
`PlainValues`) that does not walk: a path
is sound when nothing on it is unsupported, no object on it is inside itself and
it is not too long. `MeetsSpecification` is FS: a valid context answers `Get` and
`GetItem` as `DeterministicContextSpec` over the data it was given, for ever.

What the module shows besides its properties:

* The comment of `deepCopy` (DC:293) says that it copies validated data only. An
  invalid context has values too: a zero that stands for a too deep item can
  itself be too deep when it is copied again, and the error is dropped. The copy
  still says the same, since the same zero is put in its place again
  (`ExportsFaithful`).
* A snapshot of a result turns every container into a `map[string]interface{}`
  or an `[]interface{}`, which adds an interface level to each element. A result
  that just fits the depth limit of the snapshot need not fit that of the proof.
* `cloneStoredValue` starts its depth again at each container, so its limit is
  never reached; the proofs it accepts are bounded by the generator's.

### DeterminismEnforcer, ComplianceChecker

`DeterminismEnforcer` is the verdict on a source. A source has the imports that
its *language* makes, each with the path, the alias and whether its statement
begins a line (`leading`); whether the Go parser accepts it (`text`) and whether
a line begins with a package clause (`packageLine`) are separate, since the code
chooses between parser and patterns by the latter. `ScriptImports` are the
imports the pattern of DE:155 finds: of a script the leading ones, of a Go file
that was taken for a script an alias at most. The tables of imports and functions
are constants, of which the run has some rows. `Deterministic` is the purpose
of the check, said of all the packages a source runs, found or not.
`CompliantIsEarned` asks for it of source that is `PlainlyWritten`: a Go file
with its package clause at the beginning of a line, a script without a second
import inside a line. Of other source it can be false, although the comment
at DE:68 says that Go source is fully parsed and imports outside the allow-list
fail closed: with a comment before its package clause a Go file is checked by the
patterns for scripts, which find no import path in quotes, so Go source that
imports `os/exec` is accepted; and of a script's `import math, os` the pattern
finds only `math`. The run has such sources, and accepts them as the code does.

`ComplianceChecker` is `CheckAll` over a deployment. `todo` is the set of
callbacks that `CheckPrimitive` still has to make, in the order of `Order`; every
callback answers anything it can, a panic, an error and a malformed result being
`Failed`, and an early return empties the set. `log` is a ghost of what each
primitive was asked and answered; the properties are about it and the report.
`Flaw` says from the answers alone which requirements a primitive fails, and
`Lists` that a list is the violations of the first primitives one after the
other. `Checked` of a report lists
`evaluate_contract` and `repeatability` also when the check ended before them: the
list says what a primitive is checked for, not what was reached.

### CompositionOperators

A composite as the engine uses it: its `Version` is read, it is evaluated, its
`Version` is read again (`before`, `after`), and then it may be used again. The
composite keeps no lock and no state; `composite` is what its constructor
copied.

* `describeCompositeChild` is four program points per child (`ReadField` for
  name, version and source; `Described` ends with the configuration or with the
  callback that failed), since a child may change between any two callbacks.
  `validateCompositeConfiguration`, the check after each child's evaluation and
  both `Version` calls all go through them. `ValidateConfiguration` is the first
  half of `Evaluate`, `ConfigurationFingerprint` is `Version`.
* What a callback answers is a number per field of `identity`, 0 for a callback
  the child does not have, and at the start what `First` says. `Drift` changes it
  at any moment and to any value; the ghost `givenUp` keeps what each child
  answered before, and only a child in `Fickle` answers it again. There is no
  order among the values, so two children may exchange theirs. For a child in
  `Fickle` two equal reads around an evaluation say nothing of the time in
  between, so `VotesUntainted` and `VersionCovers` are about the others;
  `ThresholdIsUnique` is about all.
* `VersionCovers` says that two equal versions around an evaluation cover the
  children it ran: always for a sequence, whose version keeps the order of its
  children. The other operators sort their descriptors, and there the property
  has the condition that no two children can be mistaken for each other
  (`ToldApart`: one child, or two that differ in type or never had one name).
  `DriftFailsClosed` is the same without that condition, which the code violates
  (section 3).
* `Type` is the concrete type the description falls back to when a child has no
  name, `References` the children of a pointer-like kind, for which the code can
  tell a repetition.
* Digests are the digested descriptors; sorting is forgetting positions
  (`Occurrences`). `tainted` is a ghost: the child was not, when it answered,
  what its descriptor says.

## 3. Runs

| Run | What it asks | Bounds |
| --- | --- | --- |
| `engine_reentry` | Recursion and its ends: `RecursionDenied`, `ReentryDeniesParent`, `CallbackTableExact`, with `TypeOK`; `RegistrationReleased` under fairness | 1 goroutine, 3 frames, 2 configuration changes |
| `engine_races` | `RegistrationExclusive`, `UniqueIds`, `EpochIdentifiesConfiguration`, `PermitCoversConfiguration`, `MutationsSerialised`, and the refinement `ImplementsGate` | 2 goroutines, 2 IDs, 4 configuration changes |
| `engine_inputs` | `DecisionIsProved`, `PermitUntainted` | every kind of input, every optional callback, 2 IDs, one drift per field |
| `engine_nested` | counterexample to `NestedEvaluationDenied` | 1 goroutine, 2 frames |
| `composition` | `TypeOK`, `ThresholdIsUnique`, `ValidIsEarned`, `SequentialStops`, `VotesUntainted`, `VersionCovers` | all operators, thresholds 0 to 3, children of one type: lists of up to 2 out of a pointer child, a value child and nil, with 2 names, of which the value child may give up its own for the other's, and 2 configurations that both may exchange; and lists of up to 2 out of a pointer child whose name alternates and nil |
| `composition_exchange` | counterexample to `DriftFailsClosed` | a parallel-and, 2 children of one type and name, 2 configurations |
| `composition_value_votes` | counterexample to `ThresholdIsUnique` | 1 value child whose name alternates |
| `proof_tamper` | `IssuedVerifies`, `TamperEvident`, `LegacyFailsClosed`, `ReconstructionIsBound` | up to 2 primitives; 2 changed fields of proofs of at most one, 1 of the others |
| `proof_round_trip` | counterexample to `RoundTripVerifies` | no changed field |
| `context_values` | `Isolated`, `ContextsImmutable`, `ConstructionExact`, `SnapshotExact`, `ExportsFaithful`, `MeetsSpecification`, `CanonicalFormBinds`, `EncodingBinds` | 3 objects of the host, 2 contexts or results, 1 copy, 1 write, 3 steps; depth limits 5, 4 and 3 |
| `context_provable` | counterexample to `ContextProvable` | the same |
| `compliance` | `CompliantIsEarned`, `ReportIsExact`, `ProbeFollowsIdentity` | up to 2 primitives out of 4 kinds and nil, 16 kinds of source, 3 of them accepted against their purpose, 2 fingerprints, 2 results |

Why the bounds are enough. `MaxDepth` bounds nested calls: recursion needs an
evaluation, a callback and a second evaluation; the third frame is one nested in
the nested one, where a deferred delete could remove a foreign entry.
`MaxDrift = 1` makes a field equal or not equal to what was registered, which is
all the code compares. `MaxEpoch` bounds configuration changes: with four, a list
is registered, cleared and registered again to an equal list while an evaluation
holds the first one. Two IDs give a list in which a loop can stop early. Two
goroutines are enough for every pair of lock sections to interleave. With two
changed fields a field and the commitment that matches it change together.
Two children of one type are enough for a composite to mistake one for the other,
to be listed twice and to stop early; with two names and two configurations they
are told apart by either, by both or by none, and can exchange configurations
while the composite is in use. A child that alternates is only put next to itself
or nil, which is where its alternation matters.
`VersionCovers` excludes versions that describe an invalid child: a callback that
fails before and after an evaluation but not during it gives two equal versions
around an answer they do not describe. Three objects of the host make a map that
holds itself, a map that holds one slice twice, and a chain that is as long as
the depth limits. The limit of a context stays above the others, as in the code
(256 above 64). A snapshot and a proof both stop at 64 in the code; the instance
gives the snapshot one level more, since with limits this small equal ones leave
no two snapshots that differ only in a type. Two
stored values are compared with each other, and three steps are enough for any
two of making, handing out and writing, and one look at what they did. A third
primitive of a deployment would meet a combined report no different from that of
two. Deadlock is checked for the engine, the proofs and the composites: calls are
always possible or a frame can step, a proof can be issued, a composite is used
again. `context_values` ends at its bounds and `compliance` when `CheckAll` has
returned, so there it is not checked.

The counterexamples are five findings:

* `RoundTripVerifies`: `context_snapshot` is `omitempty` (PT:41), so a proof
  of an evaluation under a context without entries loses its snapshot in JSON and
  no longer verifies. A denial, as in TLC's trace, then has a context commitment
  without a snapshot (PT:141), a permission has no bound context (PT:138).
* `NestedEvaluationDenied`: a goroutine is in `callbackEvaluations` only while
  an `Evaluate` callback runs (GE:432), so an evaluation made in a `Version`,
  `DeterministicSource` or configuration callback of another evaluation is
  answered like a first one.
* `ThresholdIsUnique` over a value child: a repeated child is recognised by its
  pointer (CO:170), which a struct value has not; listed twice and alternating
  its name between the two descriptions, it passes the identity check
  (CO:184-192) and the check after each evaluation, and has two votes of a
  threshold that promises unique primitives (CO:424).
* `DriftFailsClosed`: the version of a parallel-and or threshold sorts its
  descriptors (CO:208). Two children of one type and name that exchange their
  configurations, the first before its evaluation and the second after its own,
  leave it unchanged although both were evaluated under one configuration;
  neither returns to a value it gave up. The README (Compliance Checker) says that
  evaluation fails closed on drift, and `TestConfigurationDriftFailsClosed` asserts
  it of a composite with a child whose configuration drifts.
* `ContextProvable`: a context is valid up to depth 256 (DC:169), a proof stores
  values up to depth 64 (PT:593), so the evaluation of a valid context in between
  is denied without the envelope that is promised for every evaluation.

**Fairness.** `FairSpec` assumes strong fairness of the steps of each frame: a
callback returns, and it calls the engine finitely often before. Weak fairness
would not do, because a frame is not on top while its callback's nested call
runs. The code has no other wait: no lock is held in a callback, no channel or
condition is used. Calling the engine is never fair. That the nesting ends is an
assumption about the callbacks, not a fact about the code: a `Version`,
`DeterministicSource` or configuration callback that evaluates again is not
recognised (the finding of `engine_nested`) and can recurse without end, which
`MaxDepth` cuts off. Hence no property says that every call returns;
`RegistrationReleased` says that a registration whose callbacks do return gives
the engine back on every path, whatever they called.

Each property of a passing run has a mutation of a modelled definition that
violates it (a dropped comparison, a missing release, an ignored error); the
mutated operators stand beside the definitions and are marked as such.

## 4. Proofs

`GovernanceEngineProofs` proves, for any number of goroutines, frames, IDs,
primitives and any contexts:

* `TypeCorrect`: `Spec => []TypeOK`;
* `RegistrationIsExclusive`, `CallbackTableIsExact`, `RecursionIsDenied`,
  `ReentryDenies`: the four control invariants of the engine.

The inductive invariant is `IInv == TypeOK /\ ControlInv`, the conjunction of the
five. None of the control invariants is inductive alone. That the deferred delete
removes only its own entry (`CallbackTableExact`) needs that nothing evaluates
above a running callback (`RecursionDenied`): otherwise the frame above could
have taken the table over. `RecursionDenied` needs the exact table, which is what
the lock section of `evaluate` tests. It follows from the two that the branch of
`invokePrimitiveEvaluation` that finds its goroutine in the table (GE:424-431) is
never taken: by then the evaluation has been refused. `ReentryDeniesParent` needs
that a mark is only ever put on a frame that is in a running callback, hence
before its recheck. The proof has a lemma per action and per part of the
invariant, and one step per action in `NextKeepsIInv`.

From there `GovernanceEngineProofs` goes on to the data:

* `MutationsAreSerialised`: while a registration is active only its own
  publication changes the configuration. `ConfigurationMoves` says that there are no other changes than a
  `Clear`, which tests the flag, and a publication, which tests the attempts.
* `IdsAreUnique`: from the second look-up, over any history.
* `EpochIdentifies`, `PermitsAreUntainted`, `PermitsCoverConfiguration`: from
  `DataInv`, which is inductive relative to `IInv`. It says of each frame
  (`FrameOK`) that its epoch is not ahead of the engine's and its snapshot the
  engine's while they are equal (`EpochOK`); that the signals so far are those of
  the registrations passed, in order, unless there is a reason (`SignalsOK`); that
  what a snapshot or a record holds of a primitive is what it answers or did
  answer (`SnapshotBehind`, `RecordBehind`, and `RegistrationsBehind` of the
  engine's list); and that a taint will still be found (`TaintOK`): until the
  reads after the evaluations are over, one of the fields *still to be read* has
  moved past the registered one. This is where identities moving on only, never
  back, is used: a drift found by the last read cannot have been undone. Each
  read that agrees leaves the taint to the remaining fields, and after the last
  one none is left, so a registration that passes was not tainted.

A step changes one frame (`CallMovesFrames`, `StepMovesFrames`), frames at rest
keep `FrameOK` although the configuration and the identities move under them
(`RestKeepsFrame`), and there is one lemma per kind of step for the frame that
takes it. `PermitsCoverConfiguration` is an action property: `RecheckDecides`
names the only step that decides after a loop, `PermitMeans` what a permission of
it rests on.

`GovernanceGateProofs` proves that the engine implements its promise,
`EngineImplementsGate == Spec => ImplementsGate`. The initial states map to
initial states, and for every action there is the step of the gate it maps to:
most change nothing a caller sees (`registrations`, the flags, and the outcome of
every call stay) and are stutters; `RegisterBegins`, `Publish`, `Release`, a
refused mutation and `Clear` are the step of the same name; a denial of any
kind is `Deny`. The step that takes work is a permission: `DataInv` says that the
signals are those of the registrations of the snapshot in order, `EpochOK` that
the snapshot is the engine's list when the epochs agree, and the recheck that they
do; hence what the answer attests is the policy of that state. Frames that are
pushed, popped or given up need that a free frame has no outcome, which
`TypeOK` gives.

It also proves `DecisionsAreProved == Spec => []DecisionIsProved`.
`DecisionInv` says of each frame that its snapshot repeats no ID, that at the
recheck there are no more signals than registrations, and that a decision about
to be returned is backed by its proof. It is inductive relative to `IInv`,
`DataInv` and `UniqueIds`: a version is looked up in the proof by ID
(`RegisteredVersion`), so two registrations of one ID would let the proof of one
speak for the other. The link to the generator is `GeneratedVerifies` of
`ProofTheoryProofs`: what `GenerateProofForContext` makes of shaped arguments
verifies exactly when the supplied versions are those it was given.

### Proofs of governance proofs

`ProofTheoryProofs` has the lemmas about the operators of PT, for any arguments:
what the generator returns (`GeneratedProof`), that it verifies
(`GeneratedVerifies`), and that a proof is determined by its envelope commitment
when it verifies (`VerifiedUnderEnvelope`). `ProofLifecycleProofs` proves, for any
sets of IDs, versions, reasons and values, any length of an order and any number
of corruptions: `TypeCorrect`, `IssuedProofsVerify`, `CopiesAreTamperEvident`,
`ReconstructionsAreBound`, `LegacyInterfaceFailsClosed`.

The inductive invariant is `IInv == TypeOK /\ Sealed /\ SameEnvelope /\ LegacyDenies`.
`Sealed` remembers that the issued proof is what the generator makes of *some*
arguments, `SameEnvelope` that every copy keeps the envelope commitment, and
`LegacyDenies` that a legacy proof is a denial. None of the properties is
inductive without them: that a copy verifies says nothing of the next corrupted
copy, but both are compared with one commitment, whose preimage, under collision
freedom, is the issued proof. The snapshot of the context is not in that preimage,
only its commitment; that it is bound too comes from `Verify`'s insistence on the
stored form, in which two different contexts never have one commitment.

### Composites

`CompositionOperatorsProofs` proves, for any number of children, any names and
any changes of them between any two callbacks: `TypeCorrect`,
`ValidAnswersAreEarned`, `SequencesStop`, `VotesAreUntainted`,
`ThresholdsAreUnique`, `VersionsCover`.

What a child that does not go back has answered is what it answers now or is
never answered again (`Had`, `HadStays`). So of two descriptors of one such child
the later one *follows* the earlier one (`Follows`): in each field, while the
child still answers what the earlier one recorded, the later one recorded it too.
The inductive invariant has a part for each place where this is used: the draft
and all descriptors hold what the child has had (`DraftInv`, `Past`), descriptors
of one child follow one another by their positions (`DescriptorInv`), a tainted
result differs from its descriptor in a field that the recheck has not read yet or
has read moved (`TaintInv`), an outcome carries its position's descriptor and is
untainted when it counts (`OutcomeInv`), and the descriptors of the evaluation
follow those of the version before and lie between them and those read after
(`Precedes`, `Between`, in `BeforeInv`). Two votes of one threshold by the same
child would need two descriptors with different names, hence a drift the recheck
of the first one sees.

`VersionsCover` ends with the versions. Of a sequence they keep the positions, so
the descriptors before and after are equal one by one, and what lies between two
equal descriptors is equal to both. Of the other operators they only say that each
descriptor occurs before as often as after. With children told apart, a descriptor
that is found again afterwards is found at a position of the same child
(`FromTheSameChild`): its type or the name in it was never another one's. Two
descriptors of that child which agree leave nothing in between
(`HeldByBoth`), so the evaluation ran what both versions describe.

`ThresholdsAreUnique` has the hypothesis `Fickle \subseteq References`: a child
that goes back to an answer it gave up is of a pointer-like kind, whose
repetition the code recognises by its pointer (CO:162-178). Without it the
property is false, which is the finding of `composition_value_votes`.

### Compliance checker

`ComplianceCheckerProofs` proves, for deployments of any length and whatever the
callbacks answer: `TypeCorrect`, `ComplianceIsEarned`, `ReportsAreExact`,
`ProbesFollowIdentities`.

Each action of `CheckPrimitive` is shown to be one and the same `Step`: a callback
is answered, the answer brings at most one `Fault`, and the report, the verdict
and the callbacks to come follow that fault. `FlawsAfter` connects it with the
properties, which speak of the whole log: the flaws after an answer are the flaws
before it and its fault. The inductive invariant has the shape of the state
(`ShapeInv`), what was asked of which primitive (`AnswersInv`: a primitive that is
done has a fatal flaw or was asked everything), how far the check is (`CheckInv`:
what is remembered for a comparison is the first answer), that the report of the
primitive under check has exactly its flaws so far (`ReportInv`), and that the
combined report lists those of the primitives before it (`CombinedInv`). The
property `CompliantIsEarned` needs all of them, since it concludes from an empty
list of violations to the answers of every primitive. `ValidatedIsDeterministic`
is the step from the check of a source to its purpose, for source that is written
plainly; of other source it can be false (section 2).

### Contexts

`DeterministicContextProofs` proves, for any number of objects the host program
begins with, any sharing and cycles among them, any depth limits and any history
of writes (a single object has at most six keys, `Keys` of `PlainValues`, or three
items, since these are named in the module):
`ContextsAreWellFormed`, `ContextsAreIsolated`, `ContextsStayAsMade`,
`ConstructionIsExact`, `SnapshotsKeepAll`, `CopiesAreFaithful`,
`ContextsMeetSpecification`, `CommitmentsBind`, `StoredFormsBind`. The lemmas
about the walks, which know nothing of contexts, are in `PlainValuesProofs`.

*Who may write where.* An address says whose object lies there, the host's, a
context's or that of a copy handed out (`Side`). The inductive invariant is
`SidesInv`: the heap is well formed (`TypeOK`), what lies at the addresses of
contexts and copies was made by them (`Known`), a reference never leaves its side
(`Partitioned`), and what the host holds, and each thing stored, is on its own
side (`HeldByHost`, `StoredApart`). `Reach` is the least closed set that holds
the values it starts from, so it stays on one side, and two sides have no object
in common. `ContextsAreIsolated` and `ContextsStayAsMade` follow, given that the
copy of a walk lies at new addresses and refers to nothing but itself
(`ClonesAreCopies`, `SnapshotsAreCopies`).

*That a walk is what its definition says.* The walks end because the depth grows
at every step down. So `CloneWalks` and `SnapshotWalks` construct the recursive
function by induction on the depth that is left, and facts about a walk are
proved by that induction from what it does at one place.

*What a walk returns.* `ConstructionIsExact` compares the walk with `Sound` and
`Retained`, which speak of paths only. The link is a lemma that says, for a walk
at any place, what it keeps at each path below; it is proved by induction on the
path (`PathInduction`), one key at a time: the walk is inside of an object
exactly when the path has already passed it, and its depth is `DepthAt`.
`SnapshotsKeepAll` is the same for a walk that is all or nothing.

*What is handed out.* `FaithfulInv` is the conjunction of `SidesInv`, `WholeInv`,
`CommittedInv` and `RootsInv`. `WholeInv` says what a context holds: a copy of it
would keep everything (`SelfRetained`), and if the context is valid, every path
of it is sound (`AllSound`) and it says what it was given (`given`). That a copy
keeps everything is not obvious of an invalid context: a walk puts a zero in the
place of an item that is too deep, and that zero may again be too deep for the
next walk, which then puts the same zero there (`CopiesAreSelfRetained`).
`CommittedInv` says that the commitment of a valid context is that of what it
holds, `RootsInv` that what is stored begins with a `map[string]interface{}` or an
`[]interface{}`. Steps keep all of it because the side of a stored value never
changes, so that its walks and what it unfolds to do not either
(`AllStoredStays`).

*What a commitment tells.* `CommitmentsBind` rests on `CanonicalFormTells`: two
trees that are written alike are one tree. A part of what is written says where it
ends: no continuation makes it the beginning of another part (`Apart`). That is
clear of a mark, a length and a frame; it holds of a sequence of parts when their
number is known (`FlatTellsApart`), and of a node because its type and the number
of its elements are written before them (`NodesApart`). The keys of a map are
written in their order, all of them (`SortedFacts`), and those of a slice are not
written at all, but there is only one set of indexes of each size
(`IndexesByNumber`). From the leaves to the root this gives that every node is
apart from every other one (`TreeInduction`, `TreesTell`), and then, from the root
to the leaves, that equal forms have equal nodes and equal forms below.

*What a stored form tells.* `StoredFormsBind` has the same two inductions, over
trees of trees (`TreeFacts`, `TreeTells`). Going up: every encoding is refused or
is plain data that `CloneStored` copies as it is (`StoredForm`,
`TreesAreStored`); since the cloner starts its depth again at each container, no
bound on its depth is needed. Going down: an encoding tells its node and the
encodings of its elements (`EncodedTells`). What could go wrong is that a map of
the host looks like a tag, or that the types which `PlainType` forgets make two
contents one. Neither happens, because everything but nil, booleans and strings
is inside of a tag (`KindsOfEncoding`) and the tag holds the type (`TagTells`).
The root is not tagged, and there the type is known, because of `RootsInv`.

### Assumptions, and what stays model-checked

The assumptions are those of the modules; TLC evaluates them in every run.

* `ProofConstants`: a context without entries is a value that can be stored, and
  `NoContext` (a nil map) is neither a value nor a stored one.
* `LifecycleConstants`, `NoProofIsNil`: the bounds are numbers, there is a logical
  time, a blank reason is not one `generateLegacyProof` gives, and a nil pointer is
  no proof.
* `EngineConstants`, `CompositionConstants`: types of the constants; the lists of
  children may be any set of sequences of children and nil. `MaxDepth`,
  `MaxDrift` and `MaxEpoch` are arbitrary.
* `PrimitivesHaveInterfaces`, `NilIsNoPrimitive`, `FailedIsNoAnswer`,
  `SourcesAreTexts`, `DeploymentBound`: an error is none of the answers a callback
  can give, and a source is blank, accepted by the Go parser or anything else.
* Commitments are injective in the model (SHA-256 is assumed collision free).
* `DepthConstants`, `ScalarValues`: the limits are numbers; scalars have no
  address and are of no container's type, and nil is the only value of type nil.
* `HeapsAssumption`, `WrittenAssumption`: the host program begins with any finite
  well-formed heap of its own, of objects as wide as `Keys` allows, and writes scalars, nil containers and what it can
  reach.

Every invariant and every action property that a passing run checks is a
theorem (`ThresholdsAreUnique` under the hypothesis above), and so is the
refinement of `GovernanceGate`. Only model-checked is the liveness property
`RegistrationReleased`, which is out of the prover's reach like everything about
fairness and `ENABLED`. `DeterminismEnforcer` is a table of
decisions; what is proved of it is `ValidatedIsDeterministic`.

## 5. Not modelled

* The wording of reasons, violations, metadata and evidence, and the paths of
  validation issues. In the engine and in proofs values are abstract; depth
  limits are the set `Uncommittable` there.
* Arrays (copied in place), strings that are not valid UTF-8, types local to two
  functions that share a name. The code identifies a slice by the pointer to its
  first element (DC:264), the model by the object; they differ for slices that
  share their first element, that is, for a part of a slice from its beginning: one
  that holds such a part of itself, as after `s[1] = s[:1]`, or an empty part of
  itself, is refused as a cycle by the code although it is none, and cannot be
  built in the model.
* The host changing data on another goroutine during a constructor: a data race
  of the host. `Has`, `Time`, `String`, and `SetItem` and `DeleteItem`, which
  always refuse, hand out no value and change nothing.
* The parser and the patterns of the Determinism Enforcer as such: the model has
  which imports they find, not how. What the patterns find beyond the imports of
  the language, in a string that spans lines for instance, only refuses more. `ValidatePrimitiveContract` is the version check of the
  compliance checker once more.
* Overflow of `configurationEpoch` after 2^64 changes.
* A callback that calls the engine on another goroutine is a call of that
  goroutine; that it waits for it is not represented.
* The rest of Formal semantics, which forwards to the composer and the generator,
  and the entry point.

## 6. Plan

All components but the entry point are modelled, and every safety property that a
run checks is a theorem. What could follow is a model of a host that writes, on
another goroutine, to the data a constructor is walking over: a race that the
code leaves to its callers, and the one hazard of `DeterministicContext` without
a property.
