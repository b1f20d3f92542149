------------------------- MODULE GovernanceGateProofs -------------------------
(***************************************************************************)
(* The engine implements the gate: every step of it is a step of           *)
(* GovernanceGate under the mapping of GovernanceEngine, or none.  And     *)
(* every decision of the engine is backed by its proof: what the engine    *)
(* hands to the generator after its loop is what the generator's verifier  *)
(* accepts against the registered versions.                                *)
(***************************************************************************)
EXTENDS GovernanceEngineProofs, ProofTheoryProofs

(* The mapped variables, by name. *)
Policy == [i \in DOMAIN registrations |-> Entry(registrations[i])]
Outcome == [c \in Goroutines \X Depths |-> OutcomeOf(c[1], c[2])]

-----------------------------------------------------------------------------
(* The policy. *)

LEMMA PolicyKept ==
  UNCHANGED configuration => Policy' = Policy
BY DEF configuration, Policy, Entry

LEMMA PolicyCleared ==
  registrations' = <<>> => Policy' = <<>>
BY DEF Policy, Entry

LEMMA PolicyEmpty ==
  ASSUME IInv
  PROVE  (Policy = <<>>) <=> (registrations = <<>>)
<1>1. registrations \in Seq(Registration)
  BY DEF IInv, TypeOK, VarsTyped
<1>2. DOMAIN Policy = DOMAIN registrations
  BY DEF Policy
<1> QED BY <1>1, <1>2

(* A publication appends the entry of what is published. *)
LEMMA PolicyGrows ==
  ASSUME IInv, NEW g \in Goroutines, NEW d \in Depths, Publishes(g, d)
  PROVE  /\ Entry(Published(g, d)) \in Ids \X (0..MaxDrift)
         /\ Policy' = Append(Policy, Entry(Published(g, d)))
         /\ \A i \in DOMAIN Policy : Policy[i][1] # Entry(Published(g, d))[1]
<1>1. registrations \in Seq(Registration) /\ rg[g][d] \in RegistrationLocals
  BY FrameTypes DEF IInv, TypeOK, VarsTyped
<1>2. Entry(Published(g, d)) \in Ids \X (0..MaxDrift)
  <2>1. rg[g][d].id \in Ids /\ rg[g][d].ident \in Identity
    BY <1>1 DEF RegistrationLocals
  <2>2. rg[g][d].ident["version"] \in 0..MaxDrift
    BY <2>1 DEF Identity, Fields
  <2> QED BY <2>1, <2>2 DEF Entry, Published
<1>3. Policy' = Append(Policy, Entry(Published(g, d)))
  <2> DEFINE n == Len(registrations)
             new == Published(g, d)
  <2>1. registrations' = Append(registrations, new)
    BY DEF Publishes
  <2> HIDE DEF new
  <2>2. /\ n \in Nat
        /\ DOMAIN registrations = 1..n
        /\ DOMAIN registrations' = 1..(n + 1)
        /\ \A i \in 1..n : registrations'[i] = registrations[i]
        /\ registrations'[n + 1] = new
    BY <1>1, <2>1
  <2>3. Policy' = [i \in 1..(n + 1) |-> Entry(registrations'[i])]
    BY <2>2 DEF Policy, Entry
  <2>4. Policy = [i \in 1..n |-> Entry(registrations[i])]
    BY <2>2 DEF Policy
  <2>5. Len(Policy) = n
    BY <2>2, <2>4
  <2>6. Append(Policy, Entry(new))
          = [i \in 1..(n + 1) |-> IF i = n + 1 THEN Entry(new) ELSE Policy[i]]
    BY <2>2, <2>4, <2>5
  <2>7. \A i \in 1..(n + 1) : Entry(registrations'[i]) = IF i = n + 1 THEN Entry(new) ELSE Policy[i]
    BY <2>2, <2>4
  <2> QED BY <2>3, <2>6, <2>7 DEF new
<1>4. \A i \in DOMAIN Policy : Policy[i][1] # Entry(Published(g, d))[1]
  BY DEF Publishes, MayPublish, HasPrimitiveID, Policy, Entry, Published
<1> QED BY <1>2, <1>3, <1>4
-----------------------------------------------------------------------------
(* The outcomes. *)

LEMMA OutcomeRests ==
  ASSUME NEW g \in Goroutines, NEW d \in Depths, Rests(g, d)
  PROVE  OutcomeOf(g, d)' = OutcomeOf(g, d)
BY DEF Rests, OutcomeOf, Attested

(* Only the frame in question changes its outcome. *)
LEMMA OutcomeMoves ==
  ASSUME NEW g \in Goroutines, NEW d \in Depths, NEW o,
         \A h \in Goroutines, e \in Depths :
           ~(h = g /\ e = d) => OutcomeOf(h, e)' = OutcomeOf(h, e),
         OutcomeOf(g, d)' = o
  PROVE  Outcome' = [Outcome EXCEPT ![<<g, d>>] = o]
<1>1. Outcome' = [c \in Goroutines \X Depths |-> OutcomeOf(c[1], c[2])']
  BY DEF Outcome
<1>2. \A c \in Goroutines \X Depths :
        OutcomeOf(c[1], c[2])' = IF c = <<g, d>> THEN o ELSE OutcomeOf(c[1], c[2])
  OBVIOUS
<1>3. [Outcome EXCEPT ![<<g, d>>] = o]
        = [c \in Goroutines \X Depths |-> IF c = <<g, d>> THEN o ELSE OutcomeOf(c[1], c[2])]
  BY DEF Outcome
<1> QED BY <1>1, <1>2, <1>3

LEMMA OutcomeKept ==
  ASSUME \A h \in Goroutines, e \in Depths : OutcomeOf(h, e)' = OutcomeOf(h, e)
  PROVE  Outcome' = Outcome
BY DEF Outcome
-----------------------------------------------------------------------------
(* The phase of a registration. *)

(* No frame reaches or leaves the release of a registration. *)
NoRelease ==
  \A g \in Goroutines, d \in Depths : (pc'[g][d] = "release") <=> (pc[g][d] = "release")

LEMMA PhaseKept ==
  ASSUME NoRelease, UNCHANGED guard
  PROVE  RegistrationPhase' = RegistrationPhase
BY DEF NoRelease, guard, RegistrationPhase

(* A step that the gate does not see. *)
LEMMA Unseen ==
  ASSUME UNCHANGED <<configuration, guard>>, NoRelease,
         \A h \in Goroutines, e \in Depths : OutcomeOf(h, e)' = OutcomeOf(h, e)
  PROVE  UNCHANGED Gate!vars
<1>1. Policy' = Policy
  BY PolicyKept
<1>2. RegistrationPhase' = RegistrationPhase
  BY PhaseKept
<1>3. Outcome' = Outcome
  BY OutcomeKept
<1>4. registrationMutationAttempted' = registrationMutationAttempted
  BY DEF guard
<1> QED BY <1>1, <1>2, <1>3, <1>4 DEF Gate!vars, Policy, Outcome

(* A step that gives an open call an answer. *)
LEMMA Answered ==
  ASSUME UNCHANGED <<configuration, guard>>, NoRelease,
         NEW g \in Goroutines, NEW d \in Depths, NEW answered,
         OutcomeOf(g, d) = Gate!Open,
         OutcomeOf(g, d)' = answered,
         \A h \in Goroutines, e \in Depths :
           ~(h = g /\ e = d) => OutcomeOf(h, e)' = OutcomeOf(h, e)
  PROVE  Gate!Answer(<<g, d>>, answered)
<1>1. Policy' = Policy
  BY PolicyKept
<1>2. RegistrationPhase' = RegistrationPhase
  BY PhaseKept
<1>3. Outcome' = [Outcome EXCEPT ![<<g, d>>] = answered]
  BY OutcomeMoves
<1>4. registrationMutationAttempted' = registrationMutationAttempted
  BY DEF guard
<1>5. Outcome[<<g, d>>] = Gate!Open
  BY DEF Outcome
<1> QED BY <1>1, <1>2, <1>3, <1>4, <1>5 DEF Gate!Answer, Policy, Outcome
-----------------------------------------------------------------------------
(* The steps, one lemma for each kind. *)

(* A frame that is decided for a denial. *)
LEMMA DenialAnswers ==
  ASSUME UNCHANGED <<configuration, guard>>, NEW g \in Goroutines, NEW d \in Depths,
         pc[g][d] \notin {"decided", "release"}, pc'[g][d] = "decided",
         ~answer'[g][d].permitted,
         \A h \in Goroutines, e \in Depths :
           ~(h = g /\ e = d) => pc'[h][e] = pc[h][e] /\ answer'[h][e] = answer[h][e]
  PROVE  Gate!Answer(<<g, d>>, Gate!Denied)
<1>1. NoRelease
  BY DEF NoRelease
<1>2. OutcomeOf(g, d) = Gate!Open
  BY DEF OutcomeOf, Gate!Open
<1>3. OutcomeOf(g, d)' = Gate!Denied
  BY DEF OutcomeOf, Gate!Denied
<1>4. \A h \in Goroutines, e \in Depths :
        ~(h = g /\ e = d) => OutcomeOf(h, e)' = OutcomeOf(h, e)
  BY DEF OutcomeOf, Attested
<1> QED BY <1>1, <1>2, <1>3, <1>4, Answered

(* A call that is refused is a call that is denied. *)
LEMMA RefuseDenies ==
  ASSUME IInv, NEW g \in Goroutines, NEW ctx, NEW time, NEW reason,
         Refuse(g, ctx, time, reason), UNCHANGED <<configuration, guard>>
  PROVE  \E c \in Goroutines \X Depths : Gate!Deny(c)
<1> DEFINE d == depth[g] + 1
<1>1. /\ d \in Depths
      /\ pc'[g][d] = "decided"
      /\ \A h \in Goroutines, e \in Depths : ~(h = g /\ e = d) => pc'[h][e] = pc[h][e]
  BY PushMoves, PointTypes DEF IInv, TypeOK, Refuse
<1>2. /\ ~answer'[g][d].permitted
      /\ \A h \in Goroutines, e \in Depths : ~(h = g /\ e = d) => answer'[h][e] = answer[h][e]
  <2> DEFINE denial == PreconditionDenial(ctx, time, reason)
  <2>1. answer' = [answer EXCEPT ![g][d] = denial]
    BY DEF Refuse
  <2>2. ~denial.permitted
    BY DEF PreconditionDenial
  <2> HIDE DEF denial
  <2>3. DOMAIN answer = Goroutines /\ \A k \in Goroutines : DOMAIN answer[k] = Depths
    BY DEF IInv, TypeOK, VarsTyped
  <2> QED BY <1>1, <2>1, <2>2, <2>3
<1>3. pc[g][d] = "idle"
  <2>1. depth[g] \in Nat /\ depth[g] < d
    BY EngineConstants DEF IInv, TypeOK, VarsTyped
  <2> QED BY <1>1, <2>1 DEF IInv, TypeOK, StackOK
<1> HIDE DEF d
<1>4. Gate!Answer(<<g, d>>, Gate!Denied)
  BY <1>1, <1>2, <1>3, DenialAnswers
<1> QED BY <1>1, <1>4 DEF Gate!Deny

(* The new frame of a call that is not answered at once. *)
LEMMA PushKeepsOutcomes ==
  ASSUME IInv, NEW g \in Goroutines, NEW point \in {"pre_version", "ck_name"}, Push(g, point),
         UNCHANGED answer
  PROVE  /\ NoRelease
         /\ \A h \in Goroutines, e \in Depths : OutcomeOf(h, e)' = OutcomeOf(h, e)
<1> DEFINE d == depth[g] + 1
<1>1. /\ d \in Depths
      /\ pc'[g][d] = point
      /\ \A h \in Goroutines, e \in Depths : ~(h = g /\ e = d) => pc'[h][e] = pc[h][e]
  <2>1. point \in Pcs
    BY DEF Pcs, EvaluatePcs, RegisterPcs, ProbePcs
  <2> QED BY <2>1, PushMoves DEF IInv, TypeOK
<1>2. pc[g][d] = "idle"
  <2>1. depth[g] \in Nat /\ depth[g] < d
    BY EngineConstants DEF IInv, TypeOK, VarsTyped
  <2> QED BY <1>1, <2>1 DEF IInv, TypeOK, StackOK
<1> HIDE DEF d
<1> QED BY <1>1, <1>2 DEF NoRelease, OutcomeOf, Attested

LEMMA RegisterBeginsPhase ==
  ASSUME IInv, NEW g \in Goroutines, NEW id \in Ids, NEW prim \in Primitives,
         RegisterBegins(g, id, prim)
  PROVE  Gate!RegistrationBegins
<1>1. NoRelease /\ \A h \in Goroutines, e \in Depths : OutcomeOf(h, e)' = OutcomeOf(h, e)
  BY PushKeepsOutcomes DEF RegisterBegins
<1>2. ~registrationActive /\ registrationActive' /\ ~registrationMutationAttempted'
  BY DEF RegisterBegins, MayRegister
<1>3. \A h \in Goroutines, e \in Depths : pc[h][e] # "release"
  BY <1>2 DEF IInv, ControlInv, RegistrationExclusive, RegisterPcs
<1>4. RegistrationPhase = "idle" /\ RegistrationPhase' = "probing"
  BY <1>1, <1>2, <1>3 DEF RegistrationPhase, NoRelease
<1>5. Policy' = Policy /\ Outcome' = Outcome
  BY <1>1, PolicyKept, OutcomeKept DEF RegisterBegins
<1> QED BY <1>2, <1>4, <1>5 DEF Gate!RegistrationBegins, Policy, Outcome, RegisterBegins

LEMMA MutationRefusedVoids ==
  ASSUME NEW g \in Goroutines, MutationRefused(g)
  PROVE  Gate!MutationRefused
<1>1. registrationActive /\ registrationActive' = registrationActive /\ registrationMutationAttempted'
  BY DEF MutationRefused
<1>2. UNCHANGED <<configuration, pc, answer>>
  BY DEF MutationRefused
<1>3. RegistrationPhase # "idle" /\ RegistrationPhase' = RegistrationPhase
  BY <1>1, <1>2 DEF RegistrationPhase
<1>4. Policy' = Policy /\ Outcome' = Outcome
  BY <1>2, PolicyKept DEF Outcome, OutcomeOf, Attested
<1>5. registrationMutationAttempted' = TRUE
  BY DEF MutationRefused
<1> QED BY <1>3, <1>4, <1>5 DEF Gate!MutationRefused, Policy, Outcome

LEMMA ClearClears ==
  ASSUME NEW g \in Goroutines, Clear(g)
  PROVE  Gate!Clear
<1>1. ~registrationActive /\ UNCHANGED <<guard, pc, answer>>
  BY DEF Clear
<1>2. RegistrationPhase = "idle" /\ RegistrationPhase' = RegistrationPhase
  BY <1>1 DEF RegistrationPhase, guard
<1>3. Policy' = <<>>
  BY PolicyCleared DEF Clear
<1>4. Outcome' = Outcome
  BY <1>1 DEF Outcome, OutcomeOf, Attested
<1> QED BY <1>1, <1>2, <1>3, <1>4 DEF Gate!Clear, Policy, Outcome, guard

LEMMA CallImplements ==
  ASSUME IInv, NEW g \in Goroutines, Call(g)
  PROVE  Gate!Next \/ UNCHANGED Gate!vars
<1>1. ASSUME NEW ctx, NEW time, EvaluateRefusesInput(g, ctx, time)
      PROVE  \E c \in Goroutines \X Depths : Gate!Deny(c)
  <2>1. PICK t, reason : Refuse(g, ctx, t, reason)
    BY <1>1 DEF EvaluateRefusesInput
  <2> QED BY <1>1, <2>1, RefuseDenies DEF EvaluateRefusesInput
<1>2. ASSUME NEW ctx, EvaluateRefusesRecursion(g, ctx) \/ EvaluateRefusesEmpty(g, ctx)
      PROVE  \E c \in Goroutines \X Depths : Gate!Deny(c)
  <2>1. PICK t, reason : Refuse(g, ctx, t, reason)
    BY <1>2 DEF EvaluateRefusesRecursion, EvaluateRefusesEmpty
  <2>2. UNCHANGED <<configuration, guard>>
    BY <1>2 DEF EvaluateRefusesRecursion, EvaluateRefusesEmpty
  <2> QED BY <2>1, <2>2, RefuseDenies
<1>3. ASSUME NEW ctx, EvaluateBegins(g, ctx) PROVE UNCHANGED Gate!vars
  <2>1. NoRelease /\ \A h \in Goroutines, e \in Depths : OutcomeOf(h, e)' = OutcomeOf(h, e)
    BY <1>3, PushKeepsOutcomes DEF EvaluateBegins
  <2> QED BY <1>3, <2>1, Unseen DEF EvaluateBegins
<1> QED BY <1>1, <1>2, <1>3, RegisterBeginsPhase, MutationRefusedVoids, ClearClears
        DEF Call, Gate!Next
-----------------------------------------------------------------------------
(* The steps of a running frame. *)

(* A step that neither decides nor ends anything is not seen. *)
LEMMA StepUnseen ==
  ASSUME IInv, NEW g \in Goroutines, NEW d \in Depths, Step(g, d),
         UNCHANGED <<configuration, guard>>,
         pc[g][d] \notin {"decided", "release"}, pc'[g][d] \notin {"decided", "release"}
  PROVE  UNCHANGED Gate!vars
<1>1. \A h \in Goroutines, e \in Depths : ~(h = g /\ e = d) => Rests(h, e)
  BY StepMovesFrames
<1>2. NoRelease
  BY <1>1 DEF NoRelease, Rests
<1>3. OutcomeOf(g, d)' = OutcomeOf(g, d)
  BY DEF OutcomeOf
<1>4. \A h \in Goroutines, e \in Depths : OutcomeOf(h, e)' = OutcomeOf(h, e)
  BY <1>1, <1>3, OutcomeRests
<1> QED BY <1>2, <1>4, Unseen

(* The loop of evaluate goes on, or out to the recheck. *)
LEMMA LoopGoesOn ==
  ASSUME IInv, NEW g \in Goroutines, NEW d \in Depths, d = depth[g],
         \/ ReadIdentity(g, d)
         \/ ReadLastIdentity(g, d)
         \/ InvokePrimitiveEvaluation(g, d)
         \/ \E result : PrimitiveReturns(g, d, result)
  PROVE  /\ UNCHANGED <<configuration, guard>>
         /\ pc[g][d] \notin {"decided", "release"}
         /\ pc'[g][d] \notin {"decided", "release"}
<1>1. \A point : Goto(g, d, point) => pc'[g][d] = point
  BY DEF Goto, IInv, TypeOK, VarsTyped
<1>2. CASE ReadIdentity(g, d)
  <2>1. AfterRead(pc[g][d]) \notin {"decided", "release"}
    BY <1>2 DEF ReadIdentity, AfterRead
  <2> QED BY <1>1, <1>2, <2>1 DEF ReadIdentity, FailRegistration
<1>3. CASE ReadLastIdentity(g, d)
  BY <1>1, <1>3 DEF ReadLastIdentity, PassRegistration, FailRegistration
<1>4. CASE InvokePrimitiveEvaluation(g, d)
  BY <1>1, <1>4 DEF InvokePrimitiveEvaluation
<1>5. ASSUME NEW result, PrimitiveReturns(g, d, result)
      PROVE  /\ UNCHANGED <<configuration, guard>>
             /\ pc[g][d] \notin {"decided", "release"}
             /\ pc'[g][d] \notin {"decided", "release"}
  BY <1>1, <1>5 DEF PrimitiveReturns, FailRegistration
<1> QED BY <1>2, <1>3, <1>4, <1>5

(* A proof that could be made holds the signals that were given. *)
LEMMA ProofSignals ==
  ASSUME NEW decision, NEW order, NEW signals, NEW versions, NEW reasons, NEW ctx, NEW time,
         GenerateProofForContext(decision, order, signals, versions, reasons, ctx, time) # NoProof
  PROVE  /\ CanProve(decision, order, signals, versions, reasons, ctx)
         /\ GenerateProofForContext(decision, order, signals, versions, reasons, ctx, time).signals
              = [i \in 1..Len(order) |-> CanonicalSignal(signals[i])]
<1>1. CanProve(decision, order, signals, versions, reasons, ctx)
  BY DEF GenerateProofForContext
<1> DEFINE proof == UnsealedProof(decision, order, signals, versions, reasons, ctx, time)
<1>2. GenerateProofForContext(decision, order, signals, versions, reasons, ctx, time)
        = [proof EXCEPT !.envelope_commitment = Commitment(Envelope(proof))]
  BY <1>1 DEF GenerateProofForContext
<1>3. proof.signals = [i \in 1..Len(order) |-> CanonicalSignal(signals[i])]
  BY DEF UnsealedProof
<1>4. \A c : [proof EXCEPT !.envelope_commitment = c].signals = proof.signals
  BY DEF UnsealedProof
<1> QED BY <1>1, <1>2, <1>3, <1>4

(* The versions of the snapshot are what its registrations recorded. *)
LEMMA VersionOf ==
  ASSUME NEW snapshot \in Seq(Registration),
         \A i, j \in DOMAIN snapshot : snapshot[i].id = snapshot[j].id => i = j,
         NEW n \in Nat, n = Len(snapshot), NEW i \in 1..n
  PROVE  (CHOOSE r \in {snapshot[j] : j \in 1..n} : r.id = snapshot[i].id) = snapshot[i]
<1> DEFINE chosen == CHOOSE r \in {snapshot[j] : j \in 1..n} : r.id = snapshot[i].id
<1>1. \E r \in {snapshot[j] : j \in 1..n} : r.id = snapshot[i].id
  OBVIOUS
<1>2. chosen \in {snapshot[j] : j \in 1..n} /\ chosen.id = snapshot[i].id
  BY <1>1
<1>3. PICK j \in 1..n : chosen = snapshot[j]
  BY <1>2
<1>4. DOMAIN snapshot = 1..n
  OBVIOUS
<1>5. j = i
  BY <1>2, <1>3, <1>4
<1> QED BY <1>3, <1>5

(* A permission attests the configuration in force. *)
LEMMA PermissionAttests ==
  ASSUME IInv, DataInv, UniqueIds, NEW g \in Goroutines, NEW d \in Depths, Recheck(g, d),
         answer'[g][d].permitted
  PROVE  /\ registrations # <<>>
         /\ Attested(answer'[g][d].signals) = Policy
<1> DEFINE locals == ev[g][d]
           n == Len(registrations)
<1>1. /\ locals.epoch = configurationEpoch
      /\ locals.reasons = <<>>
      /\ pc[g][d] = "recheck"
  BY PermitMeans DEF Recheck
<1>2. locals.snapshot # <<>>
  BY <1>1 DEF IInv, TypeOK, SnapshotOK, EvaluatePcs
<1>3. locals.snapshot = registrations
  BY <1>1, <1>2 DEF DataInv, FrameOK, EpochOK
<1>4. Len(locals.signals) = n
  BY <1>1, <1>3 DEF DataInv, FrameOK, SignalsOK
<1>5. registrations \in Seq(Registration) /\ locals.signals \in Seq(SignalRecord)
  BY FrameTypes DEF IInv, TypeOK, VarsTyped, EvaluationLocals
<1>6. n \in Nat /\ DOMAIN registrations = 1..n
  BY <1>5
<1> DEFINE order == [i \in 1..n |-> registrations[i].id]
           versions == [id \in {registrations[i].id : i \in 1..n} |->
                          (CHOOSE r \in {registrations[i] : i \in 1..n} : r.id = id).ident["version"]]
           proof == GenerateProofForContext(locals.reasons = <<>>, order, locals.signals, versions,
                                            locals.reasons, locals.ctx, ContextTime[locals.ctx])
<1>7. EvaluationProof(locals) = proof
  BY <1>3, <1>4 DEF EvaluationProof
<1>8. answer'[g][d] = Decide(locals)
  <2>1. answer'[g][d] = Verdict(locals)
    <3> DEFINE verdict == Verdict(locals)
    <3>1. answer' = [answer EXCEPT ![g][d] = verdict]
      BY DEF Recheck
    <3> HIDE DEF verdict
    <3>2. answer'[g][d] = verdict
      BY <3>1 DEF IInv, TypeOK, VarsTyped
    <3> QED BY <3>2 DEF verdict
  <2>2. \A reason : ~PreconditionDenial(locals.ctx, ContextTime[locals.ctx], reason).permitted
    BY DEF PreconditionDenial
  <2>3. locals.recursive \in BOOLEAN
    BY FrameTypes DEF EvaluationLocals
  <2>4. ~locals.recursive
    BY <2>1, <2>2, <2>3 DEF Verdict
  <2> QED BY <1>1, <2>1, <2>4 DEF Verdict
<1>9. proof # NoProof /\ answer'[g][d].signals = proof.signals
  <2> HIDE DEF proof, locals
  <2>1. Decide(locals).permitted
    BY <1>8
  <2>2. proof # NoProof
    BY <1>7, <2>1 DEF Decide
  <2> QED BY <1>7, <1>8, <2>2 DEF Decide
<1>10. Len(order) = n
  BY <1>6
<1> HIDE DEF locals
<1>11. /\ CanProve(locals.reasons = <<>>, order, locals.signals, versions, locals.reasons, locals.ctx)
       /\ proof.signals = [i \in 1..n |-> CanonicalSignal(locals.signals[i])]
  <2> HIDE DEF order, versions, n
  <2> QED BY <1>9, <1>10, ProofSignals
<1>12. ASSUME NEW i \in 1..n
       PROVE  /\ CanonicalSignal(locals.signals[i]).primitive_id = registrations[i].id
              /\ CanonicalSignal(locals.signals[i]).version = registrations[i].ident["version"]
  <2>1. DOMAIN order = 1..n /\ order[i] = registrations[i].id
    OBVIOUS
  <2>2. versions[registrations[i].id] = registrations[i].ident["version"]
    <3>1. (CHOOSE r \in {registrations[j] : j \in 1..n} : r.id = registrations[i].id) = registrations[i]
      BY <1>5, <1>6, VersionOf DEF UniqueIds
    <3> QED BY <3>1
  <2> HIDE DEF order, versions
  <2>3. ValidateSignal(locals.signals[i], order[i], versions[order[i]])
    BY <1>11, <2>1 DEF CanProve
  <2>4. /\ locals.signals[i].primitive_id = registrations[i].id
        /\ locals.signals[i].version = registrations[i].ident["version"]
    BY <2>1, <2>2, <2>3 DEF ValidateSignal
  <2>5. locals.signals[i] \in SignalRecord
    BY <1>4, <1>5
  <2> QED BY <2>4, <2>5 DEF CanonicalSignal, SignalRecord
<1>13. Attested(proof.signals) = Policy
  <2>1. Attested(proof.signals)
          = [i \in 1..n |-> <<CanonicalSignal(locals.signals[i]).primitive_id,
                              CanonicalSignal(locals.signals[i]).version>>]
    <3> DEFINE signals == proof.signals
    <3>1. signals = [i \in 1..n |-> CanonicalSignal(locals.signals[i])]
      BY <1>11
    <3> HIDE DEF signals, n
    <3>2. DOMAIN signals = 1..n /\ \A i \in 1..n : signals[i] = CanonicalSignal(locals.signals[i])
      BY <3>1
    <3>3. Attested(signals) = [i \in 1..n |-> <<signals[i].primitive_id, signals[i].version>>]
      BY <3>2 DEF Attested
    <3>4. Attested(signals)
            = [i \in 1..n |-> <<CanonicalSignal(locals.signals[i]).primitive_id,
                                CanonicalSignal(locals.signals[i]).version>>]
      BY <3>2, <3>3
    <3> QED BY <3>4 DEF signals
  <2>2. Policy = [i \in 1..n |-> <<registrations[i].id, registrations[i].ident["version"]>>]
    BY <1>6 DEF Policy, Entry
  <2> QED BY <1>12, <2>1, <2>2
<1> QED BY <1>2, <1>3, <1>9, <1>13 DEF locals

LEMMA RecheckAnswers ==
  ASSUME IInv, DataInv, UniqueIds, NEW g \in Goroutines, NEW d \in Depths, Step(g, d), Recheck(g, d)
  PROVE  Gate!Deny(<<g, d>>) \/ Gate!Permit(<<g, d>>)
<1>1. \A h \in Goroutines, e \in Depths : ~(h = g /\ e = d) => Rests(h, e)
  BY StepMovesFrames
<1>2. pc[g][d] = "recheck" /\ pc'[g][d] = "decided" /\ UNCHANGED <<configuration, guard>>
  BY DEF Recheck, Goto, IInv, TypeOK, VarsTyped
<1>3. CASE ~answer'[g][d].permitted
  <2>1. Gate!Answer(<<g, d>>, Gate!Denied)
    BY <1>1, <1>2, <1>3, DenialAnswers DEF Rests
  <2> QED BY <2>1 DEF Gate!Deny
<1>4. CASE answer'[g][d].permitted
  <2>1. registrations # <<>> /\ Attested(answer'[g][d].signals) = Policy
    BY <1>4, PermissionAttests
  <2>2. NoRelease
    BY <1>1, <1>2 DEF NoRelease, Rests
  <2>3. OutcomeOf(g, d) = Gate!Open
    BY <1>2 DEF OutcomeOf, Gate!Open
  <2>4. OutcomeOf(g, d)' = Gate!Permitted
    BY <1>2, <1>4, <2>1 DEF OutcomeOf, Gate!Permitted, Policy
  <2>5. \A h \in Goroutines, e \in Depths :
          ~(h = g /\ e = d) => OutcomeOf(h, e)' = OutcomeOf(h, e)
    BY <1>1, OutcomeRests
  <2>6. Gate!Answer(<<g, d>>, Gate!Permitted)
    BY <1>2, <2>2, <2>3, <2>4, <2>5, Answered
  <2>7. Policy # <<>>
    BY <2>1, PolicyEmpty
  <2> QED BY <2>6, <2>7 DEF Gate!Permit, Policy
<1> QED BY <1>3, <1>4

LEMMA ReturnCloses ==
  ASSUME IInv, NEW g \in Goroutines, NEW d \in Depths, Step(g, d), EvaluateReturns(g, d)
  PROVE  Gate!Close(<<g, d>>)
<1>1. \A h \in Goroutines, e \in Depths : ~(h = g /\ e = d) => Rests(h, e)
  BY StepMovesFrames
<1>2. pc[g][d] = "decided" /\ pc'[g][d] = "idle" /\ UNCHANGED <<configuration, guard>>
  BY DEF EvaluateReturns, Pop, Goto, IInv, TypeOK, VarsTyped
<1>3. Policy' = Policy
  BY <1>2, PolicyKept
<1>4. RegistrationPhase' = RegistrationPhase
  <2>1. NoRelease
    BY <1>1, <1>2 DEF NoRelease, Rests
  <2> QED BY <1>2, <2>1, PhaseKept
<1>5. Outcome[<<g, d>>] # Gate!Open
  BY <1>2 DEF Outcome, OutcomeOf, Gate!Open
<1>6. Outcome' = [Outcome EXCEPT ![<<g, d>>] = Gate!Open]
  <2>1. OutcomeOf(g, d)' = Gate!Open
    BY <1>2 DEF OutcomeOf, Gate!Open
  <2>2. \A h \in Goroutines, e \in Depths :
          ~(h = g /\ e = d) => OutcomeOf(h, e)' = OutcomeOf(h, e)
    BY <1>1, OutcomeRests
  <2> QED BY <2>1, <2>2, OutcomeMoves
<1> QED BY <1>2, <1>3, <1>4, <1>5, <1>6 DEF Gate!Close, Policy, Outcome, guard

(* The steps of a registration. *)
LEMMA RegistrationPhases ==
  ASSUME IInv, NEW g \in Goroutines, NEW d \in Depths, pc[g][d] \in RegisterPcs
  PROVE  RegistrationPhase = IF pc[g][d] = "release" THEN "closing" ELSE "probing"
<1>1. registrationActive
  BY DEF IInv, ControlInv, RegistrationExclusive
<1>2. (\E h \in Goroutines, e \in Depths : pc[h][e] = "release") <=> pc[g][d] = "release"
  <2>1. \A h \in Goroutines, e \in Depths : pc[h][e] = "release" => h = g /\ e = d
    BY DEF IInv, ControlInv, RegistrationExclusive, RegisterPcs
  <2> QED BY <2>1
<1> QED BY <1>1, <1>2 DEF RegistrationPhase

LEMMA RegistrationFailsPhase ==
  ASSUME IInv, IInv', NEW g \in Goroutines, NEW d \in Depths, Step(g, d),
         pc[g][d] \in RegisterPcs \ {"release"}, pc'[g][d] = "release",
         UNCHANGED <<configuration, guard>>
  PROVE  Gate!RegistrationFails
<1>1. \A h \in Goroutines, e \in Depths : ~(h = g /\ e = d) => Rests(h, e)
  BY StepMovesFrames
<1>2. RegistrationPhase = "probing"
  BY RegistrationPhases
<1>3. RegistrationPhase' = "closing"
  BY RegistrationPhases DEF RegisterPcs, guard, RegistrationPhase, IInv, ControlInv, RegistrationExclusive
<1>4. OutcomeOf(g, d)' = OutcomeOf(g, d)
  BY DEF OutcomeOf, RegisterPcs, ProbePcs, RecordPcs
<1>5. Outcome' = Outcome
  BY <1>1, <1>4, OutcomeRests, OutcomeKept
<1>6. Policy' = Policy
  BY PolicyKept
<1> QED BY <1>2, <1>3, <1>5, <1>6 DEF Gate!RegistrationFails, Policy, Outcome, guard

LEMMA ProbeImplements ==
  ASSUME IInv, IInv', NEW g \in Goroutines, NEW d \in Depths, Step(g, d),
         \/ ProbeIdentity(g, d)
         \/ \E result : ProbeReturns(g, d, result)
         \/ RecordIdentity(g, d)
  PROVE  Gate!RegistrationFails \/ UNCHANGED Gate!vars
<1>1. pc[g][d] \in RegisterPcs \ {"release"} /\ UNCHANGED <<configuration, guard>>
  BY DEF ProbeIdentity, ProbeReturns, RecordIdentity, RegisterPcs, ProbePcs, RecordPcs
<1>2. pc'[g][d] \in RegisterPcs
  <2>1. \A point : Goto(g, d, point) => pc'[g][d] = point
    BY DEF Goto, IInv, TypeOK, VarsTyped
  <2>2. CASE ProbeIdentity(g, d)
    <3>1. AfterProbe(pc[g][d]) \in RegisterPcs
      BY <2>2 DEF ProbeIdentity, AfterProbe, RegisterPcs, ProbePcs
    <3> QED BY <2>1, <2>2, <3>1
            DEF ProbeIdentity, RegistrationFails, RegisterPcs, ProbePcs
  <2>3. ASSUME NEW result, ProbeReturns(g, d, result) PROVE pc'[g][d] \in RegisterPcs
    BY <2>1, <2>3 DEF ProbeReturns, RegistrationFails, RegisterPcs, ProbePcs, RecordPcs
  <2>4. CASE RecordIdentity(g, d)
    <3>1. AfterRecord(pc[g][d]) \in RegisterPcs
      BY <2>4 DEF RecordIdentity, AfterRecord, RegisterPcs, RecordPcs
    <3> QED BY <2>1, <2>4, <3>1 DEF RecordIdentity, RegistrationFails, RegisterPcs
  <2> QED BY <2>2, <2>3, <2>4
<1>3. CASE pc'[g][d] = "release"
  BY <1>1, <1>3, RegistrationFailsPhase
<1>4. CASE pc'[g][d] # "release"
  <2>1. "decided" \notin RegisterPcs
    BY DEF RegisterPcs, ProbePcs, RecordPcs
  <2> QED BY <1>1, <1>2, <1>4, <2>1, StepUnseen
<1> QED BY <1>3, <1>4

LEMMA PublishImplements ==
  ASSUME IInv, IInv', NEW g \in Goroutines, NEW d \in Depths, Step(g, d), Publish(g, d)
  PROVE  Gate!RegistrationFails \/ \E entry \in Ids \X (0..MaxDrift) : Gate!Publish(entry)
<1>1. /\ pc[g][d] = "publish" /\ pc'[g][d] = "release" /\ UNCHANGED guard
      /\ pc[g][d] \in RegisterPcs \ {"release"}
  BY DEF Publish, Goto, IInv, TypeOK, VarsTyped, RegisterPcs
<1>2. CASE ~MayPublish(rg[g][d].id)
  BY <1>1, <1>2, RegistrationFailsPhase DEF Publish
<1>3. CASE MayPublish(rg[g][d].id)
  <2>1. Publishes(g, d)
    BY <1>1, <1>3 DEF Publish, Publishes, Published
  <2>2. \A h \in Goroutines, e \in Depths : ~(h = g /\ e = d) => Rests(h, e)
    BY StepMovesFrames
  <2>3. RegistrationPhase = "probing"
    BY <1>1, RegistrationPhases
  <2>4. RegistrationPhase' = "closing"
    BY <1>1 DEF RegisterPcs, guard, RegistrationPhase, IInv, ControlInv, RegistrationExclusive
  <2>5. OutcomeOf(g, d)' = OutcomeOf(g, d)
    BY <1>1 DEF OutcomeOf
  <2>6. Outcome' = Outcome
    BY <2>2, <2>5, OutcomeRests, OutcomeKept
  <2> DEFINE entry == Entry(Published(g, d))
  <2>7. /\ entry \in Ids \X (0..MaxDrift)
        /\ Policy' = Append(Policy, entry)
        /\ \A i \in DOMAIN Policy : Policy[i][1] # entry[1]
    BY <2>1, PolicyGrows
  <2>8. ~registrationMutationAttempted
    BY <1>3 DEF MayPublish
  <2> HIDE DEF entry
  <2>9. Gate!Publish(entry)
    BY <1>1, <2>3, <2>4, <2>6, <2>7, <2>8 DEF Gate!Publish, Policy, Outcome, guard
  <2> QED BY <2>7, <2>9
<1> QED BY <1>2, <1>3

LEMMA ReleaseImplements ==
  ASSUME IInv, IInv', NEW g \in Goroutines, NEW d \in Depths, Step(g, d), Release(g, d)
  PROVE  Gate!RegistrationEnds
<1>1. \A h \in Goroutines, e \in Depths : ~(h = g /\ e = d) => Rests(h, e)
  BY StepMovesFrames
<1>2. /\ pc[g][d] = "release" /\ pc'[g][d] = "idle" /\ UNCHANGED configuration
      /\ ~registrationActive' /\ registrationMutationAttempted' = FALSE
  BY DEF Release, Pop, Goto, IInv, TypeOK, VarsTyped
<1>3. RegistrationPhase = "closing"
  BY <1>2, RegistrationPhases DEF RegisterPcs
<1>4. RegistrationPhase' = "idle"
  BY <1>2 DEF RegistrationPhase
<1>5. OutcomeOf(g, d)' = OutcomeOf(g, d)
  BY <1>2 DEF OutcomeOf
<1>6. Outcome' = Outcome
  BY <1>1, <1>5, OutcomeRests, OutcomeKept
<1>7. Policy' = Policy
  BY <1>2, PolicyKept
<1> QED BY <1>2, <1>3, <1>4, <1>6, <1>7 DEF Gate!RegistrationEnds, Policy, Outcome

LEMMA StepImplements ==
  ASSUME IInv, IInv', DataInv, UniqueIds, NEW g \in Goroutines, NEW d \in Depths, Step(g, d)
  PROVE  Gate!Next \/ UNCHANGED Gate!vars
<1>1. <<g, d>> \in Goroutines \X Depths /\ d = depth[g]
  BY DEF Step
<1>2. CASE \/ ReadIdentity(g, d)
           \/ ReadLastIdentity(g, d)
           \/ InvokePrimitiveEvaluation(g, d)
           \/ \E result : PrimitiveReturns(g, d, result)
  BY <1>1, <1>2, LoopGoesOn, StepUnseen
<1>3. CASE Recheck(g, d)
  BY <1>1, <1>3, RecheckAnswers DEF Gate!Next
<1>4. CASE EvaluateReturns(g, d)
  BY <1>1, <1>4, ReturnCloses DEF Gate!Next
<1>5. CASE \/ ProbeIdentity(g, d)
           \/ \E result : ProbeReturns(g, d, result)
           \/ RecordIdentity(g, d)
  BY <1>5, ProbeImplements DEF Gate!Next
<1>6. CASE Publish(g, d)
  BY <1>6, PublishImplements DEF Gate!Next
<1>7. CASE Release(g, d)
  BY <1>7, ReleaseImplements DEF Gate!Next
<1> QED BY <1>2, <1>3, <1>4, <1>5, <1>6, <1>7 DEF Step

LEMMA InitImplements == Init => Gate!Init
<1> SUFFICES ASSUME Init PROVE Gate!Init
  OBVIOUS
<1>1. Policy = <<>>
  BY DEF Init, Policy
<1>2. RegistrationPhase = "idle"
  BY DEF Init, RegistrationPhase
<1>3. Outcome = [c \in Goroutines \X Depths |-> Gate!Open]
  BY DEF Init, Outcome, OutcomeOf, Gate!Open
<1>4. registrationMutationAttempted = FALSE
  BY DEF Init
<1> QED BY <1>1, <1>2, <1>3, <1>4 DEF Gate!Init, Policy, Outcome

(* Nobody sees a primitive drift, and nobody a step that changes nothing. *)
LEMMA RestUnseen ==
  ASSUME UNCHANGED <<configuration, guard, pc, answer>>
  PROVE  UNCHANGED Gate!vars
<1>1. NoRelease
  BY DEF NoRelease
<1>2. \A h \in Goroutines, e \in Depths : OutcomeOf(h, e)' = OutcomeOf(h, e)
  BY DEF OutcomeOf, Attested
<1> QED BY <1>1, <1>2, Unseen

LEMMA NextImplements ==
  ASSUME IInv, IInv', DataInv, UniqueIds, [Next]_vars
  PROVE  [Gate!Next]_Gate!vars
<1>1. ASSUME NEW g \in Goroutines, Call(g) PROVE Gate!Next \/ UNCHANGED Gate!vars
  BY <1>1, CallImplements
<1>2. ASSUME NEW g \in Goroutines, NEW d \in Depths, Step(g, d)
      PROVE  Gate!Next \/ UNCHANGED Gate!vars
  BY <1>2, StepImplements
<1>3. ASSUME NEW prim \in Primitives, NEW f \in Fields, Drift(prim, f)
      PROVE  UNCHANGED Gate!vars
  BY <1>3, RestUnseen DEF Drift
<1>4. CASE UNCHANGED vars
  BY <1>4, RestUnseen DEF vars
<1> QED BY <1>1, <1>2, <1>3, <1>4 DEF Next

(* ImplementsGate, for any number of goroutines, primitives and nested      *)
(* calls: whatever the callbacks do, the engine's visible behaviour is that *)
(* of the gate.                                                             *)
THEOREM EngineImplementsGate == Spec => ImplementsGate
BY InitImplements, NextImplements, Invariance, DataInvariance, IdsAreUnique, PTL
   DEF Spec, ImplementsGate, Gate!Spec
-----------------------------------------------------------------------------
(* Decisions and their proofs. *)

(* A decision says what its proof says, and the proof verifies. *)
Proved(decision, supplied) ==
  /\ decision.permitted => decision.proof # NoProof
  /\ decision.permitted <=> decision.reasons = <<>>
  /\ decision.proof # NoProof =>
       /\ decision.proof.decision = decision.permitted
       /\ decision.proof.failure_reasons = decision.reasons
       /\ decision.proof.signals = decision.signals
       /\ Verify(decision.proof, supplied)

DistinctIds(snapshot) ==
  \A i, j \in DOMAIN snapshot : snapshot[i].id = snapshot[j].id => i = j

(* What the proof of an evaluation is made from: a snapshot without a       *)
(* repeated ID, and no more signals than registrations in it.  A decision   *)
(* that was made is proved.                                                 *)
DecisionFrame(g, d) ==
  /\ DistinctIds(ev[g][d].snapshot)
  /\ pc[g][d] = "recheck" => Len(ev[g][d].signals) <= Len(ev[g][d].snapshot)
  /\ pc[g][d] = "decided" => Proved(answer[g][d], SnapshotVersions(ev[g][d].snapshot))

DecisionInv == \A g \in Goroutines, d \in Depths : DecisionFrame(g, d)
-----------------------------------------------------------------------------
(* The decisions. *)

(* A denial before any primitive was asked: its proof evaluates nothing and *)
(* verifies whatever primitives the verifier is given.                      *)
LEMMA DenialIsProved ==
  ASSUME NEW ctx, NEW time, NEW reason, NEW supplied
  PROVE  Proved(PreconditionDenial(ctx, time, reason), supplied)
<1> DEFINE context == IF ctx \in Contexts THEN ctx ELSE NoContext
           proof == DenialProof(<<reason>>, context, time)
           denial == PreconditionDenial(ctx, time, reason)
<1>1. /\ denial.permitted = FALSE
      /\ denial.proof = proof
      /\ denial.signals = <<>>
      /\ proof = NoProof => denial.reasons = <<reason, "proof generation failed">>
      /\ proof # NoProof => denial.reasons = <<reason>>
  <2> HIDE DEF proof
  <2> QED BY DEF PreconditionDenial, proof
<1>2. context \in Values \cup {NoContext}
  BY EngineConstants
<1> HIDE DEF context, denial
<1>3. denial.reasons # <<>>
  <2>1. <<reason>> # <<>> /\ <<reason, "proof generation failed">> # <<>>
    OBVIOUS
  <2> HIDE DEF proof
  <2> QED BY <1>1, <2>1
<1>4. ASSUME proof # NoProof
      PROVE  /\ proof.decision = FALSE
             /\ proof.failure_reasons = <<reason>>
             /\ proof.signals = <<>>
             /\ Verify(proof, supplied)
  <2> DEFINE reasons == <<reason>>
  <2> HIDE DEF proof, reasons
  <2>1. IsGenerated(proof, FALSE, <<>>, <<>>, <<>>, reasons, context, time)
    BY <1>4, GeneratedProof DEF proof, DenialProof, reasons
  <2>2. proof.decision = FALSE /\ proof.failure_reasons = reasons
    BY <2>1, Zenon DEF IsGenerated
  <2>3. proof.signals = <<>>
    <3>1. proof.signals = [i \in 1..Len(<<>>) |-> CanonicalSignal(<<>>[i])]
      BY <2>1, Zenon DEF IsGenerated
    <3>2. 1..Len(<<>>) = {}
      OBVIOUS
    <3> QED BY <3>1, <3>2
  <2>4. Verify(proof, supplied) <=> Reported(<<>>, <<>>, supplied)
    <3>1. <<>> \in [1..0 -> {}] /\ 0 \in Nat /\ Shaped(<<>>)
      BY DEF Shaped
    <3> QED BY <1>2, <1>4, <2>1, <3>1, GeneratedVerifies
  <2>5. Reported(<<>>, <<>>, supplied)
    BY DEF Reported
  <2> QED BY <2>2, <2>3, <2>4, <2>5 DEF reasons
<1> HIDE DEF proof
<1>5. Proved(denial, supplied)
  BY <1>1, <1>3, <1>4 DEF Proved
<1> QED BY <1>5 DEF denial

(* A look-up in a part of a snapshot finds what the whole snapshot says. *)
LEMMA RegisteredVersion ==
  ASSUME NEW snapshot \in Seq(Registration), DistinctIds(snapshot),
         NEW n \in 0..Len(snapshot), NEW i \in 1..n
  PROVE  (CHOOSE r \in {snapshot[j] : j \in 1..n} : r.id = snapshot[i].id) = snapshot[i]
<1> DEFINE chosen == CHOOSE r \in {snapshot[j] : j \in 1..n} : r.id = snapshot[i].id
<1>1. \E r \in {snapshot[j] : j \in 1..n} : r.id = snapshot[i].id
  OBVIOUS
<1>2. chosen \in {snapshot[j] : j \in 1..n} /\ chosen.id = snapshot[i].id
  BY <1>1
<1>3. PICK j \in 1..n : chosen = snapshot[j]
  BY <1>2
<1>4. j \in DOMAIN snapshot /\ i \in DOMAIN snapshot
  OBVIOUS
<1>5. j = i
  BY <1>2, <1>3, <1>4 DEF DistinctIds
<1> QED BY <1>3, <1>5

(* The proof of an evaluation, generated over the registrations that were   *)
(* evaluated, verifies against the registered versions.                     *)
LEMMA EvaluationProofVerifies ==
  ASSUME NEW locals \in EvaluationLocals, DistinctIds(locals.snapshot),
         Len(locals.signals) <= Len(locals.snapshot),
         NEW proof, proof = EvaluationProof(locals), proof # NoProof
  PROVE  /\ proof.decision = (locals.reasons = <<>>)
         /\ proof.failure_reasons = locals.reasons
         /\ Verify(proof, SnapshotVersions(locals.snapshot))
<1> DEFINE snapshot == locals.snapshot
           n == Len(locals.signals)
           m == Len(snapshot)
           order == [i \in 1..n |-> snapshot[i].id]
           versions == [id \in {snapshot[i].id : i \in 1..n} |->
                          (CHOOSE r \in {snapshot[i] : i \in 1..n} : r.id = id).ident["version"]]
           decision == locals.reasons = <<>>
           time == ContextTime[locals.ctx]
           supplied == SnapshotVersions(snapshot)
<1>1. /\ snapshot \in Seq(Registration)
      /\ locals.signals \in Seq(SignalRecord)
      /\ locals.ctx \in Contexts \cup {NoContext}
  BY DEF EvaluationLocals
<1>2. m \in Nat /\ n \in 0..m /\ DOMAIN snapshot = 1..m
  BY <1>1
<1>3. proof = GenerateProofForContext(decision, order, locals.signals, versions, locals.reasons,
                                      locals.ctx, time)
  BY DEF EvaluationProof
<1>4. IsGenerated(proof, decision, order, locals.signals, versions, locals.reasons, locals.ctx, time)
  <2> HIDE DEF decision, order, versions, time
  <2> QED BY <1>3, GeneratedProof
<1>5. proof.decision = decision /\ proof.failure_reasons = locals.reasons
  <2> HIDE DEF decision, order, versions, time
  <2> QED BY <1>4, Zenon DEF IsGenerated
<1>6. order \in [1..n -> Ids]
  <2>1. ASSUME NEW i \in 1..n PROVE snapshot[i].id \in Ids
    <3> HIDE DEF snapshot, n
    <3>1. i \in 1..m
      BY <1>2
    <3>2. snapshot[i] \in Registration
      BY <1>1, <3>1
    <3> QED BY <3>2 DEF Registration
  <2> QED BY <2>1
<1>7. locals.signals \in [1..n -> SignalRecord] /\ Shaped(locals.signals)
  <2>1. ASSUME NEW signal \in SignalRecord PROVE SignalShape(signal)
    BY EngineConstants DEF SignalRecord, SignalShape
  <2> QED BY <1>1, <2>1 DEF Shaped
<1>8. locals.ctx \in Values \cup {NoContext}
  BY <1>1, EngineConstants
<1>9. Verify(proof, supplied) <=> Reported(order, versions, supplied)
  <2> HIDE DEF decision, order, versions, time, supplied, n
  <2>1. n \in Nat
    BY <1>2
  <2> QED BY <1>4, <1>6, <1>7, <1>8, <2>1, GeneratedVerifies
<1>10. Reported(order, versions, supplied)
  <2> SUFFICES ASSUME NEW i \in 1..n
               PROVE  order[i] \in DOMAIN supplied /\ supplied[order[i]] = versions[order[i]]
    BY <1>6 DEF Reported
  <2>1. order[i] = snapshot[i].id
    OBVIOUS
  <2>2. versions[snapshot[i].id] = snapshot[i].ident["version"]
    <3>1. (CHOOSE r \in {snapshot[j] : j \in 1..n} : r.id = snapshot[i].id) = snapshot[i]
      BY <1>1, <1>2, RegisteredVersion
    <3> QED BY <3>1
  <2>3. supplied[snapshot[i].id] = snapshot[i].ident["version"] /\ snapshot[i].id \in DOMAIN supplied
    <3>1. (CHOOSE r \in {snapshot[j] : j \in 1..m} : r.id = snapshot[i].id) = snapshot[i]
      BY <1>1, <1>2, RegisteredVersion
    <3>2. supplied = [id \in {snapshot[j].id : j \in 1..m} |->
                        (CHOOSE r \in {snapshot[j] : j \in 1..m} : r.id = id).ident["version"]]
      BY <1>2 DEF SnapshotVersions
    <3>3. snapshot[i].id \in {snapshot[j].id : j \in 1..m}
      BY <1>2
    <3> HIDE DEF supplied
    <3> QED BY <3>1, <3>2, <3>3
  <2> HIDE DEF order, versions, supplied
  <2> QED BY <2>1, <2>2, <2>3
<1> QED BY <1>5, <1>9, <1>10

LEMMA DecideIsProved ==
  ASSUME NEW locals \in EvaluationLocals, DistinctIds(locals.snapshot),
         Len(locals.signals) <= Len(locals.snapshot)
  PROVE  Proved(Decide(locals), SnapshotVersions(locals.snapshot))
<1> DEFINE proof == EvaluationProof(locals)
           decision == Decide(locals)
<1>1. /\ proof = NoProof => decision.reasons # <<>> /\ ~decision.permitted /\ decision.proof = NoProof
      /\ proof # NoProof => /\ decision.permitted <=> locals.reasons = <<>>
                            /\ decision.permitted \in BOOLEAN
                            /\ decision.reasons = locals.reasons
                            /\ decision.signals = proof.signals
                            /\ decision.proof = proof
  <2>1. \A reason : Append(locals.reasons, reason) # <<>>
    BY DEF EvaluationLocals
  <2> HIDE DEF proof
  <2> QED BY <2>1 DEF Decide, proof
<1>2. CASE proof = NoProof
  <2> HIDE DEF proof, decision
  <2>1. Proved(decision, SnapshotVersions(locals.snapshot))
    BY <1>1, <1>2 DEF Proved
  <2> QED BY <2>1 DEF decision
<1>3. CASE proof # NoProof
  <2>1. /\ proof.decision = (locals.reasons = <<>>)
        /\ proof.failure_reasons = locals.reasons
        /\ Verify(proof, SnapshotVersions(locals.snapshot))
    BY <1>3, EvaluationProofVerifies
  <2> HIDE DEF proof, decision
  <2>2. Proved(decision, SnapshotVersions(locals.snapshot))
    BY <1>1, <1>3, <2>1 DEF Proved
  <2> QED BY <2>2 DEF decision
<1> QED BY <1>2, <1>3

(* Whatever the recheck answers. *)
LEMMA VerdictIsProved ==
  ASSUME NEW locals \in EvaluationLocals, DistinctIds(locals.snapshot),
         Len(locals.signals) <= Len(locals.snapshot)
  PROVE  Proved(Verdict(locals), SnapshotVersions(locals.snapshot))
<1>1. locals.recursive \in BOOLEAN
  BY DEF EvaluationLocals
<1>2. CASE locals.recursive
  BY <1>2, DenialIsProved DEF Verdict
<1>3. CASE ~locals.recursive /\ configurationEpoch # locals.epoch
  BY <1>3, DenialIsProved DEF Verdict
<1>4. CASE ~locals.recursive /\ configurationEpoch = locals.epoch
  BY <1>4, DecideIsProved DEF Verdict
<1> QED BY <1>1, <1>2, <1>3, <1>4
-----------------------------------------------------------------------------
(* The steps. *)

(* A frame at rest keeps what is said of it. *)
LEMMA RestKeepsDecision ==
  ASSUME NEW g \in Goroutines, NEW d \in Depths, DecisionFrame(g, d), Rests(g, d)
  PROVE  DecisionFrame(g, d)'
<1>1. /\ pc'[g][d] = pc[g][d]
      /\ answer'[g][d] = answer[g][d]
      /\ ev'[g][d].snapshot = ev[g][d].snapshot
      /\ ev'[g][d].signals = ev[g][d].signals
  BY DEF Rests, SameLocals
<1> QED BY <1>1 DEF DecisionFrame

(* A call that is refused is answered with a precondition denial. *)
LEMMA RefusalIsProved ==
  ASSUME IInv, NEW g \in Goroutines, NEW ctx, NEW time, NEW reason, Refuse(g, ctx, time, reason),
         NEW h \in Goroutines, NEW e \in Depths
  PROVE  \/ pc'[h][e] = pc[h][e] /\ answer'[h][e] = answer[h][e]
         \/ pc'[h][e] = "decided" /\ \A supplied : Proved(answer'[h][e], supplied)
<1> DEFINE d == depth[g] + 1
           denial == PreconditionDenial(ctx, time, reason)
<1>1. /\ d \in Depths
      /\ pc'[g][d] = "decided"
      /\ ~(h = g /\ e = d) => pc'[h][e] = pc[h][e]
  BY PushMoves, PointTypes DEF IInv, TypeOK, Refuse
<1>2. answer' = [answer EXCEPT ![g][d] = denial]
  BY DEF Refuse
<1>3. \A supplied : Proved(denial, supplied)
  BY DenialIsProved
<1>4. DOMAIN answer = Goroutines /\ \A k \in Goroutines : DOMAIN answer[k] = Depths
  BY DEF IInv, TypeOK, VarsTyped
<1> HIDE DEF denial, d
<1>5. CASE h = g /\ e = d
  <2>1. answer'[h][e] = denial
    BY <1>1, <1>2, <1>4, <1>5
  <2> QED BY <1>1, <1>3, <1>5, <2>1
<1>6. CASE ~(h = g /\ e = d)
  BY <1>1, <1>2, <1>4, <1>6
<1> QED BY <1>5, <1>6

(* A call leaves the other frames at rest; the frame it pushes is decided   *)
(* by a proved denial or begins with the registrations in force.            *)
LEMMA CallKeepsDecisions ==
  ASSUME IInv, UniqueIds, DecisionInv, NEW g \in Goroutines, Call(g),
         NEW h \in Goroutines, NEW e \in Depths
  PROVE  DecisionFrame(h, e)'
<1>0. DecisionFrame(h, e)
  BY DEF DecisionInv
<1>1. CASE Rests(h, e)
  BY <1>0, <1>1, RestKeepsDecision
<1>2. CASE Pushed(h, e) /\ pc'[h][e] = "pre_version"
  <2>1. PICK ctx \in Contexts :
          ev'[h][e] = [IdleEvaluation EXCEPT !.ctx = ctx, !.snapshot = registrations,
                                             !.epoch = configurationEpoch, !.index = 1]
    BY <1>2 DEF Pushed
  <2>2. ev'[h][e].snapshot = registrations
    BY <2>1 DEF IdleEvaluation
  <2>3. DistinctIds(registrations)
    BY DEF UniqueIds, DistinctIds
  <2> QED BY <1>2, <2>2, <2>3 DEF DecisionFrame
<1>3. CASE Pushed(h, e) /\ pc'[h][e] = "ck_name"
  <2>1. ev'[h][e].snapshot = ev[h][e].snapshot
    BY <1>3 DEF Pushed, SameLocals
  <2> QED BY <1>0, <1>3, <2>1 DEF DecisionFrame
<1>4. CASE Pushed(h, e) /\ pc'[h][e] = "decided" /\ ~Rests(h, e)
  <2>1. SameLocals(ev[h][e], ev'[h][e]) /\ rg'[h][e] = rg[h][e]
    BY <1>4 DEF Pushed
  <2>2. ~(pc'[h][e] = pc[h][e] /\ answer'[h][e] = answer[h][e])
    BY <1>4, <2>1 DEF Rests
  <2>3. ASSUME NEW ctx, NEW time, NEW reason, Refuse(g, ctx, time, reason)
        PROVE  \A supplied : Proved(answer'[h][e], supplied)
    BY <2>2, <2>3, RefusalIsProved
  <2>4. ASSUME NEW point \in {"pre_version", "ck_name"}, Push(g, point), UNCHANGED answer
        PROVE  FALSE
    <3>1. point \in Pcs
      BY PointTypes DEF EvaluatePcs, RegisterPcs, ProbePcs
    <3> QED BY <1>4, <2>2, <2>4, <3>1, PushMoves DEF IInv, TypeOK
  <2>5. UNCHANGED <<pc, answer>> => FALSE
    BY <2>2
  <2>6. \A supplied : Proved(answer'[h][e], supplied)
    BY <2>3, <2>4, <2>5
       DEF Call, EvaluateRefusesInput, EvaluateRefusesRecursion, EvaluateRefusesEmpty,
           EvaluateBegins, RegisterBegins, MutationRefused, Clear
  <2>7. ev'[h][e].snapshot = ev[h][e].snapshot
    BY <2>1 DEF SameLocals
  <2> QED BY <1>0, <1>4, <2>6, <2>7 DEF DecisionFrame
<1> QED BY <1>1, <1>2, <1>3, <1>4, CallMovesFrames DEF Pushed

(* The loop of evaluate adds a signal of the current registration, and no   *)
(* other, when it ends.                                                     *)
LEMMA LoopKeepsDecision ==
  ASSUME IInv, DataInv, NEW g \in Goroutines, NEW d \in Depths, d = depth[g],
         DecisionFrame(g, d),
         \/ ReadIdentity(g, d)
         \/ ReadLastIdentity(g, d)
         \/ InvokePrimitiveEvaluation(g, d)
         \/ \E result : PrimitiveReturns(g, d, result)
  PROVE  DecisionFrame(g, d)'
<1> DEFINE locals == ev[g][d]
<1>0. /\ locals \in EvaluationLocals
      /\ ev \in EvTable
      /\ \A point : Goto(g, d, point) => pc'[g][d] = point
  BY FrameTypes DEF Goto, IInv, TypeOK, VarsTyped, EvTable
<1>1. pc[g][d] \in LoopPcs
  BY DEF ReadIdentity, ReadLastIdentity, InvokePrimitiveEvaluation, PrimitiveReturns,
         LoopPcs, EvaluatePcs
<1>2. /\ Len(locals.signals) = locals.index - 1
      /\ locals.index \in 1..Len(locals.snapshot)
      /\ Len(locals.snapshot) \in Nat
      /\ locals.signals \in Seq(SignalRecord)
  BY <1>0, <1>1, FrameTypes DEF DataInv, FrameOK, SignalsOK, EvaluationLocals
<1>3. pc'[g][d] # "decided"
  BY LoopGoesOn
<1>4. ASSUME ev'[g][d].snapshot = locals.snapshot,
             pc'[g][d] = "recheck" =>
               \E signal : ev'[g][d].signals = Append(locals.signals, signal)
      PROVE  DecisionFrame(g, d)'
  <2>1. pc'[g][d] = "recheck" => Len(ev'[g][d].signals) <= Len(ev'[g][d].snapshot)
    <3> SUFFICES ASSUME pc'[g][d] = "recheck"
                 PROVE  Len(ev'[g][d].signals) <= Len(ev'[g][d].snapshot)
      OBVIOUS
    <3>1. PICK signal : ev'[g][d].signals = Append(locals.signals, signal)
      BY <1>4
    <3> HIDE DEF locals
    <3>2. Len(Append(locals.signals, signal)) = Len(locals.signals) + 1
      BY <1>2
    <3> QED BY <1>2, <1>4, <3>1, <3>2
  <2> QED BY <1>3, <1>4, <2>1 DEF DecisionFrame
<1>5. ASSUME NEW data, NEW reason, FailRegistration(g, d, data, reason)
      PROVE  DecisionFrame(g, d)'
  <2> DEFINE signal == Signal(Current(g, d), FALSE, data)
  <2>1. ev' = [ev EXCEPT ![g][d].signals = Append(@, signal), ![g][d].reasons = <<reason>>]
    BY <1>5 DEF FailRegistration
  <2> HIDE DEF signal
  <2>2. ev'[g][d] = [locals EXCEPT !.signals = Append(@, signal), !.reasons = <<reason>>]
    BY <1>0, <2>1 DEF EvTable
  <2>3. ev'[g][d].snapshot = locals.snapshot /\ ev'[g][d].signals = Append(locals.signals, signal)
    BY <1>0, <2>2 DEF EvaluationLocals
  <2> QED BY <1>4, <2>3
<1>6. ASSUME UNCHANGED ev, pc'[g][d] # "recheck" PROVE DecisionFrame(g, d)'
  BY <1>4, <1>6
<1>7. CASE ReadIdentity(g, d)
  <2>1. AfterRead(pc[g][d]) # "recheck"
    BY <1>7 DEF ReadIdentity, AfterRead
  <2> QED BY <1>0, <1>5, <1>6, <1>7, <2>1 DEF ReadIdentity
<1>8. CASE ReadLastIdentity(g, d)
  <2>1. ASSUME PassRegistration(g, d) PROVE DecisionFrame(g, d)'
    <3> DEFINE signal == Signal(Current(g, d), TRUE, locals.first.data)
    <3>1. ev' = [ev EXCEPT ![g][d].signals = Append(@, signal),
                           ![g][d].index = @ + 1,
                           ![g][d].first = NoResult]
      BY <2>1 DEF PassRegistration
    <3> HIDE DEF signal
    <3>2. ev'[g][d] = [locals EXCEPT !.signals = Append(@, signal), !.index = @ + 1,
                                     !.first = NoResult]
      BY <1>0, <3>1 DEF EvTable
    <3>3. ev'[g][d].snapshot = locals.snapshot /\ ev'[g][d].signals = Append(locals.signals, signal)
      BY <1>0, <3>2 DEF EvaluationLocals
    <3> QED BY <1>4, <3>3
  <2> QED BY <1>5, <1>8, <2>1 DEF ReadLastIdentity
<1>9. CASE InvokePrimitiveEvaluation(g, d)
  <2>1. callbackEvaluations[g] = 0
    BY <1>9, InvokeFindsNoCallback DEF IInv, InvokePrimitiveEvaluation
  <2> QED BY <1>0, <1>6, <1>9, <2>1 DEF InvokePrimitiveEvaluation
<1>10. ASSUME NEW result, PrimitiveReturns(g, d, result) PROVE DecisionFrame(g, d)'
  <2> DEFINE taint == locals.tainted \/ Drifted(Current(g, d))
  <2>1. ASSUME ev' = [ev EXCEPT ![g][d].first = result, ![g][d].tainted = taint],
               pc'[g][d] # "recheck"
        PROVE  DecisionFrame(g, d)'
    <3> HIDE DEF taint
    <3>1. ev'[g][d] = [locals EXCEPT !.first = result, !.tainted = taint]
      BY <1>0, <2>1 DEF EvTable
    <3>2. ev'[g][d].snapshot = locals.snapshot
      BY <1>0, <3>1 DEF EvaluationLocals
    <3> QED BY <1>4, <2>1, <3>2
  <2> QED BY <1>0, <1>5, <1>10, <2>1 DEF PrimitiveReturns
<1> QED BY <1>7, <1>8, <1>9, <1>10

(* The recheck decides. *)
LEMMA RecheckProves ==
  ASSUME IInv, NEW g \in Goroutines, NEW d \in Depths, DecisionFrame(g, d), Recheck(g, d)
  PROVE  DecisionFrame(g, d)'
<1> DEFINE verdict == Verdict(ev[g][d])
<1>1. /\ pc[g][d] = "recheck" /\ pc'[g][d] = "decided" /\ UNCHANGED ev
      /\ ev[g][d] \in EvaluationLocals
  BY FrameTypes DEF Recheck, Goto, IInv, TypeOK, VarsTyped
<1>2. Proved(verdict, SnapshotVersions(ev[g][d].snapshot))
  BY <1>1, VerdictIsProved DEF DecisionFrame
<1>3. answer' = [answer EXCEPT ![g][d] = verdict]
  BY DEF Recheck
<1> HIDE DEF verdict
<1>4. answer'[g][d] = verdict
  BY <1>3 DEF IInv, TypeOK, VarsTyped
<1> QED BY <1>1, <1>2, <1>4 DEF DecisionFrame

(* The steps in which nothing is decided, and no loop ends. *)
LEMMA RegistrationKeepsDecision ==
  ASSUME IInv, NEW g \in Goroutines, NEW d \in Depths, DecisionFrame(g, d),
         \/ ProbeIdentity(g, d)
         \/ \E result : ProbeReturns(g, d, result)
         \/ RecordIdentity(g, d)
         \/ Publish(g, d)
  PROVE  DecisionFrame(g, d)'
<1>1. UNCHANGED ev
  BY DEF ProbeIdentity, RecordIdentity, Publish, ProbeReturns
<1>2. \A point : Goto(g, d, point) => pc'[g][d] = point
  BY DEF Goto, IInv, TypeOK, VarsTyped
<1>3. pc'[g][d] \notin {"recheck", "decided"}
  <2>1. CASE ProbeIdentity(g, d)
    <3>1. AfterProbe(pc[g][d]) \notin {"recheck", "decided"}
      BY <2>1 DEF ProbeIdentity, AfterProbe
    <3> QED BY <1>2, <2>1, <3>1 DEF ProbeIdentity, RegistrationFails
  <2>2. CASE \E result : ProbeReturns(g, d, result)
    BY <1>2, <2>2 DEF ProbeReturns, RegistrationFails
  <2>3. CASE RecordIdentity(g, d)
    <3>1. AfterRecord(pc[g][d]) \notin {"recheck", "decided"}
      BY <2>3 DEF RecordIdentity, RecordPcs, AfterRecord
    <3> QED BY <1>2, <2>3, <3>1 DEF RecordIdentity, RegistrationFails
  <2>4. CASE Publish(g, d)
    BY <1>2, <2>4 DEF Publish
  <2> QED BY <2>1, <2>2, <2>3, <2>4
<1> QED BY <1>1, <1>3 DEF DecisionFrame

LEMMA ReturnKeepsDecision ==
  ASSUME IInv, NEW g \in Goroutines, NEW d \in Depths, Pop(g, d)
  PROVE  DecisionFrame(g, d)'
<1>1. pc'[g][d] = "idle"
  BY DEF Pop, Goto, IInv, TypeOK, VarsTyped
<1>2. ev'[g][d] = IdleEvaluation
  BY DEF Pop, IInv, TypeOK, VarsTyped
<1>3. DistinctIds(ev'[g][d].snapshot)
  BY <1>2 DEF IdleEvaluation, DistinctIds
<1> QED BY <1>1, <1>3 DEF DecisionFrame

LEMMA NextKeepsDecisionInv == IInv /\ DataInv /\ UniqueIds /\ DecisionInv /\ [Next]_vars => DecisionInv'
<1> SUFFICES ASSUME IInv, DataInv, UniqueIds, DecisionInv, [Next]_vars,
                    NEW h \in Goroutines, NEW e \in Depths
             PROVE  DecisionFrame(h, e)'
  BY DEF DecisionInv
<1>0. DecisionFrame(h, e)
  BY DEF DecisionInv
<1>1. ASSUME NEW g \in Goroutines, Call(g) PROVE DecisionFrame(h, e)'
  BY <1>1, CallKeepsDecisions
<1>2. ASSUME NEW g \in Goroutines, NEW d \in Depths, Step(g, d) PROVE DecisionFrame(h, e)'
  <2>1. CASE h = g /\ e = d
    <3>1. d = depth[g]
      BY <1>2 DEF Step
    <3>2. DecisionFrame(g, d)
      BY DEF DecisionInv
    <3>3. CASE EvaluateReturns(g, d) \/ Release(g, d)
      BY <2>1, <3>3, ReturnKeepsDecision DEF EvaluateReturns, Release
    <3>4. DecisionFrame(g, d)'
      BY <1>2, <2>1, <3>1, <3>2, <3>3, LoopKeepsDecision, RecheckProves, RegistrationKeepsDecision
         DEF Step
    <3> QED BY <2>1, <3>4
  <2>2. CASE ~(h = g /\ e = d)
    BY <1>0, <1>2, <2>2, StepMovesFrames, RestKeepsDecision
  <2> QED BY <2>1, <2>2
<1>3. UNCHANGED <<pc, ev, rg, answer>> => DecisionFrame(h, e)'
  BY <1>0, RestKeepsDecision DEF Rests, SameLocals
<1>4. ASSUME NEW prim \in Primitives, NEW f \in Fields, Drift(prim, f) PROVE DecisionFrame(h, e)'
  BY <1>3, <1>4 DEF Drift
<1>5. UNCHANGED vars => DecisionFrame(h, e)'
  BY <1>3 DEF vars
<1> QED BY <1>1, <1>2, <1>4, <1>5 DEF Next

LEMMA InitDecisionInv == Init => DecisionInv
<1> SUFFICES ASSUME Init, NEW g \in Goroutines, NEW d \in Depths PROVE DecisionFrame(g, d)
  BY DEF DecisionInv
<1>1. pc[g][d] = "idle" /\ ev[g][d].snapshot = <<>>
  BY DEF Init, IdleEvaluation
<1> QED BY <1>1 DEF DecisionFrame, DistinctIds

LEMMA DecisionInvariance == Spec => []DecisionInv
BY InitDecisionInv, NextKeepsDecisionInv, Invariance, DataInvariance, IdsAreUnique, PTL DEF Spec

(* Whatever callbacks, races and nested calls did: a permission carries its *)
(* proof, a denial a reason, and a proof says what the decision says and    *)
(* verifies against the versions that were registered.                      *)
THEOREM DecisionsAreProved == Spec => []DecisionIsProved
<1>1. DecisionInv => DecisionIsProved
  BY DEF DecisionInv, DecisionFrame, Proved, DecisionIsProved
<1> QED BY <1>1, DecisionInvariance, PTL
=============================================================================
