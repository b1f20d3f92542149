------------------------ MODULE GovernanceEngineProofs ------------------------
(***************************************************************************)
(* Proofs about GovernanceEngine, for every number of goroutines,          *)
(* primitives and nested calls: first its control, the frames, the flag    *)
(* and the table of running callbacks, and then what it decides over: that *)
(* a permission covers the configuration in force, and that each primitive *)
(* was evaluated under the identity it is registered with.                 *)
(***************************************************************************)
EXTENDS GovernanceEngine, TLAPS

EvTable == [Goroutines -> [Depths -> EvaluationLocals]]
RgTable == [Goroutines -> [Depths -> RegistrationLocals]]
PcTable == [Goroutines -> [Depths -> Pcs]]
-----------------------------------------------------------------------------
(* Lemmas on the locals and the program points. *)

LEMMA IdleEvaluationType == IdleEvaluation \in EvaluationLocals
BY EngineConstants DEF IdleEvaluation, EvaluationLocals, Results

LEMMA IdleRegistrationType ==
  ASSUME NEW id \in Ids, NEW prim \in Primitives
  PROVE  IdleRegistration(id, prim) \in RegistrationLocals
BY EngineConstants DEF IdleRegistration, RegistrationLocals, NoIdentity, Identity, Fields

LEMMA SomeRegistrationType == IdleRegistration(SomeId, SomePrimitive) \in RegistrationLocals
<1>1. SomeId \in Ids /\ SomePrimitive \in Primitives
  BY EngineConstants DEF SomeId, SomePrimitive
<1> QED BY <1>1, IdleRegistrationType

LEMMA InitTypeInv == Init => TypeOK
<1> SUFFICES ASSUME Init PROVE TypeOK
  OBVIOUS
<1>1. identity \in [Primitives -> Identity]
  BY EngineConstants DEF Init, NoIdentity, Identity
<1>2. ev \in EvTable
  BY IdleEvaluationType DEF Init, EvTable
<1>3. rg \in RgTable
  BY SomeRegistrationType DEF Init, RgTable
<1>4. pc \in PcTable
  BY DEF Init, Pcs, PcTable
<1>5. /\ registrations \in Seq(Registration)
      /\ configurationEpoch \in Nat
      /\ registrationActive \in BOOLEAN
      /\ registrationMutationAttempted \in BOOLEAN
  <2>1. registrations \in Seq(Registration)
    BY DEF Init
  <2>2. configurationEpoch \in Nat
    BY EngineConstants DEF Init
  <2> QED BY <2>1, <2>2 DEF Init
<1>6. /\ callbackEvaluations \in [Goroutines -> 0..MaxDepth]
      /\ depth \in [Goroutines -> 0..MaxDepth]
  BY EngineConstants DEF Init
<1>7. DOMAIN answer = Goroutines /\ \A g \in Goroutines : DOMAIN answer[g] = Depths
  BY DEF Init
<1>8. VarsTyped
  BY <1>1, <1>2, <1>3, <1>4, <1>5, <1>6, <1>7 DEF VarsTyped, EvTable, RgTable, PcTable
<1>9. StackOK /\ SnapshotOK
  <2>1. \A g \in Goroutines, d \in Depths : pc[g][d] = "idle" /\ depth[g] < d
    BY EngineConstants DEF Init, Depths
  <2> QED BY <2>1 DEF StackOK, SnapshotOK, EvaluatePcs, LoopPcs, ResultPcs
<1> QED BY <1>8, <1>9 DEF TypeOK

(* A jump changes one program counter. *)
LEMMA GotoMoves ==
  ASSUME VarsTyped, NEW g \in Goroutines, NEW d \in Depths, NEW point \in Pcs, Goto(g, d, point)
  PROVE  /\ pc' \in PcTable
         /\ pc'[g][d] = point
         /\ \A h \in Goroutines, e \in Depths : ~(h = g /\ e = d) => pc'[h][e] = pc[h][e]
BY DEF VarsTyped, Goto, PcTable

(* The locals of one evaluation are replaced. *)
LEMMA EvUpdate ==
  ASSUME VarsTyped, NEW g \in Goroutines, NEW d \in Depths, NEW locals \in EvaluationLocals,
         ev' = [ev EXCEPT ![g][d] = locals]
  PROVE  /\ ev' \in EvTable
         /\ ev'[g][d] = locals
         /\ \A h \in Goroutines, e \in Depths : ~(h = g /\ e = d) => ev'[h][e] = ev[h][e]
BY DEF VarsTyped, EvTable

LEMMA AppendType ==
  ASSUME NEW S, NEW seq \in Seq(S), NEW e \in S
  PROVE  Append(seq, e) \in Seq(S)
OBVIOUS

LEMMA SingletonType == ASSUME NEW S, NEW e \in S PROVE <<e>> \in Seq(S)
OBVIOUS

(* The updates evaluate makes of its locals. *)
LEMMA MarkType ==
  ASSUME NEW r \in EvaluationLocals
  PROVE  LET l == [r EXCEPT !.recursive = TRUE]
         IN  l \in EvaluationLocals /\ l.snapshot = r.snapshot /\ l.index = r.index
            /\ l.first = r.first
BY DEF EvaluationLocals

LEMMA PassType ==
  ASSUME NEW r \in EvaluationLocals, NEW signal \in SignalRecord
  PROVE  LET l == [r EXCEPT !.signals = Append(@, signal), !.index = @ + 1, !.first = NoResult]
         IN  l \in EvaluationLocals /\ l.snapshot = r.snapshot /\ l.index = r.index + 1
<1>1. Append(r.signals, signal) \in Seq(SignalRecord)
  BY AppendType DEF EvaluationLocals
<1>2. r.index + 1 \in Nat
  BY DEF EvaluationLocals
<1>3. NoResult \in Results \cup {NoResult}
  OBVIOUS
<1> QED BY <1>1, <1>2, <1>3 DEF EvaluationLocals

LEMMA ResultType ==
  ASSUME NEW r \in EvaluationLocals, NEW result \in Results, NEW taint \in BOOLEAN
  PROVE  LET l == [r EXCEPT !.first = result, !.tainted = taint]
         IN  l \in EvaluationLocals /\ l.snapshot = r.snapshot /\ l.index = r.index
            /\ l.first = result
BY DEF EvaluationLocals

(* An empty frame is added on top of the stack. *)
LEMMA PushMoves ==
  ASSUME VarsTyped, NEW g \in Goroutines, NEW point \in Pcs, Push(g, point)
  PROVE  /\ depth[g] + 1 \in Depths
         /\ depth' \in [Goroutines -> 0..MaxDepth]
         /\ depth'[g] = depth[g] + 1
         /\ \A h \in Goroutines : h # g => depth'[h] = depth[h]
         /\ pc' \in PcTable
         /\ pc'[g][depth[g] + 1] = point
         /\ \A h \in Goroutines, e \in Depths :
              ~(h = g /\ e = depth[g] + 1) => pc'[h][e] = pc[h][e]
<1>1. depth[g] \in 0..MaxDepth /\ MaxDepth \in Nat
  BY EngineConstants DEF VarsTyped
<1>2. depth[g] + 1 \in Depths
  BY <1>1 DEF Push, Depths
<1>3. /\ depth' \in [Goroutines -> 0..MaxDepth]
      /\ depth'[g] = depth[g] + 1
      /\ \A h \in Goroutines : h # g => depth'[h] = depth[h]
  BY <1>1, <1>2 DEF VarsTyped, Push, Depths
<1> QED BY <1>2, <1>3, GotoMoves DEF Push

(* The program points of the engine's functions are program points. *)
LEMMA PointTypes ==
  /\ EvaluatePcs \subseteq Pcs \ {"idle"}
  /\ RegisterPcs \subseteq Pcs \ {"idle"}
  /\ EvaluatePcs \cap RegisterPcs = {}
  /\ LoopPcs \subseteq EvaluatePcs
  /\ {"recheck", "decided"} \subseteq EvaluatePcs \ LoopPcs
  /\ ResultPcs \subseteq LoopPcs
  /\ "idle" \in Pcs
BY DEF Pcs, EvaluatePcs, RegisterPcs, ProbePcs, RecordPcs, LoopPcs, ResultPcs

(* What a step of the top frame keeps of the stack and of the snapshots. *)
LEMMA StepKeepsFrames ==
  ASSUME TypeOK, VarsTyped', NEW g \in Goroutines, NEW d \in Depths,
         NEW point \in Pcs \ {"idle"}, pc[g][d] # "idle", Goto(g, d, point),
         UNCHANGED depth,
         \A h \in Goroutines, e \in Depths :
           ev'[h][e].snapshot = ev[h][e].snapshot,
         \A h \in Goroutines, e \in Depths :
           ~(h = g /\ e = d) => /\ ev'[h][e].index = ev[h][e].index
                               /\ ev'[h][e].first = ev[h][e].first,
         point \in EvaluatePcs => pc[g][d] \in EvaluatePcs \ {"decided"},
         point \in LoopPcs => ev'[g][d].index \in DOMAIN ev[g][d].snapshot,
         point \in ResultPcs => ev'[g][d].first \in Results
  PROVE  TypeOK'
<1>1. /\ pc'[g][d] = point
      /\ \A h \in Goroutines, e \in Depths : ~(h = g /\ e = d) => pc'[h][e] = pc[h][e]
  BY GotoMoves DEF TypeOK
<1>2. StackOK'
  BY <1>1 DEF TypeOK, StackOK
<1>3. SnapshotOK'
  BY <1>1, PointTypes DEF TypeOK, SnapshotOK
<1> QED BY <1>2, <1>3 DEF TypeOK

(* What a call keeps: the new frame is the only one that differs. *)
LEMMA CallKeepsFrames ==
  ASSUME TypeOK, VarsTyped', NEW g \in Goroutines, NEW point \in Pcs \ {"idle"}, Push(g, point),
         \A h \in Goroutines, e \in Depths :
           ~(h = g /\ e = depth[g] + 1) => /\ ev'[h][e].snapshot = ev[h][e].snapshot
                                           /\ ev'[h][e].index = ev[h][e].index
                                           /\ ev'[h][e].first = ev[h][e].first,
         point \in EvaluatePcs \ {"decided"} => ev'[g][depth[g] + 1].snapshot # <<>>,
         point \in LoopPcs =>
           ev'[g][depth[g] + 1].index \in DOMAIN ev'[g][depth[g] + 1].snapshot,
         point \notin ResultPcs
  PROVE  TypeOK'
<1> DEFINE n == depth[g] + 1
<1>1. /\ n \in Depths
      /\ depth'[g] = n
      /\ \A h \in Goroutines : h # g => depth'[h] = depth[h]
      /\ pc'[g][n] = point
      /\ \A h \in Goroutines, e \in Depths : ~(h = g /\ e = n) => pc'[h][e] = pc[h][e]
  BY PushMoves DEF TypeOK
<1>2. StackOK'
  <2> SUFFICES ASSUME NEW h \in Goroutines, NEW e \in Depths
               PROVE  (pc'[h][e] = "idle") <=> (depth'[h] < e)
    BY DEF StackOK
  <2>1. depth[g] \in Nat /\ e \in Nat
    BY EngineConstants DEF TypeOK, VarsTyped, Depths
  <2> QED BY <1>1, <2>1 DEF TypeOK, StackOK
<1>3. SnapshotOK'
  BY <1>1 DEF TypeOK, SnapshotOK
<1> QED BY <1>2, <1>3 DEF TypeOK
-----------------------------------------------------------------------------
(* Every action keeps the type invariant. *)

LEMMA EvaluateBeginsType ==
  ASSUME TypeOK, NEW g \in Goroutines, NEW ctx \in Contexts, EvaluateBegins(g, ctx)
  PROVE  TypeOK'
<1> DEFINE n == depth[g] + 1
           locals == [IdleEvaluation EXCEPT !.ctx = ctx, !.snapshot = registrations,
                                            !.epoch = configurationEpoch, !.index = 1]
<1>1. locals \in EvaluationLocals
  BY IdleEvaluationType DEF TypeOK, VarsTyped, EvaluationLocals
<1>2. "pre_version" \in LoopPcs \ ResultPcs /\ "pre_version" \in Pcs \ {"idle"}
  BY PointTypes DEF LoopPcs, EvaluatePcs, ResultPcs
<1>3. Push(g, "pre_version")
  BY DEF EvaluateBegins, Evaluates
<1>4. /\ n \in Depths /\ pc' \in PcTable /\ depth' \in [Goroutines -> 0..MaxDepth]
  BY <1>2, <1>3, PushMoves DEF TypeOK
<1>5. ev' = [ev EXCEPT ![g][n] = locals]
  BY DEF EvaluateBegins, Evaluates
<1> HIDE DEF locals
<1>6. /\ ev' \in EvTable
      /\ ev'[g][n] = locals
      /\ \A h \in Goroutines, e \in Depths : ~(h = g /\ e = n) => ev'[h][e] = ev[h][e]
  BY <1>1, <1>4, <1>5 DEF TypeOK, VarsTyped, EvTable
<1>7. VarsTyped'
  BY <1>4, <1>6 DEF TypeOK, VarsTyped, EvTable, PcTable, EvaluateBegins, configuration, guard
<1>8. locals.snapshot = registrations /\ locals.index = 1
  BY DEF locals, IdleEvaluation
<1>9. registrations # <<>> /\ 1 \in DOMAIN registrations
  BY DEF TypeOK, VarsTyped, EvaluateBegins, Evaluates
<1> QED BY <1>2, <1>3, <1>6, <1>7, <1>8, <1>9, CallKeepsFrames

LEMMA RefuseType ==
  ASSUME TypeOK, NEW g \in Goroutines, NEW ctx, NEW time, NEW reason,
         Refuse(g, ctx, time, reason), UNCHANGED <<configuration, guard, callbackEvaluations,
                                                   identity, rg>>,
         ev' \in EvTable,
         \A h \in Goroutines, e \in Depths : /\ ev'[h][e].snapshot = ev[h][e].snapshot
                                             /\ ev'[h][e].index = ev[h][e].index
                                             /\ ev'[h][e].first = ev[h][e].first
  PROVE  TypeOK'
<1>1. Push(g, "decided") /\ "decided" \in Pcs \ {"idle"} /\ "decided" \notin LoopPcs \cup ResultPcs
  BY PointTypes DEF Refuse
<1>2. pc' \in PcTable /\ depth' \in [Goroutines -> 0..MaxDepth]
  BY <1>1, PushMoves DEF TypeOK
<1>3. DOMAIN answer' = Goroutines /\ \A h \in Goroutines : DOMAIN answer'[h] = Depths
  BY DEF TypeOK, VarsTyped, Refuse
<1>4. VarsTyped'
  BY <1>2, <1>3 DEF TypeOK, VarsTyped, EvTable, PcTable, configuration, guard
<1> QED BY <1>1, <1>4, CallKeepsFrames

LEMMA EvaluateRefusesInputType ==
  ASSUME TypeOK, NEW g \in Goroutines, NEW ctx, NEW time, EvaluateRefusesInput(g, ctx, time)
  PROVE  TypeOK'
BY RefuseType DEF EvaluateRefusesInput, TypeOK, VarsTyped, EvTable

LEMMA EvaluateRefusesEmptyType ==
  ASSUME TypeOK, NEW g \in Goroutines, NEW ctx, EvaluateRefusesEmpty(g, ctx)
  PROVE  TypeOK'
BY RefuseType DEF EvaluateRefusesEmpty, TypeOK, VarsTyped, EvTable

LEMMA EvaluateRefusesRecursionType ==
  ASSUME TypeOK, NEW g \in Goroutines, NEW ctx, EvaluateRefusesRecursion(g, ctx)
  PROVE  TypeOK'
<1>1. /\ ev' \in EvTable
      /\ \A h \in Goroutines, e \in Depths : /\ ev'[h][e].snapshot = ev[h][e].snapshot
                                              /\ ev'[h][e].index = ev[h][e].index
                                              /\ ev'[h][e].first = ev[h][e].first
  <2> DEFINE d == callbackEvaluations[g]
             locals == [ev[g][d] EXCEPT !.recursive = TRUE]
  <2>1. d \in Depths
    <3>1. d \in 0..MaxDepth /\ d # 0
      BY DEF TypeOK, VarsTyped, EvaluateRefusesRecursion
    <3> QED BY <3>1, EngineConstants DEF Depths
  <2>2. VarsTyped /\ ev[g][d] \in EvaluationLocals
    BY <2>1 DEF TypeOK, VarsTyped
  <2>3. locals \in EvaluationLocals /\ locals.snapshot = ev[g][d].snapshot
                                   /\ locals.index = ev[g][d].index
                                   /\ locals.first = ev[g][d].first
    BY <2>2, MarkType
  <2>4. ev' = [ev EXCEPT ![g][d] = locals]
    BY <2>1, <2>2 DEF VarsTyped, EvaluationLocals, EvaluateRefusesRecursion
  <2> HIDE DEF d, locals
  <2>5. /\ ev' \in EvTable
        /\ ev'[g][d] = locals
        /\ \A h \in Goroutines, e \in Depths : ~(h = g /\ e = d) => ev'[h][e] = ev[h][e]
    BY <2>1, <2>2, <2>3, <2>4, EvUpdate
  <2> QED BY <2>3, <2>5
<1> QED BY <1>1, RefuseType DEF EvaluateRefusesRecursion

LEMMA FailRegistrationType ==
  ASSUME TypeOK, NEW g \in Goroutines, NEW d \in Depths, pc[g][d] \in LoopPcs,
         NEW data \in Payloads \cup {FailureData}, NEW reason \in PrimitiveFailures,
         FailRegistration(g, d, data, reason),
         callbackEvaluations' \in [Goroutines -> 0..MaxDepth],
         UNCHANGED <<configuration, guard, identity, depth, rg, answer>>
  PROVE  TypeOK'
<1>1. Current(g, d) \in Registration
  BY DEF TypeOK, VarsTyped, SnapshotOK, EvaluationLocals, Current
<1>2. Signal(Current(g, d), FALSE, data) \in SignalRecord
  BY <1>1 DEF Signal, Registration, SignalRecord, Identity, Fields
<1>3. VarsTyped /\ ev[g][d] \in EvaluationLocals
  BY DEF TypeOK, VarsTyped
<1>5. /\ ev' \in EvTable
      /\ \A h \in Goroutines, e \in Depths : /\ ev'[h][e].snapshot = ev[h][e].snapshot
                                              /\ ev'[h][e].index = ev[h][e].index
                                              /\ ev'[h][e].first = ev[h][e].first
  <2> DEFINE signals == Append(ev[g][d].signals, Signal(Current(g, d), FALSE, data))
             reasons == <<reason>>
             locals == [ev[g][d] EXCEPT !.signals = signals, !.reasons = reasons]
  <2>0. signals \in Seq(SignalRecord) /\ reasons \in Seq(PrimitiveFailures)
    BY <1>2, <1>3, AppendType, SingletonType DEF EvaluationLocals
  <2>2. ev' = [ev EXCEPT ![g][d] = locals]
    BY <1>3 DEF VarsTyped, EvaluationLocals, FailRegistration
  <2> HIDE DEF signals, reasons
  <2>1. locals \in EvaluationLocals /\ locals.snapshot = ev[g][d].snapshot
                                   /\ locals.index = ev[g][d].index
                                   /\ locals.first = ev[g][d].first
    BY <1>3, <2>0 DEF EvaluationLocals
  <2> HIDE DEF locals
  <2>3. /\ ev' \in EvTable
        /\ ev'[g][d] = locals
        /\ \A h \in Goroutines, e \in Depths : ~(h = g /\ e = d) => ev'[h][e] = ev[h][e]
    BY <1>3, <2>1, <2>2, EvUpdate
  <2> QED BY <2>1, <2>3
<1>6. Goto(g, d, "recheck") /\ "recheck" \in EvaluatePcs \ LoopPcs /\ "recheck" \in Pcs \ {"idle"}
  BY PointTypes DEF FailRegistration
<1>7. pc' \in PcTable
  BY <1>6, GotoMoves DEF TypeOK
<1>8. VarsTyped'
  BY <1>5, <1>7 DEF TypeOK, VarsTyped, EvTable, PcTable, configuration, guard
<1> QED BY <1>5, <1>6, <1>8, PointTypes, StepKeepsFrames

LEMMA AfterReadType ==
  ASSUME NEW point \in {"pre_version", "pre_source", "pre_config", "post_version", "post_source"}
  PROVE  /\ AfterRead(point) \in LoopPcs
         /\ AfterRead(point) \in ResultPcs => point \in ResultPcs
BY DEF AfterRead, LoopPcs, EvaluatePcs, ResultPcs

LEMMA ReadIdentityType ==
  ASSUME TypeOK, NEW g \in Goroutines, NEW d \in Depths, ReadIdentity(g, d)
  PROVE  TypeOK'
<1>1. pc[g][d] \in LoopPcs
  BY DEF ReadIdentity, LoopPcs, EvaluatePcs
<1>2. CASE Agrees(g, d) /\ Goto(g, d, AfterRead(pc[g][d])) /\ UNCHANGED ev
  <2>1. /\ AfterRead(pc[g][d]) \in LoopPcs /\ AfterRead(pc[g][d]) \in Pcs \ {"idle"}
        /\ AfterRead(pc[g][d]) \in ResultPcs => pc[g][d] \in ResultPcs
    BY AfterReadType, PointTypes DEF ReadIdentity
  <2>2. pc' \in PcTable
    BY <1>2, <2>1, GotoMoves DEF TypeOK
  <2>3. VarsTyped'
    BY <1>2, <2>2 DEF TypeOK, VarsTyped, PcTable, ReadIdentity, configuration, guard
  <2>4. /\ ev[g][d].index \in DOMAIN ev[g][d].snapshot
        /\ pc[g][d] \in ResultPcs => ev[g][d].first \in Results
    BY <1>1 DEF TypeOK, SnapshotOK
  <2> QED BY <1>1, <1>2, <2>1, <2>3, <2>4, PointTypes, StepKeepsFrames DEF ReadIdentity
<1>3. CASE FailRegistration(g, d, FailureData, "primitive failed: identity")
  <2>1. callbackEvaluations' \in [Goroutines -> 0..MaxDepth]
    BY DEF ReadIdentity, TypeOK, VarsTyped
  <2>2. UNCHANGED <<configuration, guard, identity, depth, rg, answer>>
    BY DEF ReadIdentity
  <2>3. FailureData \in Payloads \cup {FailureData}
    OBVIOUS
  <2>4. "primitive failed: identity" \in PrimitiveFailures
    BY DEF PrimitiveFailures
  <2> QED BY <1>1, <1>3, <2>1, <2>2, <2>3, <2>4, FailRegistrationType
<1> QED BY <1>2, <1>3 DEF ReadIdentity

LEMMA PassRegistrationType ==
  ASSUME TypeOK, NEW g \in Goroutines, NEW d \in Depths, pc[g][d] \in LoopPcs,
         PassRegistration(g, d), ev[g][d].first \in Results,
         UNCHANGED <<configuration, guard, callbackEvaluations, identity, depth, rg, answer>>
  PROVE  TypeOK'
<1> DEFINE point == IF ev[g][d].index = Len(ev[g][d].snapshot) THEN "recheck" ELSE "pre_version"
<1>1. /\ Current(g, d) \in Registration
      /\ ev[g][d].index \in DOMAIN ev[g][d].snapshot
      /\ ev[g][d].snapshot \in Seq(Registration)
  BY DEF TypeOK, VarsTyped, SnapshotOK, EvaluationLocals, Current
<1>2. Signal(Current(g, d), TRUE, ev[g][d].first.data) \in SignalRecord
  BY <1>1 DEF Signal, Registration, SignalRecord, Identity, Fields, Results
<1>3. VarsTyped /\ ev[g][d] \in EvaluationLocals /\ ev[g][d].index \in Nat
  BY DEF TypeOK, VarsTyped, EvaluationLocals
<1>5. /\ ev' \in EvTable
      /\ \A h \in Goroutines, e \in Depths : ev'[h][e].snapshot = ev[h][e].snapshot
      /\ \A h \in Goroutines, e \in Depths :
           ~(h = g /\ e = d) => /\ ev'[h][e].index = ev[h][e].index
                               /\ ev'[h][e].first = ev[h][e].first
      /\ ev'[g][d].index = ev[g][d].index + 1
  <2> DEFINE locals == [ev[g][d] EXCEPT
                          !.signals = Append(@, Signal(Current(g, d), TRUE, ev[g][d].first.data)),
                          !.index = @ + 1, !.first = NoResult]
  <2>1. locals \in EvaluationLocals /\ locals.snapshot = ev[g][d].snapshot
                                   /\ locals.index = ev[g][d].index + 1
    BY <1>2, <1>3, PassType
  <2>2. ev' = [ev EXCEPT ![g][d] = locals]
    BY <1>3 DEF VarsTyped, EvaluationLocals, PassRegistration
  <2> HIDE DEF locals
  <2>3. /\ ev' \in EvTable
        /\ ev'[g][d] = locals
        /\ \A h \in Goroutines, e \in Depths : ~(h = g /\ e = d) => ev'[h][e] = ev[h][e]
    BY <1>3, <2>1, <2>2, EvUpdate
  <2> QED BY <2>1, <2>3
<1>6. Goto(g, d, point) /\ point \in EvaluatePcs \ ResultPcs /\ point \in Pcs \ {"idle"}
  BY PointTypes DEF PassRegistration, EvaluatePcs, ResultPcs
<1>7. pc' \in PcTable
  BY <1>6, GotoMoves DEF TypeOK
<1>8. VarsTyped'
  BY <1>5, <1>7 DEF TypeOK, VarsTyped, EvTable, PcTable, configuration, guard
<1>9. point \in LoopPcs => ev'[g][d].index \in DOMAIN ev[g][d].snapshot
  BY <1>1, <1>5, PointTypes
<1> QED BY <1>5, <1>6, <1>8, <1>9, PointTypes, StepKeepsFrames

LEMMA ReadLastIdentityType ==
  ASSUME TypeOK, NEW g \in Goroutines, NEW d \in Depths, ReadLastIdentity(g, d)
  PROVE  TypeOK'
<1>1. pc[g][d] \in LoopPcs /\ ev[g][d].first \in Results
  BY DEF ReadLastIdentity, LoopPcs, EvaluatePcs, ResultPcs, TypeOK, SnapshotOK
<1>2. UNCHANGED <<configuration, guard, callbackEvaluations, identity, depth, rg, answer>>
  BY DEF ReadLastIdentity
<1>3. callbackEvaluations' \in [Goroutines -> 0..MaxDepth]
  BY <1>2 DEF TypeOK, VarsTyped
<1>4. CASE PassRegistration(g, d)
  BY <1>1, <1>2, <1>4, PassRegistrationType
<1>5. CASE FailRegistration(g, d, ev[g][d].first.data, "primitive failed: denied")
  <2>1. ev[g][d].first.data \in Payloads \cup {FailureData}
    BY <1>1 DEF Results
  <2>2. "primitive failed: denied" \in PrimitiveFailures
    BY DEF PrimitiveFailures
  <2> QED BY <1>1, <1>2, <1>3, <1>5, <2>1, <2>2, FailRegistrationType
<1>6. CASE FailRegistration(g, d, FailureData, "primitive failed: identity")
  <2>1. FailureData \in Payloads \cup {FailureData}
    OBVIOUS
  <2>2. "primitive failed: identity" \in PrimitiveFailures
    BY DEF PrimitiveFailures
  <2> QED BY <1>1, <1>2, <1>3, <1>6, <2>1, <2>2, FailRegistrationType
<1> QED BY <1>4, <1>5, <1>6 DEF ReadLastIdentity

LEMMA InvokeType ==
  ASSUME TypeOK, NEW g \in Goroutines, NEW d \in Depths, InvokePrimitiveEvaluation(g, d),
         callbackEvaluations[g] = 0
  PROVE  TypeOK'
<1> DEFINE point == IF pc[g][d] = "invoke1" THEN "running1" ELSE "running2"
<1>1. /\ pc[g][d] \in LoopPcs /\ point \in LoopPcs /\ point \in Pcs \ {"idle"}
      /\ point \in ResultPcs => pc[g][d] \in ResultPcs
  BY PointTypes DEF InvokePrimitiveEvaluation, LoopPcs, EvaluatePcs, ResultPcs
<1>2. Goto(g, d, point) /\ UNCHANGED <<ev, depth>>
  BY DEF InvokePrimitiveEvaluation
<1> HIDE DEF point
<1>3. pc' \in PcTable
  BY <1>1, <1>2, GotoMoves DEF TypeOK
<1>4. callbackEvaluations' = [callbackEvaluations EXCEPT ![g] = d] /\ d \in 0..MaxDepth
  BY EngineConstants DEF InvokePrimitiveEvaluation, Depths
<1>5. callbackEvaluations' \in [Goroutines -> 0..MaxDepth]
  BY <1>4 DEF TypeOK, VarsTyped
<1>6. VarsTyped'
  BY <1>3, <1>5 DEF TypeOK, VarsTyped, PcTable, InvokePrimitiveEvaluation, configuration, guard
<1>7. /\ ev[g][d].index \in DOMAIN ev[g][d].snapshot
      /\ pc[g][d] \in ResultPcs => ev[g][d].first \in Results
  BY <1>1 DEF TypeOK, SnapshotOK
<1> QED BY <1>1, <1>2, <1>6, <1>7, PointTypes, StepKeepsFrames

LEMMA PrimitiveReturnsType ==
  ASSUME TypeOK, NEW g \in Goroutines, NEW d \in Depths, NEW result \in Results \cup {NoResult},
         PrimitiveReturns(g, d, result)
  PROVE  TypeOK'
<1>1. pc[g][d] \in LoopPcs
  BY DEF PrimitiveReturns, LoopPcs, EvaluatePcs
<1>2. callbackEvaluations' \in [Goroutines -> 0..MaxDepth]
  <2>1. callbackEvaluations' =
          [callbackEvaluations EXCEPT ![g] = IF callbackEvaluations[g] = d THEN 0 ELSE @]
    BY DEF PrimitiveReturns, LeaveCallback
  <2>2. 0 \in 0..MaxDepth /\ callbackEvaluations \in [Goroutines -> 0..MaxDepth]
    BY EngineConstants DEF TypeOK, VarsTyped
  <2> QED BY <2>1, <2>2
<1>3. UNCHANGED <<configuration, guard, identity, depth, rg, answer>>
  BY DEF PrimitiveReturns
<1>4. CASE FailRegistration(g, d, FailureData, "primitive failed: evaluation")
  <2>1. FailureData \in Payloads \cup {FailureData}
    OBVIOUS
  <2>2. "primitive failed: evaluation" \in PrimitiveFailures
    BY DEF PrimitiveFailures
  <2> QED BY <1>1, <1>2, <1>3, <1>4, <2>1, <2>2, FailRegistrationType
<1>5. CASE ~FailRegistration(g, d, FailureData, "primitive failed: evaluation")
  <2> DEFINE taint == ev[g][d].tainted \/ Drifted(Current(g, d))
             locals == [ev[g][d] EXCEPT !.first = result, !.tainted = taint]
  <2>1. /\ result # NoResult
        /\ Goto(g, d, "invoke2") \/ Goto(g, d, "post_version")
        /\ ev' = [ev EXCEPT ![g][d].first = result, ![g][d].tainted = taint]
    BY <1>5 DEF PrimitiveReturns
  <2>2. PICK point \in {"invoke2", "post_version"} : Goto(g, d, point)
    BY <2>1
  <2>3. point \in LoopPcs /\ point \in Pcs \ {"idle"}
    BY PointTypes DEF LoopPcs, EvaluatePcs
  <2>4. VarsTyped /\ ev[g][d] \in EvaluationLocals /\ result \in Results /\ taint \in BOOLEAN
    BY <2>1 DEF TypeOK, VarsTyped, EvaluationLocals
  <2> HIDE DEF taint
  <2>5. locals \in EvaluationLocals /\ locals.snapshot = ev[g][d].snapshot
                                   /\ locals.index = ev[g][d].index
                                   /\ locals.first = result
    BY <2>4, ResultType
  <2>6. ev' = [ev EXCEPT ![g][d] = locals]
    BY <2>1, <2>4 DEF VarsTyped, EvaluationLocals
  <2> HIDE DEF locals
  <2>7. /\ ev' \in EvTable
        /\ ev'[g][d] = locals
        /\ \A h \in Goroutines, e \in Depths : ~(h = g /\ e = d) => ev'[h][e] = ev[h][e]
    BY <2>4, <2>5, <2>6, EvUpdate
  <2>8. pc' \in PcTable
    BY <2>2, <2>3, <2>4, GotoMoves
  <2>9. VarsTyped'
    BY <1>2, <1>3, <2>7, <2>8 DEF TypeOK, VarsTyped, EvTable, PcTable, configuration, guard
  <2>10. ev'[g][d].index \in DOMAIN ev[g][d].snapshot /\ ev'[g][d].first \in Results
    BY <1>1, <2>4, <2>5, <2>7 DEF TypeOK, SnapshotOK
  <2>11. \A h \in Goroutines, e \in Depths : ev'[h][e].snapshot = ev[h][e].snapshot
    BY <2>5, <2>7
  <2>12. pc[g][d] # "idle" /\ pc[g][d] \in EvaluatePcs \ {"decided"}
    BY <1>1, PointTypes
  <2> QED BY <1>3, <2>2, <2>3, <2>7, <2>9, <2>10, <2>11, <2>12, StepKeepsFrames
<1> QED BY <1>4, <1>5

LEMMA RecheckType ==
  ASSUME TypeOK, NEW g \in Goroutines, NEW d \in Depths, Recheck(g, d)
  PROVE  TypeOK'
<1>1. /\ Goto(g, d, "decided") /\ "decided" \in Pcs \ {"idle"}
      /\ "decided" \notin LoopPcs \cup ResultPcs
      /\ pc[g][d] \in EvaluatePcs \ {"decided"}
  BY PointTypes DEF Recheck
<1>2. pc' \in PcTable
  BY <1>1, GotoMoves DEF TypeOK
<1>3. DOMAIN answer' = Goroutines /\ \A h \in Goroutines : DOMAIN answer'[h] = Depths
  BY DEF TypeOK, VarsTyped, Recheck
<1>4. UNCHANGED <<configuration, guard, callbackEvaluations, identity, depth, ev, rg>>
  BY DEF Recheck
<1>5. VarsTyped'
  BY <1>2, <1>3, <1>4 DEF TypeOK, VarsTyped, PcTable, configuration, guard
<1> QED BY <1>1, <1>4, <1>5, PointTypes, StepKeepsFrames

(* A frame leaves the stack. *)
LEMMA PopType ==
  ASSUME TypeOK, NEW g \in Goroutines, NEW d \in Depths, d = depth[g], Pop(g, d),
         registrations' \in Seq(Registration), configurationEpoch' \in Nat,
         registrationActive' \in BOOLEAN, registrationMutationAttempted' \in BOOLEAN,
         UNCHANGED <<callbackEvaluations, identity>>
  PROVE  TypeOK'
<1>1. d \in Nat \ {0} /\ d \in 1..MaxDepth /\ MaxDepth \in Nat
  BY EngineConstants DEF Depths
<1>2. VarsTyped /\ "idle" \in Pcs
  BY PointTypes DEF TypeOK
<1>3. Goto(g, d, "idle") /\ depth' = [depth EXCEPT ![g] = d - 1]
  BY DEF Pop
<1>4. /\ pc' \in PcTable
      /\ pc'[g][d] = "idle"
      /\ \A h \in Goroutines, e \in Depths : ~(h = g /\ e = d) => pc'[h][e] = pc[h][e]
  BY <1>2, <1>3, GotoMoves
<1>5. depth' \in [Goroutines -> 0..MaxDepth]
  <2>1. d - 1 \in 0..MaxDepth
    BY <1>1
  <2> QED BY <1>2, <1>3, <2>1 DEF VarsTyped
<1>6. ev' \in EvTable
      /\ \A h \in Goroutines, e \in Depths : ~(h = g /\ e = d) => ev'[h][e] = ev[h][e]
  <2>1. ev' = [ev EXCEPT ![g][d] = IdleEvaluation]
    BY DEF Pop
  <2> QED BY <1>2, <2>1, IdleEvaluationType DEF VarsTyped, EvTable
<1>7. rg' \in RgTable
  <2>1. rg' = [rg EXCEPT ![g][d] = IdleRegistration(SomeId, SomePrimitive)]
    BY DEF Pop
  <2> QED BY <1>2, <2>1, SomeRegistrationType DEF VarsTyped, RgTable
<1>8. DOMAIN answer' = Goroutines /\ \A h \in Goroutines : DOMAIN answer'[h] = Depths
  BY <1>2 DEF VarsTyped, Pop
<1>9. VarsTyped'
  BY <1>2, <1>4, <1>5, <1>6, <1>7, <1>8 DEF VarsTyped, EvTable, RgTable, PcTable
<1>10. StackOK'
  <2> SUFFICES ASSUME NEW h \in Goroutines, NEW e \in Depths
               PROVE  (pc'[h][e] = "idle") <=> (depth'[h] < e)
    BY DEF StackOK
  <2>1. e \in Nat
    BY DEF Depths
  <2>2. CASE h # g
    BY <1>2, <1>3, <1>4, <2>2 DEF TypeOK, StackOK, VarsTyped
  <2>3. CASE h = g
    <3>1. depth'[g] = d - 1
      BY <1>2, <1>3 DEF VarsTyped
    <3>2. CASE e = d
      BY <1>1, <1>4, <2>3, <3>1, <3>2
    <3>3. CASE e # d
      <4>1. pc'[g][e] = pc[g][e] /\ ((pc[g][e] = "idle") <=> (d < e))
        BY <1>4, <3>3 DEF TypeOK, StackOK
      <4>2. (d < e) <=> (d - 1 < e)
        BY <1>1, <2>1, <3>3
      <4> QED BY <2>3, <3>1, <4>1, <4>2
    <3> QED BY <3>2, <3>3
  <2> QED BY <2>2, <2>3
<1>11. SnapshotOK'
  BY <1>4, <1>6, PointTypes DEF TypeOK, SnapshotOK
<1> QED BY <1>9, <1>10, <1>11 DEF TypeOK

LEMMA EvaluateReturnsType ==
  ASSUME TypeOK, NEW g \in Goroutines, NEW d \in Depths, d = depth[g], EvaluateReturns(g, d)
  PROVE  TypeOK'
BY PopType DEF EvaluateReturns, TypeOK, VarsTyped, configuration, guard

LEMMA ReleaseType ==
  ASSUME TypeOK, NEW g \in Goroutines, NEW d \in Depths, d = depth[g], Release(g, d)
  PROVE  TypeOK'
BY PopType DEF Release, TypeOK, VarsTyped, configuration

(* A step inside RegisterPrimitive. *)
LEMMA RegisterStepType ==
  ASSUME TypeOK, NEW g \in Goroutines, NEW d \in Depths, pc[g][d] \in RegisterPcs,
         NEW point \in RegisterPcs, Goto(g, d, point), rg' \in RgTable,
         registrations' \in Seq(Registration), configurationEpoch' \in Nat,
         UNCHANGED <<guard, callbackEvaluations, identity, depth, ev, answer>>
  PROVE  TypeOK'
<1>1. point \in Pcs \ {"idle"} /\ point \notin EvaluatePcs \cup LoopPcs \cup ResultPcs
      /\ pc[g][d] # "idle"
  BY PointTypes
<1>2. pc' \in PcTable
  BY <1>1, GotoMoves DEF TypeOK
<1>3. VarsTyped'
  BY <1>2 DEF TypeOK, VarsTyped, RgTable, PcTable, guard
<1> QED BY <1>1, <1>3, StepKeepsFrames

(* The locals of one registration are replaced. *)
LEMMA RgUpdate ==
  ASSUME VarsTyped, NEW g \in Goroutines, NEW d \in Depths, NEW locals \in RegistrationLocals,
         rg' = [rg EXCEPT ![g][d] = locals]
  PROVE  rg' \in RgTable
BY DEF VarsTyped, RgTable

LEMMA ProbeIdentityType ==
  ASSUME TypeOK, NEW g \in Goroutines, NEW d \in Depths, ProbeIdentity(g, d)
  PROVE  TypeOK'
<1> DEFINE point == pc[g][d]
<1>1. /\ VarsTyped /\ rg[g][d] \in RegistrationLocals /\ rg \in RgTable
      /\ rg[g][d].prim \in Primitives
  BY DEF TypeOK, VarsTyped, RgTable, RegistrationLocals
<1>2. UNCHANGED <<configuration, guard, callbackEvaluations, identity, depth, ev, answer>>
      /\ point \in {"ck_name", "ck_version", "ck_config", "ck_config2", "ck_source"}
  BY DEF ProbeIdentity, RegistrationFails
<1>3. point \in RegisterPcs /\ AfterProbe(point) \in RegisterPcs
      /\ "release" \in RegisterPcs /\ "ck_eval1" \in RegisterPcs
  BY <1>2 DEF AfterProbe, RegisterPcs, ProbePcs
<1>4. registrations' \in Seq(Registration) /\ configurationEpoch' \in Nat
  BY <1>1, <1>2 DEF VarsTyped, configuration
<1>5. CASE /\ Goto(g, d, AfterProbe(point))
           /\ rg' = [rg EXCEPT ![g][d].fingerprint =
                       IF point = "ck_config" THEN identity[rg[g][d].prim]["config"] ELSE @]
  <2> DEFINE fingerprint == IF point = "ck_config" THEN identity[rg[g][d].prim]["config"]
                                                   ELSE rg[g][d].fingerprint
             locals == [rg[g][d] EXCEPT !.fingerprint = fingerprint]
  <2>1. fingerprint \in 0..MaxDrift
    <3>1. identity[rg[g][d].prim]["config"] \in 0..MaxDrift
      BY <1>1 DEF VarsTyped, Identity, Fields
    <3> QED BY <1>1, <3>1 DEF RegistrationLocals
  <2>2. rg' = [rg EXCEPT ![g][d] = locals]
    BY <1>1, <1>5 DEF VarsTyped, RegistrationLocals
  <2> HIDE DEF fingerprint
  <2>3. locals \in RegistrationLocals
    BY <1>1, <2>1 DEF RegistrationLocals
  <2>4. rg' \in RgTable
    BY <1>1, <2>2, <2>3, RgUpdate
  <2> QED BY <1>2, <1>3, <1>4, <1>5, <2>4, RegisterStepType
<1>6. CASE Goto(g, d, "release") /\ UNCHANGED rg
  BY <1>1, <1>2, <1>3, <1>4, <1>6, RegisterStepType
<1>7. CASE Goto(g, d, "ck_eval1") /\ rg' = [rg EXCEPT ![g][d].compliant = FALSE]
  <2> DEFINE locals == [rg[g][d] EXCEPT !.compliant = FALSE]
  <2>1. locals \in RegistrationLocals
    BY <1>1 DEF RegistrationLocals
  <2>2. rg' = [rg EXCEPT ![g][d] = locals]
    BY <1>1, <1>7 DEF VarsTyped, RegistrationLocals
  <2>3. rg' \in RgTable
    BY <1>1, <2>1, <2>2, RgUpdate
  <2> QED BY <1>2, <1>3, <1>4, <1>7, <2>3, RegisterStepType
<1> QED BY <1>5, <1>6, <1>7 DEF ProbeIdentity, RegistrationFails

LEMMA ProbeReturnsType ==
  ASSUME TypeOK, NEW g \in Goroutines, NEW d \in Depths, NEW result \in Results \cup {NoResult},
         ProbeReturns(g, d, result)
  PROVE  TypeOK'
<1>1. VarsTyped /\ rg[g][d] \in RegistrationLocals /\ rg \in RgTable
  BY DEF TypeOK, VarsTyped, RgTable
<1>2. UNCHANGED <<configuration, guard, callbackEvaluations, identity, depth, ev, answer>>
      /\ pc[g][d] \in {"ck_eval1", "ck_eval2"}
  BY DEF ProbeReturns, RegistrationFails
<1>3. pc[g][d] \in RegisterPcs /\ "release" \in RegisterPcs
      /\ "ck_eval2" \in RegisterPcs /\ "rd_version" \in RegisterPcs
  BY <1>2 DEF RegisterPcs, ProbePcs, RecordPcs
<1>4. registrations' \in Seq(Registration) /\ configurationEpoch' \in Nat
  BY <1>1, <1>2 DEF VarsTyped, configuration
<1>5. CASE Goto(g, d, "ck_eval2") /\ rg' = [rg EXCEPT ![g][d].first = result]
  <2> DEFINE locals == [rg[g][d] EXCEPT !.first = result]
  <2>1. locals \in RegistrationLocals
    BY <1>1 DEF RegistrationLocals
  <2>2. rg' = [rg EXCEPT ![g][d] = locals]
    BY <1>1, <1>5 DEF VarsTyped, RegistrationLocals
  <2>3. rg' \in RgTable
    BY <1>1, <2>1, <2>2, RgUpdate
  <2> QED BY <1>2, <1>3, <1>4, <1>5, <2>3, RegisterStepType
<1>6. CASE Goto(g, d, "rd_version") /\ UNCHANGED rg
  BY <1>1, <1>2, <1>3, <1>4, <1>6, RegisterStepType
<1>7. CASE Goto(g, d, "release") /\ UNCHANGED rg
  BY <1>1, <1>2, <1>3, <1>4, <1>7, RegisterStepType
<1> QED BY <1>5, <1>6, <1>7 DEF ProbeReturns, RegistrationFails

LEMMA RecordIdentityType ==
  ASSUME TypeOK, NEW g \in Goroutines, NEW d \in Depths, RecordIdentity(g, d)
  PROVE  TypeOK'
<1> DEFINE f == FieldAt(pc[g][d])
<1>1. VarsTyped /\ rg[g][d] \in RegistrationLocals /\ rg \in RgTable
  BY DEF TypeOK, VarsTyped, RgTable
<1>2. UNCHANGED <<configuration, guard, callbackEvaluations, identity, depth, ev, answer>>
      /\ pc[g][d] \in RecordPcs
  BY DEF RecordIdentity, RegistrationFails
<1>3. /\ pc[g][d] \in RegisterPcs /\ "release" \in RegisterPcs
      /\ AfterRecord(pc[g][d]) \in RegisterPcs /\ f \in Fields
  BY <1>2 DEF AfterRecord, RegisterPcs, ProbePcs, RecordPcs, FieldAt, Fields
<1>4. registrations' \in Seq(Registration) /\ configurationEpoch' \in Nat
  BY <1>1, <1>2 DEF VarsTyped, configuration
<1> HIDE DEF f
<1>5. CASE /\ rg' = [rg EXCEPT ![g][d].ident[f] = identity[rg[g][d].prim][f]]
           /\ Goto(g, d, AfterRecord(pc[g][d]))
  <2> DEFINE ident == [rg[g][d].ident EXCEPT ![f] = identity[rg[g][d].prim][f]]
             locals == [rg[g][d] EXCEPT !.ident = ident]
  <2>1. rg[g][d].ident \in Identity /\ identity[rg[g][d].prim] \in Identity
    BY <1>1 DEF VarsTyped, RegistrationLocals
  <2>2. ident \in Identity
    BY <1>3, <2>1 DEF Identity
  <2>3. rg' = [rg EXCEPT ![g][d] = locals]
    BY <1>1, <1>5 DEF VarsTyped, RegistrationLocals
  <2> HIDE DEF ident
  <2>4. locals \in RegistrationLocals
    BY <1>1, <2>2 DEF RegistrationLocals
  <2>5. rg' \in RgTable
    BY <1>1, <2>3, <2>4, RgUpdate
  <2> QED BY <1>2, <1>3, <1>4, <1>5, <2>5, RegisterStepType
<1>6. CASE Goto(g, d, "release") /\ UNCHANGED rg
  BY <1>1, <1>2, <1>3, <1>4, <1>6, RegisterStepType
<1> QED BY <1>5, <1>6 DEF RecordIdentity, RegistrationFails, f

LEMMA PublishType ==
  ASSUME TypeOK, NEW g \in Goroutines, NEW d \in Depths, Publish(g, d)
  PROVE  TypeOK'
<1> DEFINE published == [id |-> rg[g][d].id, prim |-> rg[g][d].prim, ident |-> rg[g][d].ident]
<1>1. VarsTyped /\ rg \in RgTable /\ published \in Registration
  BY DEF TypeOK, VarsTyped, RgTable, RegistrationLocals, Registration
<1>2. /\ UNCHANGED <<guard, callbackEvaluations, identity, depth, ev, rg, answer>>
      /\ pc[g][d] = "publish" /\ Goto(g, d, "release")
      /\ \/ UNCHANGED configuration
         \/ /\ registrations' = Append(registrations, published)
            /\ configurationEpoch' = configurationEpoch + 1
  BY DEF Publish
<1>3. "publish" \in RegisterPcs /\ "release" \in RegisterPcs
  BY DEF RegisterPcs
<1> HIDE DEF published
<1>4. registrations' \in Seq(Registration)
  <2>1. registrations \in Seq(Registration)
    BY <1>1 DEF VarsTyped
  <2>2. Append(registrations, published) \in Seq(Registration)
    BY <1>1, <2>1, AppendType
  <2> QED BY <1>2, <2>1, <2>2 DEF configuration
<1>5. configurationEpoch' \in Nat
  BY <1>1, <1>2 DEF VarsTyped, configuration
<1> QED BY <1>1, <1>2, <1>3, <1>4, <1>5, RegisterStepType

LEMMA RegisterBeginsType ==
  ASSUME TypeOK, NEW g \in Goroutines, NEW id \in Ids, NEW prim \in Primitives,
         RegisterBegins(g, id, prim)
  PROVE  TypeOK'
<1>1. Push(g, "ck_name") /\ "ck_name" \in Pcs \ {"idle"}
      /\ "ck_name" \notin EvaluatePcs \cup LoopPcs \cup ResultPcs
  BY PointTypes DEF RegisterBegins, RegisterPcs, ProbePcs
<1>2. pc' \in PcTable /\ depth' \in [Goroutines -> 0..MaxDepth] /\ depth[g] + 1 \in Depths
  BY <1>1, PushMoves DEF TypeOK
<1>3. rg' \in RgTable
  <2>1. IdleRegistration(id, prim) \in RegistrationLocals /\ VarsTyped
    BY IdleRegistrationType DEF TypeOK
  <2>2. rg' = [rg EXCEPT ![g][depth[g] + 1] = IdleRegistration(id, prim)]
    BY DEF RegisterBegins, MayRegister
  <2> QED BY <1>2, <2>1, <2>2, RgUpdate
<1>4. UNCHANGED <<configuration, callbackEvaluations, identity, ev, answer>>
      /\ registrationActive' = TRUE /\ registrationMutationAttempted' = FALSE
  BY DEF RegisterBegins, MayRegister
<1>5. VarsTyped'
  BY <1>2, <1>3, <1>4 DEF TypeOK, VarsTyped, RgTable, PcTable, configuration
<1> QED BY <1>1, <1>4, <1>5, CallKeepsFrames

(* Steps that move no program counter. *)
LEMMA QuietType ==
  ASSUME TypeOK, UNCHANGED <<callbackEvaluations, depth, pc, ev, rg, answer>>,
         registrations' \in Seq(Registration), configurationEpoch' \in Nat,
         registrationActive' \in BOOLEAN, registrationMutationAttempted' \in BOOLEAN,
         identity' \in [Primitives -> Identity]
  PROVE  TypeOK'
<1>1. VarsTyped'
  BY DEF TypeOK, VarsTyped
<1>2. StackOK' /\ SnapshotOK'
  BY DEF TypeOK, StackOK, SnapshotOK
<1> QED BY <1>1, <1>2 DEF TypeOK

LEMMA MutationRefusedType ==
  ASSUME TypeOK, NEW g \in Goroutines, MutationRefused(g)
  PROVE  TypeOK'
BY QuietType DEF MutationRefused, TypeOK, VarsTyped, configuration

LEMMA ClearType ==
  ASSUME TypeOK, NEW g \in Goroutines, Clear(g)
  PROVE  TypeOK'
<1>1. VarsTyped /\ <<>> \in Seq(Registration)
  BY DEF TypeOK
<1> QED BY <1>1, QuietType DEF Clear, VarsTyped, guard

LEMMA DriftType ==
  ASSUME TypeOK, NEW prim \in Primitives, NEW f \in Fields, Drift(prim, f)
  PROVE  TypeOK'
<1>1. VarsTyped
  BY DEF TypeOK
<1>2. identity' \in [Primitives -> Identity]
  <2>1. identity \in [Primitives -> Identity]
    BY <1>1 DEF VarsTyped
  <2>2. identity[prim][f] + 1 \in 0..MaxDrift
    <3>1. identity[prim][f] \in 0..MaxDrift /\ identity[prim][f] < MaxDrift /\ MaxDrift \in Nat
      BY <2>1, EngineConstants DEF Drift, Identity
    <3> QED BY <3>1
  <2>3. identity' = [identity EXCEPT ![prim][f] = identity[prim][f] + 1]
    BY <2>1 DEF Drift
  <2> QED BY <2>1, <2>2, <2>3 DEF Identity
<1> QED BY <1>1, <1>2, QuietType DEF Drift, VarsTyped, configuration, guard
-----------------------------------------------------------------------------
(* Control: the table of running callbacks, the critical section of a       *)
(* registration, and the denials of nested evaluations.  The four are       *)
(* inductive together: the deferred delete of a callback finds its own      *)
(* entry because nothing evaluates above it.                                *)
ControlInv ==
  /\ CallbackTableExact
  /\ RegistrationExclusive
  /\ RecursionDenied
  /\ ReentryDeniesParent

LEMMA ControlPoints ==
  /\ Running \subseteq EvaluatePcs \ {"decided"}
  /\ "idle" \notin Running \cup EvaluatePcs \cup RegisterPcs
  /\ Running \cap RegisterPcs = {}
  /\ EvaluatePcs \cap RegisterPcs = {}
BY DEF Running, EvaluatePcs, RegisterPcs, ProbePcs, RecordPcs

(* The top frame moves inside the function it is in. *)
LEMMA StepKeepsControl ==
  ASSUME TypeOK, ControlInv, NEW g \in Goroutines, NEW d \in Depths, d = depth[g],
         NEW point \in Pcs \ {"idle"}, Goto(g, d, point),
         UNCHANGED <<depth, registrationActive>>,
         pc[g][d] # "decided",
         point \in EvaluatePcs <=> pc[g][d] \in EvaluatePcs,
         point \in RegisterPcs <=> pc[g][d] \in RegisterPcs,
         \/ /\ point \in Running /\ callbackEvaluations[g] = 0
            /\ callbackEvaluations' = [callbackEvaluations EXCEPT ![g] = d]
         \/ /\ pc[g][d] \in Running /\ point \notin Running
            /\ callbackEvaluations' = [callbackEvaluations EXCEPT ![g] = 0]
         \/ pc[g][d] \notin Running /\ point \notin Running /\ UNCHANGED callbackEvaluations,
         \A h \in Goroutines, e \in Depths :
           ~(h = g /\ e = d) => /\ answer'[h][e] = answer[h][e]
                               /\ ev'[h][e].recursive = ev[h][e].recursive,
         point = "decided" => (ev'[g][d].recursive => ~answer'[g][d].permitted)
  PROVE  ControlInv'
<1>1. /\ pc'[g][d] = point
      /\ \A h \in Goroutines, e \in Depths : ~(h = g /\ e = d) => pc'[h][e] = pc[h][e]
  BY GotoMoves DEF TypeOK
<1>2. callbackEvaluations \in [Goroutines -> 0..MaxDepth] /\ 0 \notin Depths
  BY DEF TypeOK, VarsTyped, Depths
<1>3. CallbackTableExact'
  <2> SUFFICES ASSUME NEW h \in Goroutines, NEW e \in Depths
               PROVE  (callbackEvaluations'[h] = e) <=> (pc'[h][e] \in Running)
    BY DEF CallbackTableExact
  <2>1. \A f \in Depths : (callbackEvaluations[h] = f) <=> (pc[h][f] \in Running)
    BY DEF ControlInv, CallbackTableExact
  <2>2. CASE h # g
    BY <1>1, <1>2, <2>1, <2>2
  <2>3. CASE h = g
    BY <1>1, <1>2, <2>1, <2>3
  <2> QED BY <2>2, <2>3
<1>4. RegistrationExclusive'
  <2>1. \A h \in Goroutines, e \in Depths : pc'[h][e] \in RegisterPcs <=> pc[h][e] \in RegisterPcs
    BY <1>1
  <2>2. RegistrationExclusive
    BY DEF ControlInv
  <2> QED BY <2>1, <2>2 DEF RegistrationExclusive
<1>5. RecursionDenied'
  <2> SUFFICES ASSUME NEW h \in Goroutines, NEW b \in Depths, NEW e \in Depths, b < e,
                      pc'[h][b] \in Running, pc'[h][e] \in EvaluatePcs
               PROVE  pc'[h][e] = "decided" /\ ~answer'[h][e].permitted
    BY DEF RecursionDenied
  <2>1. pc[h][e] \in EvaluatePcs
    BY <1>1
  <2>2. CASE h = g /\ b = d
    <3>1. pc[h][e] = "idle"
      BY <2>2 DEF TypeOK, StackOK
    <3> QED BY <2>1, <3>1, ControlPoints
  <2>3. CASE ~(h = g /\ b = d)
    <3>1. pc[h][b] \in Running
      BY <1>1, <2>3
    <3>2. pc[h][e] = "decided" /\ ~answer[h][e].permitted
      BY <2>1, <3>1 DEF ControlInv, RecursionDenied
    <3> QED BY <1>1, <3>2
  <2> QED BY <2>2, <2>3
<1>6. ReentryDeniesParent'
  BY <1>1 DEF ControlInv, ReentryDeniesParent
<1> QED BY <1>3, <1>4, <1>5, <1>6 DEF ControlInv

(* A call: a new frame on top.  Only evaluations whose callback is running  *)
(* may be marked as recursive by it.                                        *)
LEMMA CallKeepsControl ==
  ASSUME TypeOK, ControlInv, NEW g \in Goroutines,
         NEW point \in {"decided", "pre_version", "ck_name"}, Push(g, point),
         UNCHANGED callbackEvaluations,
         point = "decided" => ~answer'[g][depth[g] + 1].permitted,
         point = "pre_version" => callbackEvaluations[g] = 0,
         IF point = "ck_name" THEN ~registrationActive /\ registrationActive' = TRUE
                              ELSE UNCHANGED registrationActive,
         \A h \in Goroutines, e \in Depths :
           ~(h = g /\ e = depth[g] + 1) => answer'[h][e] = answer[h][e],
         \A h \in Goroutines, e \in Depths :
           pc[h][e] \in EvaluatePcs \ Running => ev'[h][e].recursive = ev[h][e].recursive
  PROVE  ControlInv'
<1> DEFINE n == depth[g] + 1
<1>0. /\ point \in Pcs \ {"idle"} /\ point \notin Running
      /\ point \in EvaluatePcs <=> point # "ck_name"
      /\ point \in RegisterPcs <=> point = "ck_name"
  BY DEF Pcs, EvaluatePcs, RegisterPcs, ProbePcs, RecordPcs, Running
<1>1. /\ n \in Depths
      /\ pc'[g][n] = point
      /\ \A h \in Goroutines, e \in Depths : ~(h = g /\ e = n) => pc'[h][e] = pc[h][e]
  BY <1>0, PushMoves DEF TypeOK
<1>2. \A e \in Depths : n <= e => pc[g][e] = "idle"
  <2> SUFFICES ASSUME NEW e \in Depths, n <= e PROVE pc[g][e] = "idle"
    OBVIOUS
  <2>1. depth[g] \in Nat /\ e \in Nat
    BY EngineConstants DEF TypeOK, VarsTyped, Depths
  <2>2. depth[g] < e
    BY <2>1
  <2> QED BY <2>2 DEF TypeOK, StackOK
<1>3. pc[g][n] = "idle"
  <2>1. n <= n
    BY <1>1 DEF Depths
  <2> QED BY <1>1, <1>2, <2>1
<1> HIDE DEF n
<1>4. CallbackTableExact'
  BY <1>0, <1>1, <1>3, ControlPoints DEF ControlInv, CallbackTableExact
<1>5. RegistrationExclusive'
  <2>1. \A h \in Goroutines, e \in Depths :
          ~(h = g /\ e = n) => (pc'[h][e] \in RegisterPcs <=> pc[h][e] \in RegisterPcs)
    BY <1>1
  <2>2. pc[g][n] \notin RegisterPcs
    BY <1>3, ControlPoints
  <2>3. RegistrationExclusive
    BY DEF ControlInv
  <2>4. CASE point = "ck_name"
    <3>1. pc'[g][n] \in RegisterPcs /\ registrationActive' = TRUE
      BY <1>0, <1>1, <2>4
    <3>2. \A h \in Goroutines, e \in Depths : pc[h][e] \notin RegisterPcs
      BY <2>3, <2>4 DEF RegistrationExclusive
    <3> QED BY <1>1, <2>1, <3>1, <3>2 DEF RegistrationExclusive
  <2>5. CASE point # "ck_name"
    <3>1. pc'[g][n] \notin RegisterPcs /\ UNCHANGED registrationActive
      BY <1>0, <1>1, <2>5
    <3>2. \A h \in Goroutines, e \in Depths :
            pc'[h][e] \in RegisterPcs <=> pc[h][e] \in RegisterPcs
      BY <1>1, <2>1, <2>2, <3>1
    <3> QED BY <2>3, <3>1, <3>2 DEF RegistrationExclusive
  <2> QED BY <2>4, <2>5
<1>6. RecursionDenied'
  <2> SUFFICES ASSUME NEW h \in Goroutines, NEW b \in Depths, NEW e \in Depths, b < e,
                      pc'[h][b] \in Running, pc'[h][e] \in EvaluatePcs
               PROVE  pc'[h][e] = "decided" /\ ~answer'[h][e].permitted
    BY DEF RecursionDenied
  <2>1. pc[h][b] \in Running
    BY <1>0, <1>1
  <2>2. CASE h = g /\ e = n
    <3>1. callbackEvaluations[g] = b /\ b # 0
      BY <2>1, <2>2 DEF ControlInv, CallbackTableExact, Depths
    <3>2. point = "decided"
      BY <1>0, <1>1, <2>2, <3>1
    <3> QED BY <1>1, <2>2, <3>2 DEF n
  <2>3. CASE ~(h = g /\ e = n)
    <3>1. pc[h][e] = "decided" /\ ~answer[h][e].permitted
      BY <1>1, <2>1, <2>3 DEF ControlInv, RecursionDenied
    <3> QED BY <1>1, <2>3, <3>1 DEF n
  <2> QED BY <2>2, <2>3
<1>7. ReentryDeniesParent'
  <2> SUFFICES ASSUME NEW h \in Goroutines, NEW e \in Depths,
                      pc'[h][e] = "decided", ev'[h][e].recursive
               PROVE  ~answer'[h][e].permitted
    BY DEF ReentryDeniesParent
  <2>1. CASE h = g /\ e = n
    BY <1>1, <2>1 DEF n
  <2>2. CASE ~(h = g /\ e = n)
    <3>1. pc[h][e] = "decided" /\ pc[h][e] \in EvaluatePcs \ Running
      BY <1>1, <2>2 DEF EvaluatePcs, Running
    <3>2. ev[h][e].recursive
      BY <3>1
    <3> QED BY <2>2, <3>1, <3>2 DEF ControlInv, ReentryDeniesParent, n
  <2> QED BY <2>1, <2>2
<1> QED BY <1>4, <1>5, <1>6, <1>7 DEF ControlInv

(* A return. *)
LEMMA ReturnKeepsControl ==
  ASSUME TypeOK, ControlInv, NEW g \in Goroutines, NEW d \in Depths, d = depth[g],
         Pop(g, d), UNCHANGED callbackEvaluations,
         \/ pc[g][d] = "decided" /\ UNCHANGED registrationActive
         \/ pc[g][d] = "release" /\ registrationActive' = FALSE
  PROVE  ControlInv'
<1>1. /\ pc'[g][d] = "idle"
      /\ \A h \in Goroutines, e \in Depths : ~(h = g /\ e = d) => pc'[h][e] = pc[h][e]
  BY GotoMoves, PointTypes DEF TypeOK, Pop
<1>2. \A h \in Goroutines, e \in Depths :
        ~(h = g /\ e = d) => answer'[h][e] = answer[h][e] /\ ev'[h][e] = ev[h][e]
  BY DEF TypeOK, VarsTyped, Pop
<1>3. pc[g][d] \notin Running /\ "release" \in RegisterPcs /\ "decided" \notin RegisterPcs
  BY DEF Running, RegisterPcs, ProbePcs, RecordPcs
<1>4. CallbackTableExact'
  BY <1>1, <1>3, ControlPoints DEF ControlInv, CallbackTableExact
<1>5. RegistrationExclusive'
  <2>1. \A h \in Goroutines, e \in Depths :
          pc'[h][e] \in RegisterPcs <=> (pc[h][e] \in RegisterPcs /\ ~(h = g /\ e = d))
    BY <1>1, ControlPoints
  <2>2. RegistrationExclusive
    BY DEF ControlInv
  <2>3. CASE pc[g][d] = "release" /\ registrationActive' = FALSE
    <3>1. \A h \in Goroutines, e \in Depths : pc'[h][e] \notin RegisterPcs
      BY <1>3, <2>1, <2>2, <2>3 DEF RegistrationExclusive
    <3> QED BY <2>3, <3>1 DEF RegistrationExclusive
  <2>4. CASE pc[g][d] = "decided" /\ UNCHANGED registrationActive
    <3>1. \A h \in Goroutines, e \in Depths :
            pc'[h][e] \in RegisterPcs <=> pc[h][e] \in RegisterPcs
      BY <1>3, <2>1, <2>4
    <3> QED BY <2>2, <2>4, <3>1 DEF RegistrationExclusive
  <2> QED BY <2>3, <2>4
<1>6. RecursionDenied'
  BY <1>1, <1>2, ControlPoints DEF ControlInv, RecursionDenied
<1>7. ReentryDeniesParent'
  BY <1>1, <1>2 DEF ControlInv, ReentryDeniesParent
<1> QED BY <1>4, <1>5, <1>6, <1>7 DEF ControlInv

(* Steps that move no program counter. *)
LEMMA QuietControl ==
  ASSUME ControlInv, UNCHANGED <<registrationActive, callbackEvaluations, pc, ev, answer>>
  PROVE  ControlInv'
BY DEF ControlInv, CallbackTableExact, RegistrationExclusive, RecursionDenied, ReentryDeniesParent

(* No evaluation comes as far as a primitive under a running callback of    *)
(* its goroutine: the branch of invokePrimitiveEvaluation that marks the    *)
(* other evaluation is never taken.                                         *)
LEMMA InvokeFindsNoCallback ==
  ASSUME TypeOK, ControlInv, NEW g \in Goroutines, NEW d \in Depths, d = depth[g],
         pc[g][d] \in {"invoke1", "invoke2"}
  PROVE  callbackEvaluations[g] = 0
<1> SUFFICES ASSUME callbackEvaluations[g] # 0 PROVE FALSE
  OBVIOUS
<1> DEFINE b == callbackEvaluations[g]
<1>1. b \in Depths
  <2>1. b \in 0..MaxDepth /\ b # 0
    BY DEF TypeOK, VarsTyped
  <2> QED BY <2>1, EngineConstants DEF Depths
<1>2. pc[g][b] \in Running
  BY <1>1 DEF ControlInv, CallbackTableExact
<1>3. b # d /\ pc[g][b] # "idle"
  BY <1>2 DEF Running
<1>4. b < d
  <2>1. ~(d < b)
    BY <1>1, <1>3 DEF TypeOK, StackOK
  <2> QED BY <1>1, <1>3, <2>1 DEF Depths
<1>5. pc[g][d] \in EvaluatePcs /\ pc[g][d] # "decided"
  BY DEF EvaluatePcs
<1> QED BY <1>1, <1>2, <1>4, <1>5 DEF ControlInv, RecursionDenied

LEMMA RefuseControl ==
  ASSUME TypeOK, ControlInv, NEW g \in Goroutines, NEW ctx, NEW time, NEW reason,
         Refuse(g, ctx, time, reason), UNCHANGED <<guard, callbackEvaluations>>,
         \A h \in Goroutines, e \in Depths :
           pc[h][e] \in EvaluatePcs \ Running => ev'[h][e].recursive = ev[h][e].recursive
  PROVE  ControlInv'
<1>1. Push(g, "decided") /\ depth[g] + 1 \in Depths
  BY PushMoves, PointTypes DEF Refuse, TypeOK
<1>2. answer' = [answer EXCEPT ![g][depth[g] + 1] = PreconditionDenial(ctx, time, reason)]
  BY DEF Refuse
<1>3. ~PreconditionDenial(ctx, time, reason).permitted
  BY DEF PreconditionDenial
<1>4. /\ ~answer'[g][depth[g] + 1].permitted
      /\ \A h \in Goroutines, e \in Depths :
           ~(h = g /\ e = depth[g] + 1) => answer'[h][e] = answer[h][e]
  BY <1>1, <1>2, <1>3 DEF TypeOK, VarsTyped
<1> QED BY <1>1, <1>4, CallKeepsControl DEF guard

LEMMA EvaluateRefusesInputControl ==
  ASSUME TypeOK, ControlInv, NEW g \in Goroutines, NEW ctx, NEW time,
         EvaluateRefusesInput(g, ctx, time)
  PROVE  ControlInv'
<1>1. PICK t, r : Refuse(g, ctx, t, r)
  BY DEF EvaluateRefusesInput
<1>2. UNCHANGED <<configuration, guard, callbackEvaluations, identity, ev, rg>>
  BY DEF EvaluateRefusesInput
<1> QED BY <1>1, <1>2, RefuseControl

LEMMA EvaluateRefusesEmptyControl ==
  ASSUME TypeOK, ControlInv, NEW g \in Goroutines, NEW ctx, EvaluateRefusesEmpty(g, ctx)
  PROVE  ControlInv'
BY RefuseControl DEF EvaluateRefusesEmpty

LEMMA EvaluateRefusesRecursionControl ==
  ASSUME TypeOK, ControlInv, NEW g \in Goroutines, NEW ctx, EvaluateRefusesRecursion(g, ctx)
  PROVE  ControlInv'
<1> DEFINE b == callbackEvaluations[g]
<1>1. b \in Depths
  <2>1. b \in 0..MaxDepth /\ b # 0
    BY DEF TypeOK, VarsTyped, EvaluateRefusesRecursion
  <2> QED BY <2>1, EngineConstants DEF Depths
<1>2. pc[g][b] \in Running
  BY <1>1 DEF ControlInv, CallbackTableExact
<1>3. ev' = [ev EXCEPT ![g][b].recursive = TRUE]
  BY DEF EvaluateRefusesRecursion
<1>4. \A h \in Goroutines, e \in Depths : ~(h = g /\ e = b) => ev'[h][e] = ev[h][e]
  BY <1>1, <1>3 DEF TypeOK, VarsTyped
<1>5. \A h \in Goroutines, e \in Depths :
        pc[h][e] \in EvaluatePcs \ Running => ev'[h][e].recursive = ev[h][e].recursive
  BY <1>2, <1>4
<1>6. /\ Refuse(g, ctx, ContextTime[ctx], "recursive governance evaluation is not permitted")
      /\ UNCHANGED <<guard, callbackEvaluations>>
  BY DEF EvaluateRefusesRecursion
<1> QED BY <1>5, <1>6, RefuseControl

LEMMA EvaluateBeginsControl ==
  ASSUME TypeOK, ControlInv, NEW g \in Goroutines, NEW ctx, EvaluateBegins(g, ctx)
  PROVE  ControlInv'
<1>1. Push(g, "pre_version") /\ callbackEvaluations[g] = 0
      /\ UNCHANGED <<registrationActive, callbackEvaluations, answer>>
  BY DEF EvaluateBegins, Evaluates, guard
<1>2. depth[g] + 1 \in Depths /\ pc[g][depth[g] + 1] = "idle"
  <2>1. depth[g] \in Nat /\ depth[g] + 1 \in Depths
    BY <1>1, EngineConstants DEF TypeOK, VarsTyped, Push, Depths
  <2>2. depth[g] < depth[g] + 1
    BY <2>1
  <2> QED BY <2>1, <2>2 DEF TypeOK, StackOK
<1>3. \A h \in Goroutines, e \in Depths :
        ~(h = g /\ e = depth[g] + 1) => ev'[h][e] = ev[h][e]
  BY <1>2 DEF TypeOK, VarsTyped, EvaluateBegins, Evaluates
<1>4. \A h \in Goroutines, e \in Depths :
        pc[h][e] \in EvaluatePcs \ Running => ev'[h][e].recursive = ev[h][e].recursive
  BY <1>2, <1>3, ControlPoints
<1> QED BY <1>1, <1>4, CallKeepsControl

LEMMA RegisterBeginsControl ==
  ASSUME TypeOK, ControlInv, NEW g \in Goroutines, NEW id, NEW prim, RegisterBegins(g, id, prim)
  PROVE  ControlInv'
BY CallKeepsControl DEF RegisterBegins, MayRegister

LEMMA FailRegistrationControl ==
  ASSUME TypeOK, ControlInv, NEW g \in Goroutines, NEW d \in Depths, d = depth[g],
         pc[g][d] \in LoopPcs, NEW data, NEW reason, FailRegistration(g, d, data, reason),
         UNCHANGED <<depth, registrationActive, answer>>,
         \/ pc[g][d] \in Running /\ callbackEvaluations' = [callbackEvaluations EXCEPT ![g] = 0]
         \/ pc[g][d] \notin Running /\ UNCHANGED callbackEvaluations
  PROVE  ControlInv'
<1>1. Goto(g, d, "recheck") /\ "recheck" \in Pcs \ {"idle"} /\ "recheck" \in EvaluatePcs
      /\ "recheck" \notin Running \cup RegisterPcs
  BY PointTypes DEF FailRegistration, Running
<1>2. /\ pc[g][d] \in EvaluatePcs /\ pc[g][d] \notin RegisterPcs /\ pc[g][d] # "decided"
  BY PointTypes
<1>3. \A h \in Goroutines, e \in Depths : ~(h = g /\ e = d) => ev'[h][e] = ev[h][e]
  BY DEF TypeOK, VarsTyped, FailRegistration
<1> QED BY <1>1, <1>2, <1>3, StepKeepsControl

LEMMA ReadIdentityControl ==
  ASSUME TypeOK, ControlInv, NEW g \in Goroutines, NEW d \in Depths, d = depth[g],
         ReadIdentity(g, d)
  PROVE  ControlInv'
<1>1. pc[g][d] \in LoopPcs \ Running /\ UNCHANGED <<depth, registrationActive,
                                                   callbackEvaluations, answer>>
  BY DEF ReadIdentity, LoopPcs, EvaluatePcs, Running, guard
<1>2. CASE Agrees(g, d) /\ Goto(g, d, AfterRead(pc[g][d])) /\ UNCHANGED ev
  <2>1. AfterRead(pc[g][d]) \in LoopPcs \ Running
    BY DEF ReadIdentity, AfterRead, LoopPcs, EvaluatePcs, Running
  <2>2. /\ AfterRead(pc[g][d]) \in Pcs \ {"idle"} /\ AfterRead(pc[g][d]) \in EvaluatePcs
        /\ AfterRead(pc[g][d]) # "decided" /\ AfterRead(pc[g][d]) \notin RegisterPcs
        /\ pc[g][d] # "decided" /\ pc[g][d] \in EvaluatePcs /\ pc[g][d] \notin RegisterPcs
    BY <1>1, <2>1, PointTypes
  <2> QED BY <1>1, <1>2, <2>1, <2>2, StepKeepsControl
<1>3. CASE FailRegistration(g, d, FailureData, "primitive failed: identity")
  BY <1>1, <1>3, FailRegistrationControl
<1> QED BY <1>2, <1>3 DEF ReadIdentity

LEMMA ReadLastIdentityControl ==
  ASSUME TypeOK, ControlInv, NEW g \in Goroutines, NEW d \in Depths, d = depth[g],
         ReadLastIdentity(g, d)
  PROVE  ControlInv'
<1>1. pc[g][d] \in LoopPcs \ Running /\ UNCHANGED <<depth, registrationActive,
                                                   callbackEvaluations, answer>>
  BY DEF ReadLastIdentity, LoopPcs, EvaluatePcs, Running, guard
<1>2. CASE PassRegistration(g, d)
  <2>1. PICK point \in {"recheck", "pre_version"} : Goto(g, d, point)
    BY <1>2 DEF PassRegistration
  <2>2. /\ point \in Pcs \ {"idle"} /\ point \in EvaluatePcs /\ point \notin Running
        /\ point # "decided" /\ point \notin RegisterPcs
    BY PointTypes DEF EvaluatePcs, Running
  <2>3. pc[g][d] # "decided" /\ pc[g][d] \in EvaluatePcs /\ pc[g][d] \notin RegisterPcs
    BY <1>1, PointTypes
  <2>4. \A h \in Goroutines, e \in Depths : ~(h = g /\ e = d) => ev'[h][e] = ev[h][e]
    BY <1>2 DEF TypeOK, VarsTyped, PassRegistration
  <2> QED BY <1>1, <2>1, <2>2, <2>3, <2>4, StepKeepsControl
<1>3. CASE \E data, reason : FailRegistration(g, d, data, reason)
  BY <1>1, <1>3, FailRegistrationControl
<1> QED BY <1>2, <1>3 DEF ReadLastIdentity

LEMMA InvokeControl ==
  ASSUME TypeOK, ControlInv, NEW g \in Goroutines, NEW d \in Depths, d = depth[g],
         InvokePrimitiveEvaluation(g, d)
  PROVE  ControlInv'
<1>1. pc[g][d] \in {"invoke1", "invoke2"}
  BY DEF InvokePrimitiveEvaluation
<1>2. callbackEvaluations[g] = 0
  BY <1>1, InvokeFindsNoCallback
<1>3. PICK point \in Running : Goto(g, d, point)
  BY <1>2 DEF InvokePrimitiveEvaluation, Running
<1>4. callbackEvaluations' = [callbackEvaluations EXCEPT ![g] = d]
      /\ UNCHANGED <<depth, registrationActive, ev, answer>>
  BY <1>2 DEF InvokePrimitiveEvaluation, guard
<1>5. /\ pc[g][d] \in EvaluatePcs /\ pc[g][d] # "decided" /\ pc[g][d] \notin RegisterPcs
  BY <1>1, PointTypes DEF EvaluatePcs
<1>6. /\ point \in EvaluatePcs /\ point # "decided" /\ point \notin RegisterPcs
      /\ point \in Pcs \ {"idle"}
  BY PointTypes, ControlPoints
<1> QED BY <1>2, <1>3, <1>4, <1>5, <1>6, StepKeepsControl

LEMMA PrimitiveReturnsControl ==
  ASSUME TypeOK, ControlInv, NEW g \in Goroutines, NEW d \in Depths, d = depth[g], NEW result,
         PrimitiveReturns(g, d, result)
  PROVE  ControlInv'
<1>1. pc[g][d] \in Running /\ UNCHANGED <<depth, registrationActive, answer>>
  BY DEF PrimitiveReturns, Running, guard
<1>2. callbackEvaluations[g] = d
  BY <1>1 DEF ControlInv, CallbackTableExact
<1>3. callbackEvaluations' = [callbackEvaluations EXCEPT ![g] = 0]
  BY <1>2 DEF PrimitiveReturns, LeaveCallback, TypeOK, VarsTyped
<1>4. pc[g][d] \in LoopPcs /\ pc[g][d] \in EvaluatePcs /\ pc[g][d] # "decided"
      /\ pc[g][d] \notin RegisterPcs
  BY <1>1, ControlPoints DEF LoopPcs, Running
<1>5. CASE FailRegistration(g, d, FailureData, "primitive failed: evaluation")
  BY <1>1, <1>3, <1>4, <1>5, FailRegistrationControl
<1>6. CASE ~FailRegistration(g, d, FailureData, "primitive failed: evaluation")
  <2>1. PICK point \in {"invoke2", "post_version"} : Goto(g, d, point)
    BY <1>6 DEF PrimitiveReturns
  <2>2. /\ point \in Pcs \ {"idle"} /\ point \in EvaluatePcs /\ point \notin Running
        /\ point # "decided" /\ point \notin RegisterPcs
    BY PointTypes DEF EvaluatePcs, Running
  <2>3. \A h \in Goroutines, e \in Depths : ~(h = g /\ e = d) => ev'[h][e] = ev[h][e]
    <3> DEFINE taint == ev[g][d].tainted \/ Drifted(Current(g, d))
    <3>1. ev' = [ev EXCEPT ![g][d].first = result, ![g][d].tainted = taint]
      BY <1>6 DEF PrimitiveReturns
    <3> HIDE DEF taint
    <3> QED BY <3>1 DEF TypeOK, VarsTyped
  <2> QED BY <1>1, <1>3, <1>4, <2>1, <2>2, <2>3, StepKeepsControl
<1> QED BY <1>5, <1>6

LEMMA RecheckControl ==
  ASSUME TypeOK, ControlInv, NEW g \in Goroutines, NEW d \in Depths, d = depth[g],
         Recheck(g, d)
  PROVE  ControlInv'
<1>1. /\ pc[g][d] = "recheck" /\ Goto(g, d, "decided")
      /\ UNCHANGED <<depth, registrationActive, callbackEvaluations, ev>>
  BY DEF Recheck, guard
<1>2. /\ "recheck" \in EvaluatePcs /\ "decided" \in EvaluatePcs /\ "decided" \in Pcs \ {"idle"}
      /\ "recheck" \notin Running \cup RegisterPcs /\ "decided" \notin Running \cup RegisterPcs
  BY PointTypes DEF Running
<1>3. \A h \in Goroutines, e \in Depths : ~(h = g /\ e = d) => answer'[h][e] = answer[h][e]
  BY DEF TypeOK, VarsTyped, Recheck
<1>4. ev[g][d].recursive => ~answer'[g][d].permitted
  <2> SUFFICES ASSUME ev[g][d].recursive PROVE ~answer'[g][d].permitted
    OBVIOUS
  <2> DEFINE denial == PreconditionDenial(ev[g][d].ctx, ContextTime[ev[g][d].ctx],
                                         "recursive governance evaluation was attempted")
  <2>1. answer' = [answer EXCEPT ![g][d] = denial]
    BY DEF Recheck, Verdict
  <2>2. ~denial.permitted
    BY DEF PreconditionDenial
  <2> HIDE DEF denial
  <2> QED BY <2>1, <2>2 DEF TypeOK, VarsTyped
<1> QED BY <1>1, <1>2, <1>3, <1>4, StepKeepsControl

LEMMA EvaluateReturnsControl ==
  ASSUME TypeOK, ControlInv, NEW g \in Goroutines, NEW d \in Depths, d = depth[g],
         EvaluateReturns(g, d)
  PROVE  ControlInv'
BY ReturnKeepsControl DEF EvaluateReturns, guard

LEMMA ReleaseControl ==
  ASSUME TypeOK, ControlInv, NEW g \in Goroutines, NEW d \in Depths, d = depth[g], Release(g, d)
  PROVE  ControlInv'
BY ReturnKeepsControl DEF Release

(* A step inside RegisterPrimitive. *)
LEMMA RegisterStepControl ==
  ASSUME TypeOK, ControlInv, NEW g \in Goroutines, NEW d \in Depths, d = depth[g],
         pc[g][d] \in RegisterPcs, NEW point \in RegisterPcs, Goto(g, d, point),
         UNCHANGED <<guard, callbackEvaluations, depth, ev, answer>>
  PROVE  ControlInv'
<1>1. /\ point \in Pcs \ {"idle"} /\ point \notin EvaluatePcs \cup Running
      /\ pc[g][d] \notin EvaluatePcs \cup Running /\ point # "decided" /\ pc[g][d] # "decided"
  BY PointTypes, ControlPoints
<1> QED BY <1>1, StepKeepsControl DEF guard

LEMMA RegistrationControl ==
  ASSUME TypeOK, ControlInv, NEW g \in Goroutines, NEW d \in Depths, d = depth[g],
         \/ ProbeIdentity(g, d)
         \/ \E result : ProbeReturns(g, d, result)
         \/ RecordIdentity(g, d)
         \/ Publish(g, d)
  PROVE  ControlInv'
<1>1. UNCHANGED <<guard, callbackEvaluations, depth, ev, answer>>
  BY DEF ProbeIdentity, ProbeReturns, RecordIdentity, Publish
<1>2. pc[g][d] \in RegisterPcs
  BY DEF ProbeIdentity, ProbeReturns, RecordIdentity, Publish, RegisterPcs, ProbePcs, RecordPcs
<1>3. \E point \in RegisterPcs : Goto(g, d, point)
  <2>1. {"release", "ck_eval1", "ck_eval2", "rd_version"} \subseteq RegisterPcs
    BY DEF RegisterPcs, ProbePcs, RecordPcs
  <2>2. CASE ProbeIdentity(g, d)
    <3>1. AfterProbe(pc[g][d]) \in RegisterPcs
      BY <2>2 DEF ProbeIdentity, AfterProbe, RegisterPcs, ProbePcs
    <3> QED BY <2>1, <2>2, <3>1 DEF ProbeIdentity, RegistrationFails
  <2>3. CASE \E result : ProbeReturns(g, d, result)
    BY <2>1, <2>3 DEF ProbeReturns, RegistrationFails
  <2>4. CASE RecordIdentity(g, d)
    <3>1. AfterRecord(pc[g][d]) \in RegisterPcs
      BY <2>4 DEF RecordIdentity, AfterRecord, RegisterPcs, RecordPcs
    <3> QED BY <2>1, <2>4, <3>1 DEF RecordIdentity, RegistrationFails
  <2>5. CASE Publish(g, d)
    BY <2>1, <2>5 DEF Publish
  <2> QED BY <2>2, <2>3, <2>4, <2>5
<1> QED BY <1>1, <1>2, <1>3, RegisterStepControl
-----------------------------------------------------------------------------
(* The inductive invariant of the engine. *)
IInv == TypeOK /\ ControlInv

LEMMA InitIInv == Init => IInv
<1> SUFFICES ASSUME Init PROVE ControlInv
  BY InitTypeInv DEF IInv
<1>1. \A g \in Goroutines, d \in Depths : pc[g][d] = "idle" /\ callbackEvaluations[g] # d
  BY DEF Init, Depths
<1>2. registrationActive = FALSE
  BY DEF Init
<1> QED BY <1>1, <1>2, ControlPoints
        DEF ControlInv, CallbackTableExact, RegistrationExclusive, RecursionDenied,
            ReentryDeniesParent

LEMMA CallKeepsIInv ==
  ASSUME IInv, NEW g \in Goroutines, Call(g)
  PROVE  IInv'
<1> USE DEF IInv
<1>1. ASSUME NEW ctx, NEW time, EvaluateRefusesInput(g, ctx, time) PROVE IInv'
  BY <1>1, EvaluateRefusesInputType, EvaluateRefusesInputControl
<1>2. ASSUME NEW ctx, EvaluateRefusesRecursion(g, ctx) PROVE IInv'
  BY <1>2, EvaluateRefusesRecursionType, EvaluateRefusesRecursionControl
<1>3. ASSUME NEW ctx, EvaluateRefusesEmpty(g, ctx) PROVE IInv'
  BY <1>3, EvaluateRefusesEmptyType, EvaluateRefusesEmptyControl
<1>4. ASSUME NEW ctx \in Contexts, EvaluateBegins(g, ctx) PROVE IInv'
  BY <1>4, EvaluateBeginsType, EvaluateBeginsControl
<1>5. ASSUME NEW id \in Ids, NEW prim \in Primitives, RegisterBegins(g, id, prim) PROVE IInv'
  BY <1>5, RegisterBeginsType, RegisterBeginsControl
<1>6. ASSUME MutationRefused(g) PROVE IInv'
  BY <1>6, MutationRefusedType, QuietControl DEF MutationRefused
<1>7. ASSUME Clear(g) PROVE IInv'
  BY <1>7, ClearType, QuietControl DEF Clear, guard
<1> QED BY <1>1, <1>2, <1>3, <1>4, <1>5, <1>6, <1>7 DEF Call

LEMMA StepKeepsIInv ==
  ASSUME IInv, NEW g \in Goroutines, NEW d \in Depths, Step(g, d)
  PROVE  IInv'
<1> USE DEF IInv
<1>0. d = depth[g]
  BY DEF Step
<1>1. CASE ReadIdentity(g, d)
  BY <1>0, <1>1, ReadIdentityType, ReadIdentityControl
<1>2. CASE ReadLastIdentity(g, d)
  BY <1>0, <1>2, ReadLastIdentityType, ReadLastIdentityControl
<1>3. CASE InvokePrimitiveEvaluation(g, d)
  <2>1. callbackEvaluations[g] = 0
    BY <1>0, <1>3, InvokeFindsNoCallback DEF InvokePrimitiveEvaluation
  <2> QED BY <1>0, <1>3, <2>1, InvokeType, InvokeControl
<1>4. ASSUME NEW result \in Results \cup {NoResult}, PrimitiveReturns(g, d, result) PROVE IInv'
  BY <1>0, <1>4, PrimitiveReturnsType, PrimitiveReturnsControl
<1>5. CASE Recheck(g, d)
  BY <1>0, <1>5, RecheckType, RecheckControl
<1>6. CASE EvaluateReturns(g, d)
  BY <1>0, <1>6, EvaluateReturnsType, EvaluateReturnsControl
<1>7. CASE ProbeIdentity(g, d)
  BY <1>0, <1>7, ProbeIdentityType, RegistrationControl
<1>8. ASSUME NEW result \in Results \cup {NoResult}, ProbeReturns(g, d, result) PROVE IInv'
  BY <1>0, <1>8, ProbeReturnsType, RegistrationControl
<1>9. CASE RecordIdentity(g, d)
  BY <1>0, <1>9, RecordIdentityType, RegistrationControl
<1>10. CASE Publish(g, d)
  BY <1>0, <1>10, PublishType, RegistrationControl
<1>11. CASE Release(g, d)
  BY <1>0, <1>11, ReleaseType, ReleaseControl
<1> QED BY <1>1, <1>2, <1>3, <1>4, <1>5, <1>6, <1>7, <1>8, <1>9, <1>10, <1>11 DEF Step

LEMMA NextKeepsIInv == IInv /\ [Next]_vars => IInv'
<1> SUFFICES ASSUME IInv, [Next]_vars PROVE IInv'
  OBVIOUS
<1>1. ASSUME NEW g \in Goroutines, Call(g) PROVE IInv'
  BY <1>1, CallKeepsIInv
<1>2. ASSUME NEW g \in Goroutines, NEW d \in Depths, Step(g, d) PROVE IInv'
  BY <1>2, StepKeepsIInv
<1>3. ASSUME NEW prim \in Primitives, NEW f \in Fields, Drift(prim, f) PROVE IInv'
  BY <1>3, DriftType, QuietControl DEF Drift, IInv, guard
<1>4. CASE UNCHANGED vars
  BY <1>4 DEF vars, configuration, guard, IInv, TypeOK, VarsTyped, StackOK, SnapshotOK, ControlInv,
              CallbackTableExact, RegistrationExclusive, RecursionDenied, ReentryDeniesParent
<1> QED BY <1>1, <1>2, <1>3, <1>4 DEF Next

LEMMA Invariance == Spec => []IInv
BY InitIInv, NextKeepsIInv, PTL DEF Spec

(* Every variable of the engine keeps its type, the frames in use stay a    *)
(* stack, and a loop over a snapshot never leaves it, whatever interleaves. *)
THEOREM TypeCorrect == Spec => []TypeOK
<1>1. IInv => TypeOK
  BY DEF IInv
<1> QED BY <1>1, Invariance, PTL

(* RegisterPrimitive excludes every other registration from its first lock  *)
(* section to its last, although its callbacks run unlocked.                *)
THEOREM RegistrationIsExclusive == Spec => []RegistrationExclusive
<1>1. IInv => RegistrationExclusive
  BY DEF IInv, ControlInv
<1> QED BY <1>1, Invariance, PTL

(* The table of goroutines inside an Evaluate callback is exact at any      *)
(* time: neither leaked nor removed early.                                  *)
THEOREM CallbackTableIsExact == Spec => []CallbackTableExact
<1>1. IInv => CallbackTableExact
  BY DEF IInv, ControlInv
<1> QED BY <1>1, Invariance, PTL

(* A call of evaluate made inside an Evaluate callback is never permitted.  *)
THEOREM RecursionIsDenied == Spec => []RecursionDenied
<1>1. IInv => RecursionDenied
  BY DEF IInv, ControlInv
<1> QED BY <1>1, Invariance, PTL

(* And neither is the evaluation whose callback made it. *)
THEOREM ReentryDenies == Spec => []ReentryDeniesParent
<1>1. IInv => ReentryDeniesParent
  BY DEF IInv, ControlInv
<1> QED BY <1>1, Invariance, PTL

-----------------------------------------------------------------------------
(* How the configuration changes. *)

Published(g, d) == [id |-> rg[g][d].id, prim |-> rg[g][d].prim, ident |-> rg[g][d].ident]

Publishes(g, d) ==
  /\ pc[g][d] = "publish"
  /\ pc'[g][d] = "release"
  /\ MayPublish(rg[g][d].id)
  /\ registrations' = Append(registrations, Published(g, d))
  /\ configurationEpoch' = configurationEpoch + 1
  /\ UNCHANGED ev

Clears ==
  /\ ~registrationActive
  /\ registrations' = <<>>
  /\ configurationEpoch' = configurationEpoch + 1
  /\ UNCHANGED ev

(* Only Clear and the publication of a registration change it. *)
LEMMA ConfigurationMoves ==
  ASSUME IInv, [Next]_vars
  PROVE  \/ UNCHANGED configuration
         \/ Clears
         \/ \E g \in Goroutines, d \in Depths : Publishes(g, d)
<1>1. ASSUME NEW g \in Goroutines, Call(g) PROVE UNCHANGED configuration \/ Clears
  BY <1>1 DEF Call, EvaluateRefusesInput, EvaluateRefusesRecursion, EvaluateRefusesEmpty,
              EvaluateBegins, RegisterBegins, MutationRefused, Clear, Clears
<1>2. ASSUME NEW g \in Goroutines, NEW d \in Depths, Publish(g, d)
      PROVE  UNCHANGED configuration \/ Publishes(g, d)
  <2>1. pc'[g][d] = "release"
    BY <1>2 DEF Publish, Goto, IInv, TypeOK, VarsTyped
  <2> QED BY <1>2, <2>1 DEF Publish, Publishes, Published
<1>3. ASSUME NEW g \in Goroutines, NEW d \in Depths, Step(g, d), ~Publish(g, d)
      PROVE  UNCHANGED configuration
  BY <1>3 DEF Step, ReadIdentity, ReadLastIdentity, InvokePrimitiveEvaluation, PrimitiveReturns,
              Recheck, EvaluateReturns, ProbeIdentity, ProbeReturns, RecordIdentity, Release
<1>4. ASSUME NEW prim \in Primitives, NEW f \in Fields, Drift(prim, f)
      PROVE  UNCHANGED configuration
  BY <1>4 DEF Drift
<1>5. CASE UNCHANGED vars
  BY <1>5 DEF vars
<1> QED BY <1>1, <1>2, <1>3, <1>4, <1>5 DEF Next

(* MutationsSerialised: an active registration is disturbed by nothing but  *)
(* its own publication.                                                     *)
THEOREM MutationsAreSerialised == Spec => MutationsSerialised
<1>1. ASSUME IInv, [Next]_vars, registrationActive, configuration' # configuration
      PROVE  /\ ~registrationMutationAttempted
             /\ \E g \in Goroutines, d \in Depths :
                  /\ pc[g][d] = "publish" /\ pc'[g][d] = "release"
                  /\ registrations' = Append(registrations, Published(g, d))
  BY <1>1, ConfigurationMoves DEF Publishes, Clears, MayPublish
<1>2. IInv /\ [Next]_vars =>
        [(registrationActive /\ configuration' # configuration)
           => /\ ~registrationMutationAttempted
              /\ \E g \in Goroutines, d \in Depths :
                   /\ pc[g][d] = "publish" /\ pc'[g][d] = "release"
                   /\ registrations' = Append(registrations,
                        [id |-> rg[g][d].id, prim |-> rg[g][d].prim, ident |-> rg[g][d].ident])]_vars
  BY <1>1 DEF Published
<1> QED BY <1>2, Invariance, PTL DEF Spec, MutationsSerialised

LEMMA NextKeepsUniqueIds == IInv /\ UniqueIds /\ [Next]_vars => UniqueIds'
<1> SUFFICES ASSUME IInv, UniqueIds, [Next]_vars PROVE UniqueIds'
  OBVIOUS
<1>1. CASE UNCHANGED configuration
  BY <1>1 DEF configuration, UniqueIds
<1>2. CASE Clears
  BY <1>2 DEF Clears, UniqueIds
<1>3. ASSUME NEW g \in Goroutines, NEW d \in Depths, Publishes(g, d) PROVE UniqueIds'
  <2>1. registrations \in Seq(Registration)
    BY DEF IInv, TypeOK, VarsTyped
  <2>2. /\ DOMAIN registrations' = 1..(Len(registrations) + 1)
        /\ \A i \in DOMAIN registrations : registrations'[i] = registrations[i]
        /\ registrations'[Len(registrations) + 1].id = rg[g][d].id
    BY <1>3, <2>1 DEF Publishes, Published
  <2>3. \A i \in DOMAIN registrations : registrations[i].id # rg[g][d].id
    BY <1>3 DEF Publishes, MayPublish, HasPrimitiveID
  <2>4. DOMAIN registrations = 1..Len(registrations) /\ Len(registrations) \in Nat
    BY <2>1
  <2> SUFFICES ASSUME NEW i \in DOMAIN registrations', NEW j \in DOMAIN registrations',
                      registrations'[i].id = registrations'[j].id
               PROVE  i = j
    BY DEF UniqueIds
  <2>5. CASE i \in DOMAIN registrations /\ j \in DOMAIN registrations
    BY <2>2, <2>5 DEF UniqueIds
  <2>6. CASE i \notin DOMAIN registrations \/ j \notin DOMAIN registrations
    BY <2>2, <2>3, <2>4, <2>6
  <2> QED BY <2>5, <2>6
<1> QED BY <1>1, <1>2, <1>3, ConfigurationMoves

(* No ID is ever registered twice. *)
THEOREM IdsAreUnique == Spec => []UniqueIds
<1>1. Init => UniqueIds
  BY DEF Init, UniqueIds
<1> QED BY <1>1, NextKeepsUniqueIds, Invariance, PTL DEF Spec
-----------------------------------------------------------------------------
(* How the frames move. *)

(* The locals of an evaluation but for its mark. *)
SameLocals(old, new) ==
  /\ new.ctx = old.ctx
  /\ new.snapshot = old.snapshot
  /\ new.epoch = old.epoch
  /\ new.index = old.index
  /\ new.first = old.first
  /\ new.signals = old.signals
  /\ new.reasons = old.reasons
  /\ new.tainted = old.tainted

(* A frame in which nothing happens. *)
Rests(g, d) ==
  /\ pc'[g][d] = pc[g][d]
  /\ answer'[g][d] = answer[g][d]
  /\ rg'[g][d] = rg[g][d]
  /\ SameLocals(ev[g][d], ev'[g][d])

(* A frame that a call has pushed. *)
Pushed(g, d) ==
  \/ /\ pc'[g][d] = "decided"
     /\ ~answer'[g][d].permitted
     /\ SameLocals(ev[g][d], ev'[g][d])
     /\ rg'[g][d] = rg[g][d]
  \/ /\ pc'[g][d] = "pre_version"
     /\ \E ctx \in Contexts :
          ev'[g][d] = [IdleEvaluation EXCEPT !.ctx = ctx, !.snapshot = registrations,
                                             !.epoch = configurationEpoch, !.index = 1]
     /\ rg'[g][d] = rg[g][d]
     /\ UNCHANGED configuration
  \/ /\ pc'[g][d] = "ck_name"
     /\ SameLocals(ev[g][d], ev'[g][d])
     /\ \E id \in Ids, prim \in Primitives : rg'[g][d] = IdleRegistration(id, prim)

LEMMA CallMovesFrames ==
  ASSUME IInv, NEW g \in Goroutines, Call(g), NEW h \in Goroutines, NEW e \in Depths
  PROVE  Rests(h, e) \/ Pushed(h, e)
<1> USE DEF IInv, TypeOK
<1>0. depth[g] \in 0..MaxDepth /\ callbackEvaluations[g] \in 0..MaxDepth
  BY DEF VarsTyped
<1>1. ASSUME NEW point \in {"decided", "pre_version", "ck_name"}, Push(g, point)
      PROVE  /\ depth[g] + 1 \in Depths
             /\ pc'[g][depth[g] + 1] = point
             /\ ~(h = g /\ e = depth[g] + 1) => pc'[h][e] = pc[h][e]
  <2>1. point \in Pcs
    BY PointTypes DEF EvaluatePcs, RegisterPcs, ProbePcs
  <2> QED BY <1>1, <2>1, PushMoves
<1>2. ASSUME NEW ctx, NEW time, NEW reason, Refuse(g, ctx, time, reason)
      PROVE  /\ ~(h = g /\ e = depth[g] + 1) => pc'[h][e] = pc[h][e] /\ answer'[h][e] = answer[h][e]
             /\ h = g /\ e = depth[g] + 1 => pc'[h][e] = "decided" /\ ~answer'[h][e].permitted
  <2>1. /\ depth[g] + 1 \in Depths
        /\ pc'[g][depth[g] + 1] = "decided"
        /\ ~(h = g /\ e = depth[g] + 1) => pc'[h][e] = pc[h][e]
    BY <1>1, <1>2 DEF Refuse
  <2> DEFINE denial == PreconditionDenial(ctx, time, reason)
  <2>2. answer' = [answer EXCEPT ![g][depth[g] + 1] = denial]
    BY <1>2 DEF Refuse
  <2>3. ~denial.permitted
    BY DEF PreconditionDenial
  <2> HIDE DEF denial
  <2>4. DOMAIN answer = Goroutines /\ \A k \in Goroutines : DOMAIN answer[k] = Depths
    BY DEF VarsTyped
  <2> QED BY <2>1, <2>2, <2>3, <2>4
<1>3. UNCHANGED <<ev, rg>> => SameLocals(ev[h][e], ev'[h][e]) /\ rg'[h][e] = rg[h][e]
  BY DEF SameLocals
<1>4. ASSUME NEW ctx, NEW time, EvaluateRefusesInput(g, ctx, time) PROVE Rests(h, e) \/ Pushed(h, e)
  <2>1. PICK t, reason : Refuse(g, ctx, t, reason)
    BY <1>4 DEF EvaluateRefusesInput
  <2>2. UNCHANGED <<ev, rg>>
    BY <1>4 DEF EvaluateRefusesInput
  <2> QED BY <1>2, <1>3, <2>1, <2>2 DEF Rests, Pushed
<1>5. ASSUME NEW ctx, EvaluateRefusesRecursion(g, ctx) PROVE Rests(h, e) \/ Pushed(h, e)
  <2>1. PICK t, reason : Refuse(g, ctx, t, reason)
    BY <1>5 DEF EvaluateRefusesRecursion
  <2>2. ev' = [ev EXCEPT ![g][callbackEvaluations[g]].recursive = TRUE] /\ rg' = rg
    BY <1>5 DEF EvaluateRefusesRecursion
  <2>3. SameLocals(ev[h][e], ev'[h][e])
    <3>1. ev \in EvTable
      BY DEF VarsTyped, EvTable
    <3>2. CASE h = g /\ e = callbackEvaluations[g]
      <4>1. ev'[h][e] = [ev[h][e] EXCEPT !.recursive = TRUE]
        BY <2>2, <3>1, <3>2 DEF EvTable
      <4>2. ev[h][e] \in EvaluationLocals
        BY <3>1 DEF EvTable
      <4> QED BY <4>1, <4>2 DEF SameLocals, EvaluationLocals
    <3>3. CASE ~(h = g /\ e = callbackEvaluations[g])
      <4>1. ev'[h][e] = ev[h][e]
        BY <2>2, <3>1, <3>3 DEF EvTable
      <4> QED BY <4>1 DEF SameLocals
    <3> QED BY <3>2, <3>3
  <2> QED BY <1>2, <2>1, <2>2, <2>3 DEF Rests, Pushed
<1>6. ASSUME NEW ctx, EvaluateRefusesEmpty(g, ctx) PROVE Rests(h, e) \/ Pushed(h, e)
  <2>1. PICK t, reason : Refuse(g, ctx, t, reason)
    BY <1>6 DEF EvaluateRefusesEmpty
  <2>2. UNCHANGED <<ev, rg>>
    BY <1>6 DEF EvaluateRefusesEmpty
  <2> QED BY <1>2, <1>3, <2>1, <2>2 DEF Rests, Pushed
<1>7. ASSUME NEW ctx \in Contexts, EvaluateBegins(g, ctx) PROVE Rests(h, e) \/ Pushed(h, e)
  <2>1. Push(g, "pre_version") /\ UNCHANGED <<rg, answer, configuration>>
    BY <1>7 DEF EvaluateBegins
  <2> DEFINE locals == [IdleEvaluation EXCEPT !.ctx = ctx, !.snapshot = registrations,
                                              !.epoch = configurationEpoch, !.index = 1]
  <2>2. ev' = [ev EXCEPT ![g][depth[g] + 1] = locals]
    BY <1>7 DEF EvaluateBegins
  <2>3. ev \in EvTable
    BY DEF VarsTyped, EvTable
  <2>4. CASE h = g /\ e = depth[g] + 1
    <3> HIDE DEF locals
    <3>1. ev'[h][e] = locals
      BY <2>2, <2>3, <2>4 DEF EvTable
    <3>2. pc'[h][e] = "pre_version"
      BY <1>1, <2>1, <2>4
    <3> QED BY <2>1, <3>1, <3>2 DEF Pushed, locals
  <2>5. CASE ~(h = g /\ e = depth[g] + 1)
    <3>1. ev'[h][e] = ev[h][e]
      BY <2>2, <2>3, <2>5 DEF EvTable
    <3>2. pc'[h][e] = pc[h][e]
      BY <1>1, <2>1, <2>5
    <3> QED BY <2>1, <3>1, <3>2 DEF Rests, SameLocals
  <2> QED BY <2>4, <2>5
<1>8. ASSUME NEW id \in Ids, NEW prim \in Primitives, RegisterBegins(g, id, prim)
      PROVE  Rests(h, e) \/ Pushed(h, e)
  <2>1. Push(g, "ck_name") /\ UNCHANGED <<ev, answer>>
    BY <1>8 DEF RegisterBegins
  <2>2. rg' = [rg EXCEPT ![g][depth[g] + 1] = IdleRegistration(id, prim)]
    BY <1>8 DEF RegisterBegins
  <2>3. rg \in RgTable
    BY DEF VarsTyped, RgTable
  <2>4. SameLocals(ev[h][e], ev'[h][e])
    BY <2>1 DEF SameLocals
  <2>5. CASE h = g /\ e = depth[g] + 1
    <3>1. rg'[h][e] = IdleRegistration(id, prim)
      BY <2>2, <2>3, <2>5 DEF RgTable
    <3>2. pc'[h][e] = "ck_name"
      BY <1>1, <2>1, <2>5
    <3> QED BY <2>4, <3>1, <3>2 DEF Pushed
  <2>6. CASE ~(h = g /\ e = depth[g] + 1)
    <3>1. rg'[h][e] = rg[h][e]
      BY <2>2, <2>3, <2>6 DEF RgTable
    <3>2. pc'[h][e] = pc[h][e]
      BY <1>1, <2>1, <2>6
    <3> QED BY <2>1, <2>4, <3>1, <3>2 DEF Rests
  <2> QED BY <2>5, <2>6
<1>9. UNCHANGED <<pc, ev, rg, answer>> => Rests(h, e)
  BY DEF Rests, SameLocals
<1> QED BY <1>4, <1>5, <1>6, <1>7, <1>8, <1>9 DEF Call, MutationRefused, Clear

(* A step of a top frame leaves all other frames at rest. *)
LEMMA StepMovesFrames ==
  ASSUME IInv, NEW g \in Goroutines, NEW d \in Depths, Step(g, d),
         NEW h \in Goroutines, NEW e \in Depths, ~(h = g /\ e = d)
  PROVE  Rests(h, e)
<1> USE DEF IInv, TypeOK
<1>0. ev \in EvTable /\ rg \in RgTable /\ pc \in PcTable
      /\ DOMAIN answer = Goroutines /\ \A k \in Goroutines : DOMAIN answer[k] = Depths
  BY DEF VarsTyped, EvTable, RgTable, PcTable
<1>1. \A point : Goto(g, d, point) => pc'[h][e] = pc[h][e]
  BY <1>0 DEF Goto, PcTable
<1>2. UNCHANGED ev => SameLocals(ev[h][e], ev'[h][e])
  BY DEF SameLocals
<1>3. \A data, reason : FailRegistration(g, d, data, reason)
        => SameLocals(ev[h][e], ev'[h][e]) /\ pc'[h][e] = pc[h][e]
  <2> SUFFICES ASSUME NEW data, NEW reason, FailRegistration(g, d, data, reason)
               PROVE  SameLocals(ev[h][e], ev'[h][e]) /\ pc'[h][e] = pc[h][e]
    OBVIOUS
  <2>1. ev'[h][e] = ev[h][e]
    BY DEF VarsTyped, FailRegistration
  <2>2. pc'[h][e] = pc[h][e]
    BY <1>1 DEF FailRegistration
  <2> QED BY <2>1, <2>2 DEF SameLocals
<1>4. CASE ReadIdentity(g, d)
  <2>1. UNCHANGED <<rg, answer>>
    BY <1>4 DEF ReadIdentity
  <2>2. CASE \E point : Goto(g, d, point) /\ UNCHANGED ev
    BY <1>1, <1>2, <2>1, <2>2 DEF Rests
  <2>3. CASE \E data, reason : FailRegistration(g, d, data, reason)
    BY <1>3, <2>1, <2>3 DEF Rests
  <2> QED BY <1>4, <2>2, <2>3 DEF ReadIdentity
<1>5. CASE ReadLastIdentity(g, d)
  <2>1. ASSUME PassRegistration(g, d)
        PROVE  SameLocals(ev[h][e], ev'[h][e]) /\ pc'[h][e] = pc[h][e]
    <3>1. ev'[h][e] = ev[h][e]
      BY <2>1 DEF VarsTyped, PassRegistration
    <3>2. pc'[h][e] = pc[h][e]
      BY <1>1, <2>1 DEF PassRegistration
    <3> QED BY <3>1, <3>2 DEF SameLocals
  <2> QED BY <1>3, <1>5, <2>1 DEF ReadLastIdentity, Rests
<1>6. CASE InvokePrimitiveEvaluation(g, d)
  <2>1. callbackEvaluations[g] = 0
    BY <1>6, InvokeFindsNoCallback DEF InvokePrimitiveEvaluation, Step
  <2> QED BY <1>1, <1>2, <1>6, <2>1 DEF InvokePrimitiveEvaluation, Rests
<1>7. ASSUME NEW result, PrimitiveReturns(g, d, result) PROVE Rests(h, e)
  <2> DEFINE taint == ev[g][d].tainted \/ Drifted(Current(g, d))
  <2>1. ev' = [ev EXCEPT ![g][d].first = result, ![g][d].tainted = taint]
          => SameLocals(ev[h][e], ev'[h][e])
    <3> HIDE DEF taint
    <3> QED BY <1>0 DEF SameLocals, EvTable
  <2> QED BY <1>1, <1>3, <1>7, <2>1 DEF PrimitiveReturns, Rests
<1>8. CASE Recheck(g, d)
  <2> DEFINE verdict == Verdict(ev[g][d])
  <2>1. answer' = [answer EXCEPT ![g][d] = verdict]
    BY <1>8 DEF Recheck
  <2> HIDE DEF verdict
  <2>2. answer'[h][e] = answer[h][e]
    BY <1>0, <2>1
  <2> QED BY <1>1, <1>2, <1>8, <2>2 DEF Recheck, Rests
<1>9. CASE EvaluateReturns(g, d) \/ Release(g, d)
  <2>1. Pop(g, d)
    BY <1>9 DEF EvaluateReturns, Release
  <2>2. /\ ev'[h][e] = ev[h][e] /\ rg'[h][e] = rg[h][e] /\ answer'[h][e] = answer[h][e]
    BY <1>0, <2>1 DEF Pop, EvTable, RgTable
  <2> QED BY <1>1, <2>1, <2>2 DEF Pop, Rests, SameLocals
<1>10. CASE ProbeIdentity(g, d) \/ RecordIdentity(g, d) \/ Publish(g, d)
            \/ \E result : ProbeReturns(g, d, result)
  <2>1. UNCHANGED <<ev, answer>>
    BY <1>10 DEF ProbeIdentity, RecordIdentity, Publish, ProbeReturns
  <2>2. pc'[h][e] = pc[h][e]
    BY <1>1, <1>10 DEF ProbeIdentity, RecordIdentity, Publish, ProbeReturns, RegistrationFails
  <2>3. rg'[h][e] = rg[h][e]
    BY <1>0, <1>10
       DEF ProbeIdentity, RecordIdentity, Publish, ProbeReturns, RegistrationFails, RgTable
  <2> QED BY <1>2, <2>1, <2>2, <2>3 DEF Rests
<1> QED BY <1>4, <1>5, <1>6, <1>7, <1>8, <1>9, <1>10 DEF Step

LEMMA StepKeepsIdentity ==
  ASSUME NEW g \in Goroutines, NEW d \in Depths, Step(g, d)
  PROVE  UNCHANGED identity
<1>1. CASE ReadIdentity(g, d) \/ ReadLastIdentity(g, d)
  BY <1>1 DEF ReadIdentity, ReadLastIdentity
<1>2. CASE InvokePrimitiveEvaluation(g, d)
  BY <1>2 DEF InvokePrimitiveEvaluation
<1>3. CASE \E result : PrimitiveReturns(g, d, result)
  BY <1>3 DEF PrimitiveReturns
<1>4. CASE Recheck(g, d) \/ EvaluateReturns(g, d) \/ Publish(g, d) \/ Release(g, d)
  BY <1>4 DEF Recheck, EvaluateReturns, Publish, Release
<1>5. CASE ProbeIdentity(g, d)
  BY <1>5 DEF ProbeIdentity
<1>6. CASE \E result : ProbeReturns(g, d, result)
  BY <1>6 DEF ProbeReturns
<1>7. CASE RecordIdentity(g, d)
  BY <1>7 DEF RecordIdentity
<1> QED BY <1>1, <1>2, <1>3, <1>4, <1>5, <1>6, <1>7 DEF Step

(* Identities move on, never back. *)
LEMMA IdentityMoves ==
  ASSUME IInv, [Next]_vars, NEW prim \in Primitives, NEW f \in Fields
  PROVE  /\ identity[prim][f] \in Nat
         /\ identity'[prim][f] \in Nat
         /\ identity[prim][f] <= identity'[prim][f]
<1>1. identity \in [Primitives -> Identity] /\ \A p \in Primitives, k \in Fields : identity[p][k] \in Nat
  BY EngineConstants DEF IInv, TypeOK, VarsTyped, Identity
<1>2. CASE UNCHANGED identity
  BY <1>1, <1>2
<1>3. ASSUME NEW p \in Primitives, NEW k \in Fields, Drift(p, k)
      PROVE  identity'[prim][f] \in Nat /\ identity[prim][f] <= identity'[prim][f]
  <2>1. identity' = [identity EXCEPT ![p][k] = @ + 1]
    BY <1>3 DEF Drift
  <2> QED BY <1>1, <2>1 DEF Identity
<1>4. ASSUME NEW g \in Goroutines, Call(g) PROVE UNCHANGED identity
  BY <1>4 DEF Call, EvaluateRefusesInput, EvaluateRefusesRecursion, EvaluateRefusesEmpty,
              EvaluateBegins, RegisterBegins, MutationRefused, Clear
<1>5. ASSUME NEW g \in Goroutines, NEW d \in Depths, Step(g, d) PROVE UNCHANGED identity
  BY <1>5, StepKeepsIdentity
<1>6. UNCHANGED vars => UNCHANGED identity
  BY DEF vars
<1> QED BY <1>1, <1>2, <1>3, <1>4, <1>5, <1>6 DEF Next
-----------------------------------------------------------------------------
(* The invariants of a frame. *)

(* The epoch of a snapshot is not ahead, and if it is the engine's so is    *)
(* the snapshot.                                                            *)
EpochOK(g, d) ==
  ev[g][d].snapshot # <<>> =>
    /\ ev[g][d].epoch <= configurationEpoch
    /\ ev[g][d].epoch = configurationEpoch => ev[g][d].snapshot = registrations

(* As long as nothing failed there is one valid signal, in order, of each   *)
(* registration that is done.                                               *)
SignalsMatch(locals) ==
  \A i \in 1..Len(locals.signals) :
    /\ locals.signals[i].primitive_id = locals.snapshot[i].id
    /\ locals.signals[i].valid

SignalsOK(g, d) ==
  /\ pc[g][d] \in LoopPcs => /\ ev[g][d].reasons = <<>>
                             /\ Len(ev[g][d].signals) = ev[g][d].index - 1
                             /\ SignalsMatch(ev[g][d])
  /\ (pc[g][d] = "recheck" /\ ev[g][d].reasons = <<>>) =>
       /\ Len(ev[g][d].signals) = Len(ev[g][d].snapshot)
       /\ SignalsMatch(ev[g][d])

(* What is recorded of a primitive is what it answers, or did before. *)
Behind(prim, ident) == \A f \in Fields : ident[f] <= identity[prim][f]

SnapshotBehind(g, d) ==
  \A i \in 1..Len(ev[g][d].snapshot) :
    Behind(ev[g][d].snapshot[i].prim, ev[g][d].snapshot[i].ident)

RecordBehind(g, d) == Behind(rg[g][d].prim, rg[g][d].ident)

(* One of these fields has moved on since the registration. *)
Moved(g, d, fields) ==
  \E f \in fields : Current(g, d).ident[f] < identity[Current(g, d).prim][f]

(* A taint is one that a read to come will find. *)
TaintOK(g, d) ==
  ev[g][d].tainted =>
    /\ pc[g][d] \notin {"pre_version", "pre_source", "pre_config", "invoke1", "running1"}
    /\ pc[g][d] \in {"invoke2", "running2", "post_version"} => Moved(g, d, Fields)
    /\ pc[g][d] = "post_source" => Moved(g, d, {"source", "config"})
    /\ pc[g][d] = "post_config" => Moved(g, d, {"config"})
    /\ pc[g][d] = "recheck" => ev[g][d].reasons # <<>>
    /\ pc[g][d] = "decided" => ~answer[g][d].permitted

FrameOK(g, d) ==
  /\ EpochOK(g, d)
  /\ SignalsOK(g, d)
  /\ SnapshotBehind(g, d)
  /\ RecordBehind(g, d)
  /\ TaintOK(g, d)

RegistrationsBehind ==
  \A i \in 1..Len(registrations) : Behind(registrations[i].prim, registrations[i].ident)

DataInv == RegistrationsBehind /\ \A g \in Goroutines, d \in Depths : FrameOK(g, d)

(* Types, in the form the lemmas below use them. *)
LEMMA FrameTypes ==
  ASSUME IInv, NEW g \in Goroutines, NEW d \in Depths
  PROVE  /\ ev[g][d] \in EvaluationLocals
         /\ rg[g][d] \in RegistrationLocals
         /\ pc[g][d] \in Pcs
         /\ ev[g][d].snapshot \in Seq(Registration)
         /\ Len(ev[g][d].snapshot) \in Nat
         /\ \A i \in 1..Len(ev[g][d].snapshot) : ev[g][d].snapshot[i] \in Registration
         /\ ev[g][d].epoch \in Nat
         /\ configurationEpoch \in Nat
         /\ pc[g][d] \in LoopPcs => ev[g][d].index \in 1..Len(ev[g][d].snapshot)
BY DEF IInv, TypeOK, VarsTyped, EvaluationLocals, SnapshotOK

LEMMA BehindMoves ==
  ASSUME IInv, [Next]_vars, NEW prim \in Primitives, NEW ident \in Identity, Behind(prim, ident)
  PROVE  Behind(prim, ident)'
<1>1. \A f \in Fields : ident[f] \in Nat
  BY EngineConstants DEF Identity
<1> QED BY <1>1, IdentityMoves DEF Behind

(* The parts that only depend on a snapshot or a record that is kept, while *)
(* the configuration changes and identities move on.                        *)
LEMMA EpochKept ==
  ASSUME IInv, [Next]_vars, NEW g \in Goroutines, NEW d \in Depths, EpochOK(g, d),
         ev'[g][d].snapshot = ev[g][d].snapshot, ev'[g][d].epoch = ev[g][d].epoch
  PROVE  EpochOK(g, d)'
<1>1. UNCHANGED configuration \/ configurationEpoch' = configurationEpoch + 1
  BY ConfigurationMoves DEF Clears, Publishes
<1> QED BY <1>1, FrameTypes DEF EpochOK, configuration

LEMMA SnapshotBehindKept ==
  ASSUME IInv, [Next]_vars, NEW g \in Goroutines, NEW d \in Depths, SnapshotBehind(g, d),
         ev'[g][d].snapshot = ev[g][d].snapshot
  PROVE  SnapshotBehind(g, d)'
<1> SUFFICES ASSUME NEW i \in 1..Len(ev[g][d].snapshot)
             PROVE  \A f \in Fields : ev[g][d].snapshot[i].ident[f]
                                        <= identity'[ev[g][d].snapshot[i].prim][f]
  BY DEF SnapshotBehind, Behind
<1> DEFINE r == ev[g][d].snapshot[i]
<1>1. r \in Registration /\ Behind(r.prim, r.ident)
  BY FrameTypes DEF SnapshotBehind
<1>2. r.prim \in Primitives /\ r.ident \in Identity
  BY <1>1 DEF Registration
<1> HIDE DEF r
<1>3. \A f \in Fields : r.ident[f] <= identity'[r.prim][f]
  BY <1>1, <1>2, BehindMoves DEF Behind
<1> QED BY <1>3 DEF r

LEMMA RecordBehindKept ==
  ASSUME IInv, [Next]_vars, NEW g \in Goroutines, NEW d \in Depths, RecordBehind(g, d),
         rg'[g][d] = rg[g][d]
  PROVE  RecordBehind(g, d)'
<1>1. rg[g][d].prim \in Primitives /\ rg[g][d].ident \in Identity
  BY FrameTypes DEF RegistrationLocals
<1>2. \A f \in Fields : rg[g][d].ident[f] \in Nat
  BY <1>1, EngineConstants DEF Identity
<1> QED BY <1>1, <1>2, IdentityMoves DEF RecordBehind, Behind

(* A frame at rest stays in order. *)
LEMMA RestKeepsFrame ==
  ASSUME IInv, [Next]_vars, NEW g \in Goroutines, NEW d \in Depths, FrameOK(g, d), Rests(g, d)
  PROVE  FrameOK(g, d)'
<1>1. EpochOK(g, d)' /\ SnapshotBehind(g, d)' /\ RecordBehind(g, d)'
  BY EpochKept, SnapshotBehindKept, RecordBehindKept DEF FrameOK, Rests, SameLocals
<1>2. SignalsOK(g, d)'
  BY DEF FrameOK, SignalsOK, SignalsMatch, Rests, SameLocals
<1>3. TaintOK(g, d)'
  <2>1. \A fields \in SUBSET Fields :
          pc[g][d] \in LoopPcs /\ Moved(g, d, fields) => Moved(g, d, fields)'
    <3> SUFFICES ASSUME NEW f \in Fields, pc[g][d] \in LoopPcs,
                        Current(g, d).ident[f] < identity[Current(g, d).prim][f]
                 PROVE  Current(g, d)'.ident[f] < identity'[Current(g, d)'.prim][f]
      BY DEF Moved
    <3>1. Current(g, d)' = Current(g, d)
      BY DEF Current, Rests, SameLocals
    <3>2. Current(g, d) \in Registration
      BY FrameTypes DEF Current
    <3>3. Current(g, d).prim \in Primitives /\ Current(g, d).ident[f] \in Nat
      BY <3>2, EngineConstants DEF Registration, Identity
    <3> QED BY <3>1, <3>3, IdentityMoves
  <2>2. {"invoke2", "running2", "post_version", "post_source", "post_config"} \subseteq LoopPcs
    BY DEF LoopPcs, EvaluatePcs
  <2>3. /\ Fields \in SUBSET Fields
        /\ {"source", "config"} \in SUBSET Fields
        /\ {"config"} \in SUBSET Fields
    BY DEF Fields
  <2>4. /\ pc'[g][d] = pc[g][d]
        /\ answer'[g][d] = answer[g][d]
        /\ ev'[g][d].reasons = ev[g][d].reasons
        /\ ev'[g][d].tainted = ev[g][d].tainted
    BY DEF Rests, SameLocals
  <2> QED BY <2>1, <2>2, <2>3, <2>4 DEF FrameOK, TaintOK
<1> QED BY <1>1, <1>2, <1>3 DEF FrameOK

(* The program points at which a part says nothing. *)
LEMMA QuietPoints ==
  /\ RegisterPcs \cap (LoopPcs \cup {"recheck", "decided", "idle"}) = {}
  /\ "decided" \notin LoopPcs /\ "recheck" \notin LoopPcs /\ "idle" \notin LoopPcs
  /\ {"pre_version", "pre_source", "pre_config", "invoke1", "running1", "invoke2", "running2",
      "post_version", "post_source", "post_config"} = LoopPcs
BY DEF RegisterPcs, ProbePcs, RecordPcs, LoopPcs, EvaluatePcs

LEMMA NothingRecorded ==
  ASSUME IInv, [Next]_vars, NEW g \in Goroutines, NEW d \in Depths,
         NEW id \in Ids, NEW prim \in Primitives, rg'[g][d] = IdleRegistration(id, prim)
  PROVE  RecordBehind(g, d)'
<1>1. rg'[g][d].prim = prim /\ \A f \in Fields : rg'[g][d].ident[f] = 0
  BY DEF IdleRegistration, NoIdentity
<1>2. \A f \in Fields : 0 <= identity'[prim][f]
  BY IdentityMoves
<1> QED BY <1>1, <1>2 DEF RecordBehind, Behind

(* A new frame is in order. *)
LEMMA PushedKeepsFrame ==
  ASSUME IInv, RegistrationsBehind, [Next]_vars, NEW g \in Goroutines, NEW d \in Depths,
         FrameOK(g, d), Pushed(g, d)
  PROVE  FrameOK(g, d)'
<1>1. RecordBehind(g, d)'
  BY RecordBehindKept, NothingRecorded DEF FrameOK, Pushed
<1>2. CASE SameLocals(ev[g][d], ev'[g][d]) /\ pc'[g][d] \in {"decided", "ck_name"}
           /\ (pc'[g][d] = "decided" => ~answer'[g][d].permitted)
  <2>1. EpochOK(g, d)' /\ SnapshotBehind(g, d)'
    BY <1>2, EpochKept, SnapshotBehindKept DEF FrameOK, SameLocals
  <2>2. SignalsOK(g, d)'
    BY <1>2, QuietPoints DEF SignalsOK
  <2>3. TaintOK(g, d)'
    BY <1>2 DEF TaintOK
  <2> QED BY <1>1, <2>1, <2>2, <2>3 DEF FrameOK
<1>3. ASSUME NEW ctx \in Contexts, UNCHANGED configuration, pc'[g][d] = "pre_version",
             ev'[g][d] = [IdleEvaluation EXCEPT !.ctx = ctx, !.snapshot = registrations,
                                                !.epoch = configurationEpoch, !.index = 1]
      PROVE  FrameOK(g, d)'
  <2>1. /\ ev'[g][d].snapshot = registrations
        /\ ev'[g][d].epoch = configurationEpoch
        /\ ev'[g][d].index = 1
        /\ ev'[g][d].signals = <<>>
        /\ ev'[g][d].reasons = <<>>
        /\ ev'[g][d].tainted = FALSE
    BY <1>3 DEF IdleEvaluation
  <2>2. registrations' = registrations /\ configurationEpoch' = configurationEpoch
    BY <1>3 DEF configuration
  <2>3. EpochOK(g, d)'
    BY <2>1, <2>2, FrameTypes DEF EpochOK
  <2>4. SignalsOK(g, d)'
    BY <1>3, <2>1 DEF SignalsOK, SignalsMatch
  <2>5. SnapshotBehind(g, d)'
    <3> SUFFICES ASSUME NEW i \in 1..Len(registrations)
                 PROVE  \A f \in Fields : registrations[i].ident[f]
                                            <= identity'[registrations[i].prim][f]
      BY <2>1 DEF SnapshotBehind, Behind
    <3> DEFINE r == registrations[i]
    <3>1. r \in Registration /\ Behind(r.prim, r.ident)
      BY DEF RegistrationsBehind, IInv, TypeOK, VarsTyped
    <3>2. r.prim \in Primitives /\ r.ident \in Identity
      BY <3>1 DEF Registration
    <3> HIDE DEF r
    <3>3. \A f \in Fields : r.ident[f] <= identity'[r.prim][f]
      BY <3>1, <3>2, BehindMoves DEF Behind
    <3> QED BY <3>3 DEF r
  <2>6. TaintOK(g, d)'
    BY <2>1 DEF TaintOK
  <2> QED BY <1>1, <2>3, <2>4, <2>5, <2>6 DEF FrameOK
<1> QED BY <1>2, <1>3 DEF Pushed
-----------------------------------------------------------------------------
(* The frame that takes a step. *)

(* A read that agrees leaves the taint to the fields still to be read. *)
LEMMA ReadKeepsFrame ==
  ASSUME IInv, NEW g \in Goroutines, NEW d \in Depths, FrameOK(g, d),
         pc[g][d] \in {"pre_version", "pre_source", "pre_config", "post_version", "post_source"},
         Agrees(g, d), pc'[g][d] = AfterRead(pc[g][d]), ev'[g][d] = ev[g][d], UNCHANGED identity
  PROVE  SignalsOK(g, d)' /\ TaintOK(g, d)'
<1>1. pc'[g][d] \in {"pre_source", "pre_config", "invoke1", "post_source", "post_config"}
  BY DEF AfterRead
<1>2. SignalsOK(g, d)'
  BY <1>1, QuietPoints DEF FrameOK, SignalsOK, SignalsMatch
<1>3. Current(g, d)' = Current(g, d)
  BY DEF Current
<1>4. TaintOK(g, d)'
  <2> SUFFICES ASSUME ev[g][d].tainted PROVE TaintOK(g, d)'
    BY DEF TaintOK
  <2>1. CASE pc[g][d] = "post_version"
    <3>1. pc'[g][d] = "post_source" /\ FieldAt(pc[g][d]) = "version"
      BY <2>1 DEF AfterRead, FieldAt
    <3>2. identity[Current(g, d).prim]["version"] = Current(g, d).ident["version"]
      BY <3>1 DEF Agrees
    <3>3. Current(g, d) \in Registration
      BY <2>1, QuietPoints, FrameTypes DEF Current
    <3>4. Current(g, d).prim \in Primitives /\ Current(g, d).ident["version"] \in Nat
      BY <3>3, EngineConstants DEF Registration, Identity, Fields
    <3>5. Moved(g, d, {"source", "config"})
      BY <2>1, <3>2, <3>4 DEF FrameOK, TaintOK, Moved, Fields
    <3> QED BY <1>3, <3>1, <3>5 DEF TaintOK, Moved
  <2>2. CASE pc[g][d] = "post_source"
    <3>1. pc'[g][d] = "post_config" /\ FieldAt(pc[g][d]) = "source"
      BY <2>2 DEF AfterRead, FieldAt
    <3>2. identity[Current(g, d).prim]["source"] = Current(g, d).ident["source"]
      BY <3>1 DEF Agrees
    <3>3. Current(g, d) \in Registration
      BY <2>2, QuietPoints, FrameTypes DEF Current
    <3>4. Current(g, d).prim \in Primitives /\ Current(g, d).ident["source"] \in Nat
      BY <3>3, EngineConstants DEF Registration, Identity, Fields
    <3>5. Moved(g, d, {"config"})
      BY <2>2, <3>2, <3>4 DEF FrameOK, TaintOK, Moved
    <3> QED BY <1>3, <3>1, <3>5 DEF TaintOK, Moved
  <2>3. CASE pc[g][d] \in {"pre_version", "pre_source", "pre_config"}
    BY <2>3 DEF FrameOK, TaintOK
  <2> QED BY <2>1, <2>2, <2>3
<1> QED BY <1>2, <1>4

(* A failure: the reason keeps signals and taint out of the decision. *)
LEMMA FailureKeepsFrame ==
  ASSUME IInv, NEW g \in Goroutines, NEW d \in Depths, NEW data, NEW reason,
         FailRegistration(g, d, data, reason)
  PROVE  /\ SignalsOK(g, d)' /\ TaintOK(g, d)'
         /\ ev'[g][d].snapshot = ev[g][d].snapshot /\ ev'[g][d].epoch = ev[g][d].epoch
<1>1. /\ ev'[g][d].reasons = <<reason>>
      /\ ev'[g][d].snapshot = ev[g][d].snapshot /\ ev'[g][d].epoch = ev[g][d].epoch
  BY DEF FailRegistration, IInv, TypeOK, VarsTyped, EvaluationLocals
<1>2. pc'[g][d] = "recheck"
  BY DEF FailRegistration, Goto, IInv, TypeOK, VarsTyped
<1>3. <<reason>> # <<>>
  OBVIOUS
<1> QED BY <1>1, <1>2, <1>3, QuietPoints DEF SignalsOK, TaintOK

LEMMA ReadIdentityFrame ==
  ASSUME IInv, NEW g \in Goroutines, NEW d \in Depths, FrameOK(g, d), ReadIdentity(g, d)
  PROVE  /\ SignalsOK(g, d)' /\ TaintOK(g, d)'
         /\ ev'[g][d].snapshot = ev[g][d].snapshot /\ ev'[g][d].epoch = ev[g][d].epoch
<1>1. CASE Agrees(g, d) /\ Goto(g, d, AfterRead(pc[g][d])) /\ UNCHANGED ev
  <2>1. pc'[g][d] = AfterRead(pc[g][d])
    BY <1>1 DEF Goto, IInv, TypeOK, VarsTyped
  <2>2. UNCHANGED identity
    BY DEF ReadIdentity
  <2> QED BY <1>1, <2>1, <2>2, ReadKeepsFrame DEF ReadIdentity
<1>2. CASE FailRegistration(g, d, FailureData, "primitive failed: identity")
  BY <1>2, FailureKeepsFrame
<1> QED BY <1>1, <1>2 DEF ReadIdentity

(* A registration that passes: its taint would show in the last read. *)
LEMMA PassKeepsFrame ==
  ASSUME IInv, NEW g \in Goroutines, NEW d \in Depths, FrameOK(g, d),
         pc[g][d] = "post_config", Agrees(g, d), PassRegistration(g, d)
  PROVE  /\ SignalsOK(g, d)' /\ TaintOK(g, d)'
         /\ ev'[g][d].snapshot = ev[g][d].snapshot /\ ev'[g][d].epoch = ev[g][d].epoch
<1> DEFINE signal == Signal(Current(g, d), TRUE, ev[g][d].first.data)
<1>0. ev[g][d] \in EvaluationLocals /\ ev[g][d].signals \in Seq(SignalRecord)
      /\ pc[g][d] \in LoopPcs /\ ev[g][d].index \in 1..Len(ev[g][d].snapshot)
      /\ Len(ev[g][d].snapshot) \in Nat
  BY FrameTypes, QuietPoints DEF EvaluationLocals
<1>1. /\ ev'[g][d].signals = Append(ev[g][d].signals, signal)
      /\ ev'[g][d].index = ev[g][d].index + 1
      /\ ev'[g][d].snapshot = ev[g][d].snapshot
      /\ ev'[g][d].epoch = ev[g][d].epoch
      /\ ev'[g][d].reasons = ev[g][d].reasons
      /\ ev'[g][d].tainted = ev[g][d].tainted
  <2> HIDE DEF signal
  <2>1. ev' = [ev EXCEPT ![g][d].signals = Append(@, signal),
                         ![g][d].index = @ + 1,
                         ![g][d].first = NoResult]
    BY DEF PassRegistration, signal
  <2>2. ev \in EvTable
    BY DEF IInv, TypeOK, VarsTyped, EvTable
  <2> QED BY <2>1, <2>2 DEF EvTable, EvaluationLocals
<1>2. pc'[g][d] = IF ev[g][d].index = Len(ev[g][d].snapshot) THEN "recheck" ELSE "pre_version"
  BY DEF PassRegistration, Goto, IInv, TypeOK, VarsTyped
<1>3. ~ev[g][d].tainted
  <2> SUFFICES ASSUME ev[g][d].tainted PROVE FALSE
    OBVIOUS
  <2>1. Current(g, d).ident["config"] < identity[Current(g, d).prim]["config"]
    BY DEF FrameOK, TaintOK, Moved
  <2>2. FieldAt(pc[g][d]) = "config"
    BY DEF FieldAt
  <2>3. identity[Current(g, d).prim]["config"] = Current(g, d).ident["config"]
    BY <2>2 DEF Agrees
  <2>4. Current(g, d) \in Registration
    BY <1>0, FrameTypes DEF Current
  <2>5. Current(g, d).ident["config"] \in Nat
    BY <2>4, EngineConstants DEF Registration, Identity, Fields
  <2> QED BY <2>1, <2>3, <2>5
<1>4. TaintOK(g, d)'
  BY <1>1, <1>3 DEF TaintOK
<1>5. /\ ev[g][d].reasons = <<>>
      /\ Len(ev[g][d].signals) = ev[g][d].index - 1
      /\ SignalsMatch(ev[g][d])
  BY <1>0 DEF FrameOK, SignalsOK
<1>6. signal.primitive_id = ev[g][d].snapshot[ev[g][d].index].id /\ signal.valid
  BY DEF Signal, Current
<1>7. Len(ev'[g][d].signals) = ev[g][d].index /\ SignalsMatch(ev'[g][d])
  <2> HIDE DEF signal
  <2>1. Len(ev'[g][d].signals) = ev[g][d].index
    <3>1. Len(Append(ev[g][d].signals, signal)) = Len(ev[g][d].signals) + 1
      BY <1>0
    <3>2. Len(ev'[g][d].signals) = Len(ev[g][d].signals) + 1
      BY <1>1, <3>1
    <3>3. ev[g][d].index \in Nat
      BY <1>0 DEF EvaluationLocals
    <3> QED BY <1>5, <3>2, <3>3
  <2> SUFFICES ASSUME NEW i \in 1..ev[g][d].index
               PROVE  /\ ev'[g][d].signals[i].primitive_id = ev[g][d].snapshot[i].id
                      /\ ev'[g][d].signals[i].valid
    BY <1>1, <2>1 DEF SignalsMatch
  <2>2. CASE i = ev[g][d].index
    <3>1. i = Len(ev[g][d].signals) + 1
      BY <1>0, <1>5, <2>2
    <3>2. Append(ev[g][d].signals, signal)[i] = signal
      BY <1>0, <3>1
    <3>3. ev'[g][d].signals[i] = signal
      BY <1>1, <3>2
    <3> QED BY <1>6, <2>2, <3>3
  <2>3. CASE i # ev[g][d].index
    <3>1. i \in 1..Len(ev[g][d].signals)
      BY <1>0, <1>5, <2>3
    <3>2. Append(ev[g][d].signals, signal)[i] = ev[g][d].signals[i]
      BY <1>0, <3>1
    <3>3. ev'[g][d].signals[i] = ev[g][d].signals[i]
      BY <1>1, <3>2
    <3> QED BY <1>1, <1>5, <3>1, <3>3 DEF SignalsMatch
  <2> QED BY <2>2, <2>3
<1>8. SignalsOK(g, d)'
  <2>1. CASE ev[g][d].index = Len(ev[g][d].snapshot)
    BY <1>1, <1>2, <1>7, <2>1, QuietPoints DEF SignalsOK
  <2>2. CASE ev[g][d].index # Len(ev[g][d].snapshot)
    BY <1>0, <1>1, <1>2, <1>5, <1>7, <2>2, QuietPoints DEF SignalsOK
  <2> QED BY <2>1, <2>2
<1> QED BY <1>1, <1>4, <1>8

LEMMA ReadLastIdentityFrame ==
  ASSUME IInv, NEW g \in Goroutines, NEW d \in Depths, FrameOK(g, d), ReadLastIdentity(g, d)
  PROVE  /\ SignalsOK(g, d)' /\ TaintOK(g, d)'
         /\ ev'[g][d].snapshot = ev[g][d].snapshot /\ ev'[g][d].epoch = ev[g][d].epoch
<1>1. CASE Agrees(g, d) /\ PassRegistration(g, d)
  BY <1>1, PassKeepsFrame DEF ReadLastIdentity
<1>2. CASE \E data, reason : FailRegistration(g, d, data, reason)
  BY <1>2, FailureKeepsFrame
<1> QED BY <1>1, <1>2 DEF ReadLastIdentity

LEMMA InvokeFrame ==
  ASSUME IInv, NEW g \in Goroutines, NEW d \in Depths, FrameOK(g, d), d = depth[g],
         InvokePrimitiveEvaluation(g, d)
  PROVE  /\ SignalsOK(g, d)' /\ TaintOK(g, d)'
         /\ ev'[g][d].snapshot = ev[g][d].snapshot /\ ev'[g][d].epoch = ev[g][d].epoch
<1>1. callbackEvaluations[g] = 0
  BY InvokeFindsNoCallback DEF InvokePrimitiveEvaluation, IInv
<1>2. UNCHANGED <<ev, identity>>
  BY <1>1 DEF InvokePrimitiveEvaluation
<1>3. \/ pc[g][d] = "invoke1" /\ pc'[g][d] = "running1"
      \/ pc[g][d] = "invoke2" /\ pc'[g][d] = "running2"
  BY <1>1 DEF InvokePrimitiveEvaluation, Goto, IInv, TypeOK, VarsTyped
<1>4. SignalsOK(g, d)'
  BY <1>2, <1>3, QuietPoints DEF FrameOK, SignalsOK, SignalsMatch
<1>5. TaintOK(g, d)'
  BY <1>2, <1>3 DEF FrameOK, TaintOK, Moved, Current
<1> QED BY <1>2, <1>4, <1>5

(* A taint that an evaluation leaves behind is a field that has moved. *)
LEMMA DriftMoves ==
  ASSUME IInv, NEW g \in Goroutines, NEW d \in Depths, SnapshotBehind(g, d),
         pc[g][d] \in LoopPcs, Drifted(Current(g, d))
  PROVE  Moved(g, d, Fields)
<1>1. PICK f \in ExposedFields(Current(g, d).prim) :
        identity[Current(g, d).prim][f] # Current(g, d).ident[f]
  BY DEF Drifted
<1>2. f \in Fields
  BY DEF ExposedFields
<1>3. Current(g, d) \in Registration /\ Behind(Current(g, d).prim, Current(g, d).ident)
  BY FrameTypes DEF Current, SnapshotBehind
<1>4. identity[Current(g, d).prim][f] \in Nat /\ Current(g, d).ident[f] \in Nat
  BY <1>2, <1>3, EngineConstants DEF Registration, Identity, IInv, TypeOK, VarsTyped
<1> QED BY <1>1, <1>2, <1>3, <1>4 DEF Behind, Moved

LEMMA PrimitiveReturnsFrame ==
  ASSUME IInv, NEW g \in Goroutines, NEW d \in Depths, FrameOK(g, d), NEW result,
         PrimitiveReturns(g, d, result)
  PROVE  /\ SignalsOK(g, d)' /\ TaintOK(g, d)'
         /\ ev'[g][d].snapshot = ev[g][d].snapshot /\ ev'[g][d].epoch = ev[g][d].epoch
<1>1. CASE FailRegistration(g, d, FailureData, "primitive failed: evaluation")
  BY <1>1, FailureKeepsFrame
<1>2. CASE ~FailRegistration(g, d, FailureData, "primitive failed: evaluation")
  <2> DEFINE taint == ev[g][d].tainted \/ Drifted(Current(g, d))
  <2>1. ev' = [ev EXCEPT ![g][d].first = result, ![g][d].tainted = taint]
    BY <1>2 DEF PrimitiveReturns
  <2>2. \/ pc[g][d] = "running1" /\ pc'[g][d] = "invoke2"
        \/ pc[g][d] = "running2" /\ pc'[g][d] = "post_version"
    <3>1. \A point : Goto(g, d, point) => pc'[g][d] = point
      BY DEF Goto, IInv, TypeOK, VarsTyped
    <3> QED BY <1>2, <3>1 DEF PrimitiveReturns
  <2>3. UNCHANGED identity
    BY DEF PrimitiveReturns
  <2>4. taint => Moved(g, d, Fields)
    <3>1. pc[g][d] \in LoopPcs
      BY <2>2, QuietPoints
    <3>2. Drifted(Current(g, d)) => Moved(g, d, Fields)
      BY <3>1, DriftMoves DEF FrameOK
    <3>3. ev[g][d].tainted => Moved(g, d, Fields)
      BY <2>2 DEF FrameOK, TaintOK
    <3> QED BY <3>2, <3>3
  <2> HIDE DEF taint
  <2>5. /\ ev'[g][d].tainted = taint
        /\ ev'[g][d].snapshot = ev[g][d].snapshot
        /\ ev'[g][d].epoch = ev[g][d].epoch
        /\ ev'[g][d].index = ev[g][d].index
        /\ ev'[g][d].signals = ev[g][d].signals
        /\ ev'[g][d].reasons = ev[g][d].reasons
    <3>1. ev \in EvTable
      BY DEF IInv, TypeOK, VarsTyped, EvTable
    <3> QED BY <2>1, <3>1 DEF EvTable, EvaluationLocals
  <2>6. SignalsOK(g, d)'
    BY <2>2, <2>5, QuietPoints DEF FrameOK, SignalsOK, SignalsMatch
  <2>7. Moved(g, d, Fields) => Moved(g, d, Fields)'
    BY <2>3, <2>5 DEF Moved, Current
  <2>8. TaintOK(g, d)'
    BY <2>2, <2>4, <2>5, <2>7 DEF TaintOK
  <2> QED BY <2>5, <2>6, <2>8
<1> QED BY <1>1, <1>2

(* What a permission after the loop rests on. *)
LEMMA PermitMeans ==
  ASSUME IInv, NEW g \in Goroutines, NEW d \in Depths, Recheck(g, d), answer'[g][d].permitted
  PROVE  ev[g][d].epoch = configurationEpoch /\ ev[g][d].reasons = <<>>
<1>1. ev[g][d].recursive \in BOOLEAN
  BY FrameTypes DEF EvaluationLocals
<1>2. answer'[g][d] = Verdict(ev[g][d])
  <2> DEFINE verdict == Verdict(ev[g][d])
  <2>1. answer' = [answer EXCEPT ![g][d] = verdict]
    BY DEF Recheck
  <2> HIDE DEF verdict
  <2>2. answer'[g][d] = verdict
    BY <2>1 DEF IInv, TypeOK, VarsTyped
  <2> QED BY <2>2 DEF verdict
<1>3. \A reason : ~PreconditionDenial(ev[g][d].ctx, ContextTime[ev[g][d].ctx], reason).permitted
  BY DEF PreconditionDenial
<1>4. ~ev[g][d].recursive /\ configurationEpoch = ev[g][d].epoch
  BY <1>1, <1>2, <1>3 DEF Verdict
<1>5. Decide(ev[g][d]).permitted
  BY <1>2, <1>4 DEF Verdict
<1>6. Decide(ev[g][d]).permitted => ev[g][d].reasons = <<>>
  BY DEF Decide
<1> QED BY <1>4, <1>5, <1>6

LEMMA RecheckFrame ==
  ASSUME IInv, NEW g \in Goroutines, NEW d \in Depths, FrameOK(g, d), Recheck(g, d)
  PROVE  SignalsOK(g, d)' /\ TaintOK(g, d)' /\ ev'[g][d] = ev[g][d]
<1>1. pc'[g][d] = "decided" /\ UNCHANGED ev
  BY DEF Recheck, Goto, IInv, TypeOK, VarsTyped
<1>2. SignalsOK(g, d)'
  BY <1>1, QuietPoints DEF SignalsOK
<1>3. ev[g][d].tainted => ev[g][d].reasons # <<>>
  BY DEF Recheck, FrameOK, TaintOK
<1>4. TaintOK(g, d)'
  BY <1>1, <1>3, PermitMeans DEF TaintOK
<1> QED BY <1>1, <1>2, <1>4

(* A function returns: its frame is empty again. *)
LEMMA PopFrame ==
  ASSUME IInv, [Next]_vars, NEW g \in Goroutines, NEW d \in Depths, Pop(g, d)
  PROVE  FrameOK(g, d)'
<1>1. pc'[g][d] = "idle"
  BY DEF Pop, Goto, IInv, TypeOK, VarsTyped
<1>2. ev'[g][d] = IdleEvaluation /\ rg'[g][d] = IdleRegistration(SomeId, SomePrimitive)
  BY DEF Pop, IInv, TypeOK, VarsTyped
<1>3. ev'[g][d].snapshot = <<>> /\ ~ev'[g][d].tainted
  BY <1>2 DEF IdleEvaluation
<1>4. EpochOK(g, d)' /\ SnapshotBehind(g, d)' /\ TaintOK(g, d)'
  BY <1>3 DEF EpochOK, SnapshotBehind, TaintOK
<1>5. SignalsOK(g, d)'
  BY <1>1, QuietPoints DEF SignalsOK
<1>6. SomeId \in Ids /\ SomePrimitive \in Primitives
  BY EngineConstants DEF SomeId, SomePrimitive
<1>7. RecordBehind(g, d)'
  BY <1>2, <1>6, NothingRecorded
<1> QED BY <1>4, <1>5, <1>7 DEF FrameOK

(* A step inside RegisterPrimitive: what it records is what it reads. *)
LEMMA RegistrationFrame ==
  ASSUME IInv, [Next]_vars, NEW g \in Goroutines, NEW d \in Depths, FrameOK(g, d),
         \/ ProbeIdentity(g, d)
         \/ \E result : ProbeReturns(g, d, result)
         \/ RecordIdentity(g, d)
         \/ Publish(g, d)
  PROVE  FrameOK(g, d)'
<1>0. rg[g][d] \in RegistrationLocals /\ rg \in RgTable
  BY FrameTypes DEF IInv, TypeOK, VarsTyped, RgTable
<1>1. ev' = ev
  BY DEF ProbeIdentity, ProbeReturns, RecordIdentity, Publish
<1>2. pc'[g][d] \in RegisterPcs
  <2>0. \A point : Goto(g, d, point) => pc'[g][d] = point
    BY DEF Goto, IInv, TypeOK, VarsTyped
  <2>1. {"release", "ck_eval1", "ck_eval2", "rd_version"} \subseteq RegisterPcs
    BY DEF RegisterPcs, ProbePcs, RecordPcs
  <2>2. CASE ProbeIdentity(g, d)
    <3>1. AfterProbe(pc[g][d]) \in RegisterPcs
      BY <2>2 DEF ProbeIdentity, AfterProbe, RegisterPcs, ProbePcs
    <3> QED BY <2>0, <2>1, <2>2, <3>1 DEF ProbeIdentity, RegistrationFails
  <2>3. CASE \E result : ProbeReturns(g, d, result)
    BY <2>0, <2>1, <2>3 DEF ProbeReturns, RegistrationFails
  <2>4. CASE RecordIdentity(g, d)
    <3>1. AfterRecord(pc[g][d]) \in RegisterPcs
      BY <2>4 DEF RecordIdentity, AfterRecord, RegisterPcs, RecordPcs
    <3> QED BY <2>0, <2>1, <2>4, <3>1 DEF RecordIdentity, RegistrationFails
  <2>5. CASE Publish(g, d)
    BY <2>0, <2>1, <2>5 DEF Publish
  <2> QED BY <2>2, <2>3, <2>4, <2>5
<1>3. EpochOK(g, d)' /\ SnapshotBehind(g, d)'
  BY <1>1, EpochKept, SnapshotBehindKept DEF FrameOK
<1>4. SignalsOK(g, d)' /\ TaintOK(g, d)'
  <2>1. pc'[g][d] \notin LoopPcs \cup {"recheck", "decided"}
    BY <1>2, QuietPoints
  <2> QED BY <2>1, QuietPoints DEF SignalsOK, TaintOK
<1>5. RecordBehind(g, d)'
  <2>1. CASE /\ rg'[g][d].prim = rg[g][d].prim
             /\ rg'[g][d].ident = rg[g][d].ident
    <3>1. \A f \in Fields : rg[g][d].ident[f] \in Nat
      BY <1>0, EngineConstants DEF RegistrationLocals, Identity
    <3>2. rg[g][d].prim \in Primitives
      BY <1>0 DEF RegistrationLocals
    <3> QED BY <2>1, <3>1, <3>2, IdentityMoves DEF FrameOK, RecordBehind, Behind
  <2>2. CASE RecordIdentity(g, d) /\ rg' # rg
    <3> DEFINE f == FieldAt(pc[g][d])
               answered == identity[rg[g][d].prim][f]
    <3>1. rg' = [rg EXCEPT ![g][d].ident[f] = answered]
      BY <2>2 DEF RecordIdentity, RegistrationFails
    <3>2. f \in Fields
      BY <2>2 DEF RecordIdentity, RecordPcs, FieldAt, Fields
    <3>3. identity' = identity
      BY <2>2 DEF RecordIdentity
    <3>4. rg[g][d].prim \in Primitives
      BY <1>0 DEF RegistrationLocals
    <3>5. answered \in Nat
      BY <3>2, <3>4, IdentityMoves
    <3> HIDE DEF f, answered
    <3>6. /\ rg'[g][d].prim = rg[g][d].prim
          /\ rg'[g][d].ident = [rg[g][d].ident EXCEPT ![f] = answered]
      BY <1>0, <3>1 DEF RgTable, RegistrationLocals
    <3>7. \A k \in Fields : rg'[g][d].ident[k] = IF k = f THEN answered ELSE rg[g][d].ident[k]
      BY <1>0, <3>6 DEF RegistrationLocals, Identity
    <3>8. \A k \in Fields : rg'[g][d].ident[k] <= identity[rg[g][d].prim][k]
      <4> SUFFICES ASSUME NEW k \in Fields
                   PROVE  rg'[g][d].ident[k] <= identity[rg[g][d].prim][k]
        OBVIOUS
      <4>1. CASE k = f
        BY <3>5, <3>7, <4>1 DEF answered
      <4>2. CASE k # f
        BY <3>7, <4>2 DEF FrameOK, RecordBehind, Behind
      <4> QED BY <4>1, <4>2
    <3> QED BY <3>3, <3>6, <3>8 DEF RecordBehind, Behind
  <2>3. ASSUME ~(RecordIdentity(g, d) /\ rg' # rg)
        PROVE  rg'[g][d].prim = rg[g][d].prim /\ rg'[g][d].ident = rg[g][d].ident
    <3>1. CASE rg' = rg
      BY <3>1
    <3>2. ASSUME NEW value, rg' = [rg EXCEPT ![g][d].fingerprint = value]
          PROVE  rg'[g][d].prim = rg[g][d].prim /\ rg'[g][d].ident = rg[g][d].ident
      BY <1>0, <3>2 DEF RgTable, RegistrationLocals
    <3>3. ASSUME NEW value, rg' = [rg EXCEPT ![g][d].compliant = value]
          PROVE  rg'[g][d].prim = rg[g][d].prim /\ rg'[g][d].ident = rg[g][d].ident
      BY <1>0, <3>3 DEF RgTable, RegistrationLocals
    <3>4. ASSUME NEW value, rg' = [rg EXCEPT ![g][d].first = value]
          PROVE  rg'[g][d].prim = rg[g][d].prim /\ rg'[g][d].ident = rg[g][d].ident
      BY <1>0, <3>4 DEF RgTable, RegistrationLocals
    <3>5. \/ rg' = rg
          \/ \E value : rg' = [rg EXCEPT ![g][d].fingerprint = value]
          \/ \E value : rg' = [rg EXCEPT ![g][d].compliant = value]
          \/ \E value : rg' = [rg EXCEPT ![g][d].first = value]
      <4>1. CASE ProbeIdentity(g, d)
        BY <4>1, Zenon DEF ProbeIdentity, RegistrationFails
      <4>2. \A result : ProbeReturns(g, d, result) =>
              rg' = rg \/ \E value : rg' = [rg EXCEPT ![g][d].first = value]
        BY Zenon DEF ProbeReturns, RegistrationFails
      <4>3. Publish(g, d) => rg' = rg
        BY DEF Publish
      <4> QED BY <2>3, <4>1, <4>2, <4>3
    <3> QED BY <3>1, <3>2, <3>3, <3>4, <3>5
  <2> QED BY <2>1, <2>2, <2>3
<1> QED BY <1>3, <1>4, <1>5 DEF FrameOK

LEMMA StepKeepsFrame ==
  ASSUME IInv, [Next]_vars, NEW g \in Goroutines, NEW d \in Depths, FrameOK(g, d), Step(g, d)
  PROVE  FrameOK(g, d)'
<1>0. d = depth[g]
  BY DEF Step
<1>1. ASSUME SignalsOK(g, d)', TaintOK(g, d)', ev'[g][d].snapshot = ev[g][d].snapshot,
             ev'[g][d].epoch = ev[g][d].epoch, rg' = rg
      PROVE  FrameOK(g, d)'
  BY <1>1, EpochKept, SnapshotBehindKept, RecordBehindKept DEF FrameOK
<1>2. CASE ReadIdentity(g, d)
  <2>1. rg' = rg
    BY <1>2 DEF ReadIdentity
  <2> QED BY <1>1, <1>2, <2>1, ReadIdentityFrame
<1>3. CASE ReadLastIdentity(g, d)
  <2>1. rg' = rg
    BY <1>3 DEF ReadLastIdentity
  <2> QED BY <1>1, <1>3, <2>1, ReadLastIdentityFrame
<1>4. CASE InvokePrimitiveEvaluation(g, d)
  <2>1. rg' = rg
    BY <1>4 DEF InvokePrimitiveEvaluation
  <2> QED BY <1>0, <1>1, <1>4, <2>1, InvokeFrame
<1>5. ASSUME NEW result, PrimitiveReturns(g, d, result) PROVE FrameOK(g, d)'
  <2>1. rg' = rg
    BY <1>5 DEF PrimitiveReturns
  <2> QED BY <1>1, <1>5, <2>1, PrimitiveReturnsFrame
<1>6. CASE Recheck(g, d)
  <2>1. rg' = rg
    BY <1>6 DEF Recheck
  <2> QED BY <1>1, <1>6, <2>1, RecheckFrame
<1>7. CASE EvaluateReturns(g, d) \/ Release(g, d)
  BY <1>7, PopFrame DEF EvaluateReturns, Release
<1>8. CASE \/ ProbeIdentity(g, d)
           \/ \E result : ProbeReturns(g, d, result)
           \/ RecordIdentity(g, d)
           \/ Publish(g, d)
  BY <1>8, RegistrationFrame
<1> QED BY <1>2, <1>3, <1>4, <1>5, <1>6, <1>7, <1>8 DEF Step
-----------------------------------------------------------------------------
(* The invariant of the data. *)

LEMMA InitDataInv == Init => DataInv
<1> SUFFICES ASSUME Init PROVE DataInv
  OBVIOUS
<1>1. RegistrationsBehind
  BY DEF Init, RegistrationsBehind
<1>2. ASSUME NEW g \in Goroutines, NEW d \in Depths PROVE FrameOK(g, d)
  <2>1. /\ pc[g][d] = "idle"
        /\ ev[g][d].snapshot = <<>> /\ ~ev[g][d].tainted
    BY DEF Init, IdleEvaluation
  <2>2. RecordBehind(g, d)
    <3>1. SomePrimitive \in Primitives
      BY EngineConstants DEF SomePrimitive
    <3> QED BY <3>1 DEF Init, RecordBehind, Behind, IdleRegistration, NoIdentity
  <2> QED BY <2>1, <2>2, QuietPoints
          DEF FrameOK, EpochOK, SignalsOK, SnapshotBehind, TaintOK
<1> QED BY <1>1, <1>2 DEF DataInv

(* A recorded identity is published, or one that was published moves on. *)
LEMMA RegistrationsKept ==
  ASSUME IInv, DataInv, [Next]_vars
  PROVE  RegistrationsBehind'
<1>1. registrations \in Seq(Registration)
  BY DEF IInv, TypeOK, VarsTyped
<1>3. ASSUME NEW r \in Registration, Behind(r.prim, r.ident)
      PROVE  \A f \in Fields : r.ident[f] <= identity'[r.prim][f]
  BY <1>3, BehindMoves DEF Behind, Registration
<1>4. \A i \in 1..Len(registrations), f \in Fields :
        registrations[i].ident[f] <= identity'[registrations[i].prim][f]
  BY <1>1, <1>3 DEF DataInv, RegistrationsBehind
<1>5. CASE UNCHANGED configuration
  BY <1>4, <1>5 DEF configuration, RegistrationsBehind, Behind
<1>6. CASE Clears
  BY <1>6 DEF Clears, RegistrationsBehind
<1>7. ASSUME NEW g \in Goroutines, NEW d \in Depths, Publishes(g, d)
      PROVE  RegistrationsBehind'
  <2> DEFINE r == Published(g, d)
  <2>1. r \in Registration /\ Behind(r.prim, r.ident)
    BY FrameTypes DEF Published, Registration, RegistrationLocals, DataInv, FrameOK, RecordBehind
  <2>2. registrations' = Append(registrations, r)
    BY <1>7 DEF Publishes
  <2> HIDE DEF r
  <2>3. \A f \in Fields : r.ident[f] <= identity'[r.prim][f]
    BY <1>3, <2>1
  <2>4. /\ Len(registrations') = Len(registrations) + 1
        /\ \A i \in 1..Len(registrations) : registrations'[i] = registrations[i]
        /\ registrations'[Len(registrations) + 1] = r
    BY <1>1, <2>1, <2>2
  <2>5. Len(registrations) \in Nat
    BY <1>1
  <2>6. ASSUME NEW i \in 1..Len(registrations')
        PROVE  \A f \in Fields : registrations'[i].ident[f] <= identity'[registrations'[i].prim][f]
    <3>1. CASE i \in 1..Len(registrations)
      BY <1>4, <2>4, <3>1
    <3>2. CASE i = Len(registrations) + 1
      BY <2>3, <2>4, <3>2
    <3> QED BY <2>4, <2>5, <3>1, <3>2
  <2> QED BY <2>6 DEF RegistrationsBehind, Behind
<1> QED BY <1>5, <1>6, <1>7, ConfigurationMoves

LEMMA NextKeepsDataInv == IInv /\ DataInv /\ [Next]_vars => DataInv'
<1> SUFFICES ASSUME IInv, DataInv, [Next]_vars, NEW g \in Goroutines, NEW d \in Depths
             PROVE  FrameOK(g, d)'
  BY RegistrationsKept DEF DataInv
<1>0. FrameOK(g, d) /\ RegistrationsBehind
  BY DEF DataInv
<1>1. ASSUME NEW h \in Goroutines, Call(h) PROVE FrameOK(g, d)'
  BY <1>0, <1>1, CallMovesFrames, RestKeepsFrame, PushedKeepsFrame
<1>2. ASSUME NEW h \in Goroutines, NEW e \in Depths, Step(h, e) PROVE FrameOK(g, d)'
  <2>1. CASE g = h /\ d = e
    BY <1>0, <1>2, <2>1, StepKeepsFrame
  <2>2. CASE ~(g = h /\ d = e)
    BY <1>0, <1>2, <2>2, StepMovesFrames, RestKeepsFrame
  <2> QED BY <2>1, <2>2
<1>3. UNCHANGED <<pc, ev, rg, answer>> => FrameOK(g, d)'
  BY <1>0, RestKeepsFrame DEF Rests, SameLocals
<1>4. ASSUME NEW prim \in Primitives, NEW f \in Fields, Drift(prim, f) PROVE FrameOK(g, d)'
  BY <1>3, <1>4 DEF Drift
<1>5. UNCHANGED vars => FrameOK(g, d)'
  BY <1>3 DEF vars
<1> QED BY <1>1, <1>2, <1>4, <1>5 DEF Next

LEMMA DataInvariance == Spec => []DataInv
BY InitDataInv, NextKeepsDataInv, Invariance, PTL DEF Spec

(* An evaluation whose epoch is the engine's holds the engine's             *)
(* registrations: comparing epochs after the loop misses no Clear and no    *)
(* RegisterPrimitive.                                                       *)
THEOREM EpochIdentifies == Spec => []EpochIdentifiesConfiguration
<1>1. DataInv => EpochIdentifiesConfiguration
  BY DEF DataInv, FrameOK, EpochOK, EpochIdentifiesConfiguration
<1> QED BY <1>1, DataInvariance, PTL

(* No drift between any two callbacks of any number of goroutines gets a    *)
(* permission for a primitive that was not what it is registered as when    *)
(* it was evaluated.                                                        *)
THEOREM PermitsAreUntainted == Spec => []PermitUntainted
<1>1. DataInv => PermitUntainted
  BY DEF DataInv, FrameOK, TaintOK, PermitUntainted
<1> QED BY <1>1, DataInvariance, PTL

(* Only Recheck decides after a loop. *)
LEMMA RecheckDecides ==
  ASSUME IInv, [Next]_vars, NEW g \in Goroutines, NEW d \in Depths,
         pc[g][d] = "recheck", pc'[g][d] = "decided"
  PROVE  Recheck(g, d)
<1>0. depth[g] >= d /\ depth[g] \in Nat
  <2>1. depth[g] \in Nat /\ d \in Nat
    BY EngineConstants DEF IInv, TypeOK, VarsTyped, Depths
  <2>2. ~(depth[g] < d)
    BY DEF IInv, TypeOK, StackOK
  <2> QED BY <2>1, <2>2
<1>1. ASSUME NEW h \in Goroutines, Call(h) PROVE FALSE
  <2>1. \A point : Push(h, point) => pc'[g][d] = pc[g][d]
    BY <1>0 DEF Push, Goto, IInv, TypeOK, VarsTyped, Depths
  <2> QED BY <1>1, <2>1
          DEF Call, EvaluateRefusesInput, EvaluateRefusesRecursion, EvaluateRefusesEmpty,
              EvaluateBegins, Refuse, RegisterBegins, MutationRefused, Clear
<1>2. ASSUME NEW h \in Goroutines, NEW e \in Depths, Step(h, e) PROVE Recheck(g, d)
  <2>1. h = g /\ e = d
    BY <1>2, StepMovesFrames DEF Rests
  <2> QED BY <1>2, <2>1
          DEF Step, ReadIdentity, ReadLastIdentity, InvokePrimitiveEvaluation, PrimitiveReturns,
              EvaluateReturns, ProbeIdentity, ProbeReturns, RecordIdentity, Publish, Release,
              RecordPcs
<1>3. ASSUME NEW prim \in Primitives, NEW f \in Fields, Drift(prim, f) PROVE FALSE
  BY <1>3 DEF Drift
<1>4. UNCHANGED vars => FALSE
  BY DEF vars
<1> QED BY <1>1, <1>2, <1>3, <1>4 DEF Next

(* A permission covers the configuration in force when it is given: the     *)
(* whole of it, in registration order, with a valid signal of each.         *)
THEOREM PermitsCoverConfiguration == Spec => PermitCoversConfiguration
<1>1. ASSUME IInv, DataInv, [Next]_vars, NEW g \in Goroutines, NEW d \in Depths,
             pc[g][d] = "recheck", pc'[g][d] = "decided", answer'[g][d].permitted
      PROVE  /\ registrations # <<>>
             /\ ev[g][d].snapshot = registrations
             /\ Len(ev[g][d].signals) = Len(registrations)
             /\ \A i \in DOMAIN registrations :
                  /\ ev[g][d].signals[i].primitive_id = registrations[i].id
                  /\ ev[g][d].signals[i].valid
  <2>1. ev[g][d].epoch = configurationEpoch /\ ev[g][d].reasons = <<>>
    BY <1>1, RecheckDecides, PermitMeans
  <2>2. ev[g][d].snapshot # <<>>
    BY <1>1 DEF IInv, TypeOK, SnapshotOK, EvaluatePcs
  <2>3. ev[g][d].snapshot = registrations
    BY <1>1, <2>1, <2>2 DEF DataInv, FrameOK, EpochOK
  <2>4. Len(ev[g][d].signals) = Len(ev[g][d].snapshot) /\ SignalsMatch(ev[g][d])
    BY <1>1, <2>1 DEF DataInv, FrameOK, SignalsOK
  <2>5. DOMAIN registrations = 1..Len(registrations)
    BY <1>1 DEF IInv, TypeOK, VarsTyped
  <2> QED BY <2>2, <2>3, <2>4, <2>5 DEF SignalsMatch
<1>2. IInv /\ DataInv /\ [Next]_vars =>
        [\A g \in Goroutines, d \in Depths :
           (pc[g][d] = "recheck" /\ pc'[g][d] = "decided" /\ answer'[g][d].permitted)
             => /\ registrations # <<>>
                /\ ev[g][d].snapshot = registrations
                /\ Len(ev[g][d].signals) = Len(registrations)
                /\ \A i \in DOMAIN registrations :
                     /\ ev[g][d].signals[i].primitive_id = registrations[i].id
                     /\ ev[g][d].signals[i].valid]_vars
  BY <1>1
<1> QED BY <1>2, Invariance, DataInvariance, PTL DEF Spec, PermitCoversConfiguration
=============================================================================
