--------------------------- MODULE GovernanceEngine ---------------------------
(***************************************************************************)
(* The governance evaluation engine (core/governance_engine.go) with the   *)
(* compliance probe registration runs (core/compliance_checker.go) and the *)
(* callbacks into user primitives (core/primitive_contracts.go).           *)
(*                                                                         *)
(* Every section under ge.mu is one atomic step.  The lock is never held   *)
(* while a primitive's code runs, so each callback is a program point of   *)
(* its own: other goroutines move while it runs, the primitive's identity  *)
(* may drift, and the callback itself may call the engine again, which     *)
(* pushes a frame on the goroutine's call stack.  Frame d of goroutine g   *)
(* has its program counter in pc[g][d], the locals of evaluate in ev[g][d] *)
(* and those of RegisterPrimitive in rg[g][d]; answer[g][d] is the decision *)
(* an evaluation is about to return.                                       *)
(***************************************************************************)
EXTENDS ProofTheory

CONSTANTS
  Goroutines,
  Ids,              \* registration IDs
  Primitives,       \* primitive objects handed to RegisterPrimitive
  Exposes,          \* the optional callbacks each one implements
  Payloads,         \* metadata and evidence of an evaluation result
  FailureData,      \* metadata and evidence of a failure signal
  Contexts,         \* contexts with no validation issue
  InvalidContexts,  \* contexts with a ValidationError
  Times,            \* logical times
  ContextTime,      \* the logical time bound to each context
  NoResult,         \* a panicking Evaluate, or a malformed result
  MaxDepth,         \* bound: nested engine calls on one goroutine
  MaxDrift,         \* bound: changes of one identity field
  MaxEpoch          \* bound: configuration changes

OptionalCallbacks == {"name", "source", "config"}
Fields == {"version", "source", "config"}

ASSUME EngineConstants ==
  /\ Ids # {}
  /\ Primitives # {}
  /\ Exposes \in [Primitives -> SUBSET OptionalCallbacks]
  /\ Contexts \cap InvalidContexts = {}
  /\ Contexts \subseteq Values
  /\ NoContext \notin InvalidContexts
  /\ Payloads \subseteq Values
  /\ FailureData \in Values \ Uncommittable
  /\ ContextTime \in [Contexts \cup InvalidContexts -> Times]
  /\ NoResult \notin [valid : BOOLEAN, data : Payloads]
  /\ MaxDepth \in Nat \ {0}
  /\ MaxDrift \in Nat
  /\ MaxEpoch \in Nat

VARIABLES
  registrations,                  \* ge.registrations
  configurationEpoch,             \* ge.configurationEpoch
  registrationActive,             \* ge.registrationActive
  registrationMutationAttempted,  \* ge.registrationMutationAttempted
  callbackEvaluations,            \* ge.callbackEvaluations: frame per goroutine, 0 if absent
  identity,                       \* what the callbacks of each primitive answer now
  depth,                          \* frames on each goroutine's stack
  pc, ev, rg, answer

configuration == <<registrations, configurationEpoch>>
guard == <<registrationActive, registrationMutationAttempted>>
vars == <<configuration, guard, callbackEvaluations, identity, depth, pc, ev, rg, answer>>

Depths == 1..MaxDepth
Results == [valid : BOOLEAN, data : Payloads]
Identity == [Fields -> 0..MaxDrift]
Registration == [id : Ids, prim : Primitives, ident : Identity]

EvaluatePcs ==
  {"pre_version", "pre_source", "pre_config", "invoke1", "running1", "invoke2", "running2",
   "post_version", "post_source", "post_config", "recheck", "decided"}
ProbePcs == {"ck_name", "ck_version", "ck_config", "ck_config2", "ck_source", "ck_eval1", "ck_eval2"}
RecordPcs == {"rd_version", "rd_source", "rd_config"}
RegisterPcs == ProbePcs \cup RecordPcs \cup {"publish", "release"}
Pcs == EvaluatePcs \cup RegisterPcs \cup {"idle"}

(* The identity field that is read at a program point. *)
FieldAt(point) ==
  CASE point \in {"pre_version", "post_version", "ck_version", "rd_version"} -> "version"
    [] point \in {"pre_source", "post_source", "ck_source", "rd_source"} -> "source"
    [] point \in {"pre_config", "post_config", "ck_config", "ck_config2", "rd_config"} -> "config"
    [] OTHER -> "name"

(* The callbacks a primitive has: Version is part of the basic interface. *)
Callbacks(prim) == {"version"} \cup Exposes[prim]
ExposedFields(prim) == Fields \cap Callbacks(prim)

NoDecision == [permitted |-> FALSE, reasons |-> <<>>, signals |-> <<>>, proof |-> NoProof]

IdleEvaluation ==
  [ctx |-> NoContext, snapshot |-> <<>>, epoch |-> 0, index |-> 0, first |-> NoResult,
   signals |-> <<>>, reasons |-> <<>>, recursive |-> FALSE, tainted |-> FALSE]

NoIdentity == [f \in Fields |-> 0]
IdleRegistration(id, prim) ==
  [id |-> id, prim |-> prim, first |-> NoResult, fingerprint |-> 0, compliant |-> TRUE,
   ident |-> NoIdentity]
SomeId == CHOOSE id \in Ids : TRUE
SomePrimitive == CHOOSE prim \in Primitives : TRUE

Init ==
  /\ registrations = <<>>
  /\ configurationEpoch = 0
  /\ registrationActive = FALSE
  /\ registrationMutationAttempted = FALSE
  /\ callbackEvaluations = [g \in Goroutines |-> 0]
  /\ identity = [prim \in Primitives |-> NoIdentity]
  /\ depth = [g \in Goroutines |-> 0]
  /\ pc = [g \in Goroutines |-> [d \in Depths |-> "idle"]]
  /\ ev = [g \in Goroutines |-> [d \in Depths |-> IdleEvaluation]]
  /\ rg = [g \in Goroutines |-> [d \in Depths |-> IdleRegistration(SomeId, SomePrimitive)]]
  /\ answer = [g \in Goroutines |-> [d \in Depths |-> NoDecision]]
-----------------------------------------------------------------------------
(* Calls and returns. *)

(* The registration an evaluate frame is at. *)
Current(g, d) == ev[g][d].snapshot[ev[g][d].index]

(* The primitive whose callback a frame is about to make or is making. *)
Primitive(g, d) == IF pc[g][d] \in RegisterPcs THEN rg[g][d].prim ELSE Current(g, d).prim

(* User code runs: between two lock sections a callback of the primitive is *)
(* executing, if the primitive has that callback at all.                    *)
InCallback(g, d) ==
  \/ pc[g][d] \in {"running1", "running2", "ck_eval1", "ck_eval2"}
  \/ /\ pc[g][d] \in {"pre_version", "pre_source", "pre_config",
                      "post_version", "post_source", "post_config"} \cup ProbePcs \cup RecordPcs
     /\ FieldAt(pc[g][d]) \in Callbacks(Primitive(g, d))

(* A goroutine may call the engine from the outside, or from a callback. *)
MayCall(g) == depth[g] > 0 => InCallback(g, depth[g])

Goto(g, d, point) == pc' = [pc EXCEPT ![g][d] = point]

(* Enter a function: a new frame starts at a program point. *)
Push(g, point) ==
  /\ depth[g] < MaxDepth
  /\ depth' = [depth EXCEPT ![g] = @ + 1]
  /\ Goto(g, depth[g] + 1, point)

Pop(g, d) ==
  /\ depth' = [depth EXCEPT ![g] = d - 1]
  /\ Goto(g, d, "idle")
  /\ ev' = [ev EXCEPT ![g][d] = IdleEvaluation]
  /\ rg' = [rg EXCEPT ![g][d] = IdleRegistration(SomeId, SomePrimitive)]
  /\ answer' = [answer EXCEPT ![g][d] = NoDecision]
-----------------------------------------------------------------------------
(* Evaluation. *)

(* preconditionDenial: the context is committed if it is there and valid. *)
PreconditionDenial(ctx, time, reason) ==
  LET proof == DenialProof(<<reason>>, IF ctx \in Contexts THEN ctx ELSE NoContext, time)
  IN  [permitted |-> FALSE,
       reasons   |-> IF proof = NoProof THEN <<reason, "proof generation failed">> ELSE <<reason>>,
       signals   |-> <<>>,
       proof     |-> proof]

(* An evaluation that is denied before it has a snapshot. *)
Refuse(g, ctx, time, reason) ==
  /\ Push(g, "decided")
  /\ answer' = [answer EXCEPT ![g][depth[g] + 1] = PreconditionDenial(ctx, time, reason)]

(* Evaluate and EvaluateWithLogicalTime up to the lock: a nil context, a    *)
(* time that is not the context's, or an invalid context is denied at once. *)
EvaluateRefusesInput(g, ctx, time) ==
  /\ MayCall(g)
  /\ ctx \in Contexts => time # ContextTime[ctx]
  /\ Refuse(g, ctx, IF ctx = NoContext THEN time ELSE ContextTime[ctx],
            CASE ctx = NoContext -> "governance context is required"
              [] ctx # NoContext /\ time # ContextTime[ctx] -> "logical time does not match"
              [] OTHER -> "invalid context")
  /\ UNCHANGED <<configuration, guard, callbackEvaluations, identity, ev, rg>>

(* Mutations: the test for recursion, or for registrations, is missing. *)
EvaluatesRecursively(g) == registrations # <<>>
EvaluatesEmpty(g) == callbackEvaluations[g] = 0

(* What the lock section of evaluate requires to take a snapshot. *)
Evaluates(g) == callbackEvaluations[g] = 0 /\ registrations # <<>>

(* The lock section of evaluate finds this goroutine inside an Evaluate     *)
(* callback: the evaluation below is marked, this one denied.               *)
EvaluateRefusesRecursion(g, ctx) ==
  /\ MayCall(g)
  /\ callbackEvaluations[g] # 0
  /\ ev' = [ev EXCEPT ![g][callbackEvaluations[g]].recursive = TRUE]
  /\ Refuse(g, ctx, ContextTime[ctx], "recursive governance evaluation is not permitted")
  /\ UNCHANGED <<configuration, guard, callbackEvaluations, identity, rg>>

(* The lock section takes the snapshot; with no registration it is denied. *)
EvaluateRefusesEmpty(g, ctx) ==
  /\ MayCall(g)
  /\ callbackEvaluations[g] = 0
  /\ registrations = <<>>
  /\ Refuse(g, ctx, ContextTime[ctx], "at least one governance primitive is required")
  /\ UNCHANGED <<configuration, guard, callbackEvaluations, identity, ev, rg>>

EvaluateBegins(g, ctx) ==
  /\ MayCall(g)
  /\ Evaluates(g)
  /\ Push(g, "pre_version")
  /\ ev' = [ev EXCEPT ![g][depth[g] + 1] =
              [IdleEvaluation EXCEPT !.ctx = ctx, !.snapshot = registrations,
                                     !.epoch = configurationEpoch, !.index = 1]]
  /\ UNCHANGED <<configuration, guard, callbackEvaluations, identity, rg, answer>>

AfterRead(point) ==
  CASE point = "pre_version"  -> "pre_source"
    [] point = "pre_source"   -> "pre_config"
    [] point = "pre_config"   -> "invoke1"
    [] point = "post_version" -> "post_source"
    [] point = "post_source"  -> "post_config"

(* Why a primitive fails, without the detail the code appends. *)
PrimitiveFailures ==
  {"primitive failed: identity", "primitive failed: evaluation", "primitive failed: denied",
   "primitive failed: recursive callback"}

Signal(registration, valid, data) ==
  [primitive_id |-> registration.id, version |-> registration.ident["version"],
   valid |-> valid, data |-> data]

(* The loop of evaluate stops at the first primitive that fails. *)
FailRegistration(g, d, data, reason) ==
  /\ ev' = [ev EXCEPT ![g][d].signals = Append(@, Signal(Current(g, d), FALSE, data)),
                      ![g][d].reasons = <<reason>>]
  /\ Goto(g, d, "recheck")

(* The signal of a primitive that passed; the loop goes on with the next.  *)
PassRegistration(g, d) ==
  /\ ev' = [ev EXCEPT ![g][d].signals = Append(@, Signal(Current(g, d), TRUE, ev[g][d].first.data)),
                      ![g][d].index = @ + 1,
                      ![g][d].first = NoResult]
  /\ Goto(g, d, IF ev[g][d].index = Len(ev[g][d].snapshot) THEN "recheck" ELSE "pre_version")

(* Mutation: the source fingerprint is not compared. *)
AgreesExceptSource(g, d) ==
  LET f == FieldAt(pc[g][d])
  IN  f # "source" => identity[Current(g, d).prim][f] = Current(g, d).ident[f]

(* The callback read at this point answers what was registered. *)
Agrees(g, d) ==
  LET f == FieldAt(pc[g][d])
  IN  identity[Current(g, d).prim][f] = Current(g, d).ident[f]

(* A version, source or configuration read before or after the evaluations. *)
(* A callback that panics, and source or configuration that no longer       *)
(* validates, fails like drift; without the callback there is nothing to    *)
(* read and the fingerprint stays the empty one.                            *)
ReadIdentity(g, d) ==
  /\ pc[g][d] \in {"pre_version", "pre_source", "pre_config", "post_version", "post_source"}
  /\ \/ Agrees(g, d) /\ Goto(g, d, AfterRead(pc[g][d])) /\ UNCHANGED ev
     \/ /\ FieldAt(pc[g][d]) \in Callbacks(Current(g, d).prim)
        /\ FailRegistration(g, d, FailureData, "primitive failed: identity")
  /\ UNCHANGED <<configuration, guard, callbackEvaluations, identity, depth, rg, answer>>

(* The last read, of the configuration, and the signal built after it. *)
ReadLastIdentity(g, d) ==
  /\ pc[g][d] = "post_config"
  /\ \/ Agrees(g, d) /\ ev[g][d].first.valid /\ PassRegistration(g, d)
     \/ /\ Agrees(g, d)
        /\ ~ev[g][d].first.valid
        /\ FailRegistration(g, d, ev[g][d].first.data, "primitive failed: denied")
     \/ /\ "config" \in Callbacks(Current(g, d).prim)
        /\ FailRegistration(g, d, FailureData, "primitive failed: identity")
  /\ UNCHANGED <<configuration, guard, callbackEvaluations, identity, depth, rg, answer>>

(* invokePrimitiveEvaluation before the callback: the goroutine enters the  *)
(* table, unless an evaluation of it is there already.                      *)
InvokePrimitiveEvaluation(g, d) ==
  /\ pc[g][d] \in {"invoke1", "invoke2"}
  /\ IF callbackEvaluations[g] # 0
     THEN /\ ev' = [ev EXCEPT
                      ![g][callbackEvaluations[g]].recursive = TRUE,
                      ![g][d].signals = Append(@, Signal(Current(g, d), FALSE, FailureData)),
                      ![g][d].reasons = <<"primitive failed: recursive callback">>]
          /\ Goto(g, d, "recheck")
          /\ UNCHANGED callbackEvaluations
     ELSE /\ callbackEvaluations' = [callbackEvaluations EXCEPT ![g] = d]
          /\ Goto(g, d, IF pc[g][d] = "invoke1" THEN "running1" ELSE "running2")
          /\ UNCHANGED ev
  /\ UNCHANGED <<configuration, guard, identity, depth, rg, answer>>

(* Mutation: no deferred delete. *)
LeaveCallbackForgotten(g, d) == UNCHANGED callbackEvaluations

(* The deferred delete of invokePrimitiveEvaluation. *)
LeaveCallback(g, d) ==
  callbackEvaluations' =
    [callbackEvaluations EXCEPT ![g] = IF @ = d THEN 0 ELSE @]

(* Some field of the primitive is not what was registered. *)
Drifted(registration) ==
  \E f \in ExposedFields(registration.prim) :
    identity[registration.prim][f] # registration.ident[f]

(* Evaluate returns a result or panics; the result is normalised and, the   *)
(* second time, compared with the first.  tainted is a ghost: it remembers  *)
(* that an evaluation ended under an identity that was not the registered.  *)
PrimitiveReturns(g, d, result) ==
  /\ pc[g][d] \in {"running1", "running2"}
  /\ LeaveCallback(g, d)
  /\ LET taint == ev[g][d].tainted \/ Drifted(Current(g, d))
     IN  \/ /\ result # NoResult
            /\ \/ pc[g][d] = "running1" /\ Goto(g, d, "invoke2")
               \/ pc[g][d] = "running2" /\ result = ev[g][d].first /\ Goto(g, d, "post_version")
            /\ ev' = [ev EXCEPT ![g][d].first = result, ![g][d].tainted = taint]
         \/ /\ \/ result = NoResult
               \/ pc[g][d] = "running2" /\ result # ev[g][d].first
            /\ FailRegistration(g, d, FailureData, "primitive failed: evaluation")
  /\ UNCHANGED <<configuration, guard, identity, depth, rg, answer>>

(* GenerateProofForContext over the registrations that were evaluated. *)
EvaluationProof(locals) ==
  LET n == Len(locals.signals)
  IN  GenerateProofForContext(
        locals.reasons = <<>>,
        [i \in 1..n |-> locals.snapshot[i].id],
        locals.signals,
        [id \in {locals.snapshot[i].id : i \in 1..n} |->
           (CHOOSE r \in {locals.snapshot[i] : i \in 1..n} : r.id = id).ident["version"]],
        locals.reasons, locals.ctx, ContextTime[locals.ctx])

(* Mutation: an error of the proof generator is ignored. *)
DecideUnproved(locals) ==
  [permitted |-> locals.reasons = <<>>, reasons |-> locals.reasons,
   signals |-> locals.signals, proof |-> EvaluationProof(locals)]

(* The decision after the loop: a proof that cannot be made denies. *)
Decide(locals) ==
  LET proof == EvaluationProof(locals)
  IN  IF proof = NoProof
      THEN [permitted |-> FALSE, reasons |-> Append(locals.reasons, "proof generation failed"),
            signals |-> <<>>, proof |-> NoProof]
      ELSE [permitted |-> locals.reasons = <<>>, reasons |-> locals.reasons,
            signals |-> proof.signals, proof |-> proof]

(* Mutations: the verdict forgets the mark, or the epoch. *)
VerdictOfEpoch(locals) ==
  IF configurationEpoch # locals.epoch
  THEN PreconditionDenial(locals.ctx, ContextTime[locals.ctx],
                          "governance configuration changed during evaluation")
  ELSE Decide(locals)

VerdictOfRecursion(locals) ==
  IF locals.recursive
  THEN PreconditionDenial(locals.ctx, ContextTime[locals.ctx],
                          "recursive governance evaluation was attempted")
  ELSE Decide(locals)

(* What evaluate answers after the loop. *)
Verdict(locals) ==
  LET refuse(reason) == PreconditionDenial(locals.ctx, ContextTime[locals.ctx], reason)
  IN  CASE locals.recursive -> refuse("recursive governance evaluation was attempted")
        [] ~locals.recursive /\ configurationEpoch # locals.epoch ->
             refuse("governance configuration changed during evaluation")
        [] OTHER -> Decide(locals)

(* The read-locked recheck after the loop. *)
Recheck(g, d) ==
  /\ pc[g][d] = "recheck"
  /\ answer' = [answer EXCEPT ![g][d] = Verdict(ev[g][d])]
  /\ Goto(g, d, "decided")
  /\ UNCHANGED <<configuration, guard, callbackEvaluations, identity, depth, ev, rg>>

EvaluateReturns(g, d) ==
  /\ pc[g][d] = "decided"
  /\ Pop(g, d)
  /\ UNCHANGED <<configuration, guard, callbackEvaluations, identity>>
-----------------------------------------------------------------------------
(* Registration. *)

(* Mutation: only the first registration is compared. *)
HasPrimitiveIDFirst(id) == registrations # <<>> /\ registrations[1].id = id

HasPrimitiveID(id) == \E i \in DOMAIN registrations : registrations[i].id = id

(* Mutation: a registration does not exclude another one. *)
MayRegisterConcurrently(id) == ~HasPrimitiveID(id)

MayRegister(id) == ~registrationActive /\ ~HasPrimitiveID(id)

(* The first lock section of RegisterPrimitive.  A malformed or registered  *)
(* ID, or a nil primitive, is refused without any effect.                   *)
RegisterBegins(g, id, prim) ==
  /\ MayCall(g)
  /\ configurationEpoch < MaxEpoch
  /\ MayRegister(id)
  /\ registrationActive' = TRUE
  /\ registrationMutationAttempted' = FALSE
  /\ Push(g, "ck_name")
  /\ rg' = [rg EXCEPT ![g][depth[g] + 1] = IdleRegistration(id, prim)]
  /\ UNCHANGED <<configuration, callbackEvaluations, identity, ev, answer>>

(* RegisterPrimitive or Clear while a registration is active: the attempt   *)
(* is remembered against that registration and refused.                     *)
MutationRefused(g) ==
  /\ MayCall(g)
  /\ registrationActive
  /\ registrationMutationAttempted' = TRUE
  /\ UNCHANGED <<configuration, registrationActive, callbackEvaluations, identity, depth, pc, ev, rg, answer>>

AfterProbe(point) ==
  CASE point = "ck_name"    -> "ck_version"
    [] point = "ck_version" -> "ck_config"
    [] point = "ck_config"  -> "ck_config2"
    [] point = "ck_config2" -> "ck_source"
    [] point = "ck_source"  -> "ck_eval1"

(* Mutation: a failing registration returns past the deferred release. *)
RegistrationFailsEarly(g, d) == Goto(g, d, "decided") /\ UNCHANGED rg

(* An early return of RegisterPrimitive leads to its deferred release. *)
RegistrationFails(g, d) == Goto(g, d, "release") /\ UNCHANGED rg

(* CheckPrimitive up to the probe evaluations.  A failing callback ends the *)
(* probe, except that refused source is noted and the probe goes on; the    *)
(* configuration fingerprint is read twice and must not move in between.    *)
ProbeIdentity(g, d) ==
  LET point == pc[g][d]
      prim  == rg[g][d].prim
  IN  /\ point \in {"ck_name", "ck_version", "ck_config", "ck_config2", "ck_source"}
      /\ \/ /\ point = "ck_config2" /\ "config" \in Callbacks(prim)
               => identity[prim]["config"] = rg[g][d].fingerprint
            /\ Goto(g, d, AfterProbe(point))
            /\ rg' = [rg EXCEPT ![g][d].fingerprint =
                        IF point = "ck_config" THEN identity[prim]["config"] ELSE @]
         \/ /\ FieldAt(point) \in Callbacks(prim)
            /\ point # "ck_source"
            /\ RegistrationFails(g, d)
         \/ /\ "source" \in Callbacks(prim)
            /\ point = "ck_source"
            /\ Goto(g, d, "ck_eval1")
            /\ rg' = [rg EXCEPT ![g][d].compliant = FALSE]
      /\ UNCHANGED <<configuration, guard, callbackEvaluations, identity, depth, ev, answer>>

(* The two probe evaluations, made without entering callbackEvaluations. *)
ProbeReturns(g, d, result) ==
  /\ \/ /\ pc[g][d] = "ck_eval1"
        /\ result # NoResult
        /\ rg' = [rg EXCEPT ![g][d].first = result]
        /\ Goto(g, d, "ck_eval2")
     \/ /\ pc[g][d] = "ck_eval2"
        /\ result = rg[g][d].first
        /\ rg[g][d].compliant
        /\ Goto(g, d, "rd_version")
        /\ UNCHANGED rg
     \/ /\ \/ pc[g][d] = "ck_eval1" /\ result = NoResult
           \/ pc[g][d] = "ck_eval2" /\ (result # rg[g][d].first \/ ~rg[g][d].compliant)
        /\ RegistrationFails(g, d)
  /\ UNCHANGED <<configuration, guard, callbackEvaluations, identity, depth, ev, answer>>

AfterRecord(point) ==
  CASE point = "rd_version" -> "rd_source"
    [] point = "rd_source"  -> "rd_config"
    [] point = "rd_config"  -> "publish"

(* RegisterPrimitive reads the identity it records, after the probe. *)
RecordIdentity(g, d) ==
  LET f == FieldAt(pc[g][d])
  IN  /\ pc[g][d] \in RecordPcs
      /\ \/ /\ rg' = [rg EXCEPT ![g][d].ident[f] = identity[rg[g][d].prim][f]]
            /\ Goto(g, d, AfterRecord(pc[g][d]))
         \/ /\ f \in Callbacks(rg[g][d].prim)
            /\ RegistrationFails(g, d)
      /\ UNCHANGED <<configuration, guard, callbackEvaluations, identity, depth, ev, answer>>

(* Mutation: an attempt that was refused meanwhile is forgotten. *)
MayPublishRegardless(id) == ~HasPrimitiveID(id)

MayPublish(id) == ~registrationMutationAttempted /\ ~HasPrimitiveID(id)

(* The second lock section: nothing is published after an attempt to change *)
(* the configuration, or over an ID that is there by now.                   *)
Publish(g, d) ==
  LET locals == rg[g][d]
  IN  /\ pc[g][d] = "publish"
      /\ IF ~MayPublish(locals.id)
         THEN UNCHANGED configuration
         ELSE /\ registrations' = Append(registrations, [id |-> locals.id, prim |-> locals.prim,
                                                         ident |-> locals.ident])
              /\ configurationEpoch' = configurationEpoch + 1
      /\ Goto(g, d, "release")
      /\ UNCHANGED <<guard, callbackEvaluations, identity, depth, ev, rg, answer>>

(* The deferred third lock section, on every path out of RegisterPrimitive. *)
Release(g, d) ==
  /\ pc[g][d] = "release"
  /\ registrationActive' = FALSE
  /\ registrationMutationAttempted' = FALSE
  /\ Pop(g, d)
  /\ UNCHANGED <<configuration, callbackEvaluations, identity>>

(* Mutation: clearing does not count as a change of the configuration. *)
ClearSilently(g) ==
  /\ MayCall(g)
  /\ ~registrationActive
  /\ registrations' = <<>>
  /\ UNCHANGED <<configurationEpoch, guard, callbackEvaluations, identity, depth, pc, ev, rg, answer>>

(* Mutation: clearing does not respect a registration under way. *)
ClearAnyway(g) ==
  /\ MayCall(g)
  /\ configurationEpoch < MaxEpoch
  /\ registrations' = <<>>
  /\ configurationEpoch' = configurationEpoch + 1
  /\ UNCHANGED <<guard, callbackEvaluations, identity, depth, pc, ev, rg, answer>>

Clear(g) ==
  /\ MayCall(g)
  /\ configurationEpoch < MaxEpoch
  /\ ~registrationActive
  /\ registrations' = <<>>
  /\ configurationEpoch' = configurationEpoch + 1
  /\ UNCHANGED <<guard, callbackEvaluations, identity, depth, pc, ev, rg, answer>>
-----------------------------------------------------------------------------
(* A primitive changes its version, source or configuration, at any moment. *)
(* An identity that was given up does not come back.                        *)
Drift(prim, f) ==
  /\ f \in ExposedFields(prim)
  /\ identity[prim][f] < MaxDrift
  /\ identity' = [identity EXCEPT ![prim][f] = @ + 1]
  /\ UNCHANGED <<configuration, guard, callbackEvaluations, depth, pc, ev, rg, answer>>

(* The engine is called. *)
Call(g) ==
  \/ \E ctx \in Contexts \cup InvalidContexts \cup {NoContext}, time \in Times :
       EvaluateRefusesInput(g, ctx, time)
  \/ \E ctx \in Contexts : \/ EvaluateRefusesRecursion(g, ctx)
                           \/ EvaluateRefusesEmpty(g, ctx)
                           \/ EvaluateBegins(g, ctx)
  \/ \E id \in Ids, prim \in Primitives : RegisterBegins(g, id, prim)
  \/ MutationRefused(g)
  \/ Clear(g)

(* The running frame of a goroutine, its top frame, takes its next step. *)
Step(g, d) ==
  /\ d = depth[g]
  /\ \/ ReadIdentity(g, d)
     \/ ReadLastIdentity(g, d)
     \/ InvokePrimitiveEvaluation(g, d)
     \/ \E result \in Results \cup {NoResult} : PrimitiveReturns(g, d, result)
     \/ Recheck(g, d)
     \/ EvaluateReturns(g, d)
     \/ ProbeIdentity(g, d)
     \/ \E result \in Results \cup {NoResult} : ProbeReturns(g, d, result)
     \/ RecordIdentity(g, d)
     \/ Publish(g, d)
     \/ Release(g, d)

Next ==
  \/ \E g \in Goroutines : Call(g) \/ \E d \in Depths : Step(g, d)
  \/ \E prim \in Primitives, f \in Fields : Drift(prim, f)

Spec == Init /\ [][Next]_vars

(* Every callback returns, however often it calls the engine before: the    *)
(* frame it belongs to is on top again and again, and then takes its step.  *)
Fairness == \A g \in Goroutines : \A d \in Depths : SF_vars(Step(g, d))
FairSpec == Spec /\ Fairness
-----------------------------------------------------------------------------
SignalRecord ==
  [primitive_id : Ids, version : 0..MaxDrift, valid : BOOLEAN, data : Payloads \cup {FailureData}]

EvaluationLocals ==
  [ctx : Contexts \cup {NoContext}, snapshot : Seq(Registration), epoch : Nat,
   index : Nat, first : Results \cup {NoResult}, signals : Seq(SignalRecord),
   reasons : Seq(PrimitiveFailures), recursive : BOOLEAN, tainted : BOOLEAN]

RegistrationLocals ==
  [id : Ids, prim : Primitives, first : Results \cup {NoResult}, fingerprint : 0..MaxDrift,
   compliant : BOOLEAN, ident : Identity]

(* What an answer holds is the subject of DecisionIsProved. *)
VarsTyped ==
  /\ registrations \in Seq(Registration)
  /\ configurationEpoch \in Nat
  /\ registrationActive \in BOOLEAN
  /\ registrationMutationAttempted \in BOOLEAN
  /\ callbackEvaluations \in [Goroutines -> 0..MaxDepth]
  /\ identity \in [Primitives -> Identity]
  /\ depth \in [Goroutines -> 0..MaxDepth]
  /\ pc \in [Goroutines -> [Depths -> Pcs]]
  /\ ev \in [Goroutines -> [Depths -> EvaluationLocals]]
  /\ rg \in [Goroutines -> [Depths -> RegistrationLocals]]
  /\ DOMAIN answer = Goroutines
  /\ \A g \in Goroutines : DOMAIN answer[g] = Depths

(* The stack discipline: the frames in use are those up to the depth. *)
StackOK ==
  \A g \in Goroutines, d \in Depths : (pc[g][d] = "idle") <=> (depth[g] < d)

(* An evaluation that has begun has a snapshot, in the loop a current       *)
(* registration in it, and after the first result that result.              *)
LoopPcs == EvaluatePcs \ {"recheck", "decided"}
ResultPcs == {"invoke2", "running2", "post_version", "post_source", "post_config"}
SnapshotOK ==
  \A g \in Goroutines, d \in Depths :
    /\ pc[g][d] \in EvaluatePcs \ {"decided"} => ev[g][d].snapshot # <<>>
    /\ pc[g][d] \in LoopPcs => ev[g][d].index \in DOMAIN ev[g][d].snapshot
    /\ pc[g][d] \in ResultPcs => ev[g][d].first \in Results

(* Type invariant, with the shape of the stacks and of a running loop. *)
TypeOK == VarsTyped /\ StackOK /\ SnapshotOK

Running == {"running1", "running2"}

(* RegisterPrimitive is a critical section although its callbacks run       *)
(* unlocked: registrationActive is up exactly while some goroutine is       *)
(* between the first and the third lock section, and never two are, also    *)
(* when callbacks register again.                                           *)
RegistrationExclusive ==
  /\ registrationActive <=> \E g \in Goroutines, d \in Depths : pc[g][d] \in RegisterPcs
  /\ \A g, h \in Goroutines, d, e \in Depths :
       (pc[g][d] \in RegisterPcs /\ pc[h][e] \in RegisterPcs) => g = h /\ d = e

(* No ID is registered twice, whatever was published or cleared between the *)
(* two look-ups of RegisterPrimitive.                                       *)
UniqueIds ==
  \A i, j \in DOMAIN registrations : registrations[i].id = registrations[j].id => i = j

(* callbackEvaluations holds a frame exactly while its Evaluate callback    *)
(* runs: nothing leaks after a panic, an error or a nested call, and no     *)
(* frame is removed by another one's deferred delete.                       *)
CallbackTableExact ==
  \A g \in Goroutines, d \in Depths : (callbackEvaluations[g] = d) <=> (pc[g][d] \in Running)

(* The epoch stands for the configuration: an evaluation whose epoch is     *)
(* still the engine's holds a snapshot equal to the engine's registrations, *)
(* so the comparison after the loop misses no change.                       *)
EpochIdentifiesConfiguration ==
  \A g \in Goroutines, d \in Depths :
    (ev[g][d].snapshot # <<>> /\ ev[g][d].epoch = configurationEpoch)
      => ev[g][d].snapshot = registrations

(* Under a running Evaluate callback no evaluation of the same goroutine    *)
(* gets as far as a primitive, and none is permitted.                       *)
RecursionDenied ==
  \A g \in Goroutines, d, e \in Depths :
    (d < e /\ pc[g][d] \in Running /\ pc[g][e] \in EvaluatePcs)
      => pc[g][e] = "decided" /\ ~answer[g][e].permitted

(* An evaluation whose callback evaluated again is denied itself, even when *)
(* the primitive then answers as if nothing had happened.                   *)
ReentryDeniesParent ==
  \A g \in Goroutines, d \in Depths :
    (pc[g][d] = "decided" /\ ev[g][d].recursive) => ~answer[g][d].permitted

(* A permitted evaluation ran every primitive, both times, under the        *)
(* identity it was registered with: the reads before and after enclose the  *)
(* evaluations, although identities drift between any two callbacks.        *)
PermitUntainted ==
  \A g \in Goroutines, d \in Depths :
    (pc[g][d] = "decided" /\ answer[g][d].permitted) => ~ev[g][d].tainted

(* The versions a verifier finds who is given the primitives of a snapshot. *)
SnapshotVersions(snapshot) ==
  [id \in {snapshot[i].id : i \in DOMAIN snapshot} |->
     (CHOOSE r \in {snapshot[i] : i \in DOMAIN snapshot} : r.id = id).ident["version"]]

(* Every decision is backed by its proof: a permission always carries one,  *)
(* a proof says what the decision says and verifies against the registered  *)
(* versions, and a denial always names a reason.                            *)
DecisionIsProved ==
  \A g \in Goroutines, d \in Depths :
    pc[g][d] = "decided" =>
      LET decision == answer[g][d]
          proof    == decision.proof
      IN  /\ decision.permitted => proof # NoProof
          /\ decision.permitted <=> decision.reasons = <<>>
          /\ proof # NoProof =>
               /\ proof.decision = decision.permitted
               /\ proof.failure_reasons = decision.reasons
               /\ proof.signals = decision.signals
               /\ Verify(proof, SnapshotVersions(ev[g][d].snapshot))

(* A permission is given against the configuration in force at the recheck: *)
(* it is not empty, the snapshot is that configuration, and there is one    *)
(* valid signal of each registration, in registration order.                *)
PermitCoversConfiguration ==
  [][\A g \in Goroutines, d \in Depths :
       (pc[g][d] = "recheck" /\ pc'[g][d] = "decided" /\ answer'[g][d].permitted)
         => /\ registrations # <<>>
            /\ ev[g][d].snapshot = registrations
            /\ Len(ev[g][d].signals) = Len(registrations)
            /\ \A i \in DOMAIN registrations :
                 /\ ev[g][d].signals[i].primitive_id = registrations[i].id
                 /\ ev[g][d].signals[i].valid]_vars

(* While a registration is active the configuration changes by nothing but  *)
(* its own publication, and not even so once somebody's Clear or            *)
(* RegisterPrimitive was refused on its account.                            *)
MutationsSerialised ==
  [][(registrationActive /\ configuration' # configuration)
       => /\ ~registrationMutationAttempted
          /\ \E g \in Goroutines, d \in Depths :
               /\ pc[g][d] = "publish" /\ pc'[g][d] = "release"
               /\ registrations' = Append(registrations,
                    [id |-> rg[g][d].id, prim |-> rg[g][d].prim, ident |-> rg[g][d].ident])]_vars

(* The engine as a GovernanceGate: the entries in force are the IDs and      *)
(* versions of the registrations, the phase of a registration is read off   *)
(* the flag and the program counters, and a call is open until its frame    *)
(* has a decision; a permission attests what its signals say.               *)
Entry(registration) == <<registration.id, registration.ident["version"]>>

RegistrationPhase ==
  IF ~registrationActive THEN "idle"
  ELSE IF \E g \in Goroutines, d \in Depths : pc[g][d] = "release" THEN "closing" ELSE "probing"

Attested(signals) ==
  [i \in DOMAIN signals |-> <<signals[i].primitive_id, signals[i].version>>]

OutcomeOf(g, d) ==
  IF pc[g][d] # "decided" THEN [status |-> "open", attests |-> <<>>]
  ELSE IF answer[g][d].permitted
       THEN [status |-> "permitted", attests |-> Attested(answer[g][d].signals)]
       ELSE [status |-> "denied", attests |-> <<>>]

Gate == INSTANCE GovernanceGate WITH
  Calls   <- Goroutines \X Depths,
  Entries <- Ids \X (0..MaxDrift),
  policy  <- [i \in DOMAIN registrations |-> Entry(registrations[i])],
  phase   <- RegistrationPhase,
  voided  <- registrationMutationAttempted,
  outcome <- [c \in Goroutines \X Depths |-> OutcomeOf(c[1], c[2])]

(* The engine keeps the promise of the gate: whatever callbacks, races and  *)
(* nested calls do, its visible behaviour is one in which registrations     *)
(* take effect one at a time and a permission names exactly the primitives, *)
(* with their versions, that were in force at one instant of the call.      *)
ImplementsGate == Gate!Spec

(* What the engine answers to a nested call, "recursive governance          *)
(* evaluation is not permitted": no evaluation on top of another one of the *)
(* same goroutine is permitted.                                             *)
NestedEvaluationDenied ==
  \A g \in Goroutines, d, e \in Depths :
    (d < e /\ pc[g][d] \in EvaluatePcs /\ pc[g][e] = "decided")
      => ~answer[g][e].permitted

(* A registration ends and gives the engine back: refused, failed or        *)
(* published, whatever its callbacks called meanwhile; provided that they   *)
(* return and do not call the engine from one another without end.          *)
RegistrationReleased == registrationActive ~> ~registrationActive
=============================================================================
