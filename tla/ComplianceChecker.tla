-------------------------- MODULE ComplianceChecker --------------------------
(***************************************************************************)
(* CheckAll and CheckPrimitive of core/compliance_checker.go over a         *)
(* deployment of primitives.  The checker keeps nothing between two calls,  *)
(* but each callback runs foreign code that may answer differently every    *)
(* time, so the check is a sequence of steps, one for each callback.        *)
(***************************************************************************)
EXTENDS DeterminismEnforcer

CONSTANTS
  Primitives,     \* sets of the optional interfaces a primitive has
  Nil,            \* a primitive that is nil
  MaxDeployment,  \* bound: primitives in a deployment
  Names,          \* what Name answers, blank included
  Fingerprints,   \* what ConfigurationFingerprint answers
  Sources,        \* what DeterministicSource answers
  Results,        \* well-formed results of Evaluate, snapshotted
  Failed          \* a panic, an error, a blank version, an empty fingerprint,
                  \* a result that normalizeEvaluationResult refuses
ASSUME DeploymentBound == MaxDeployment \in Nat
ASSUME PrimitivesHaveInterfaces ==
  Primitives \subseteq SUBSET {"named", "configurable", "fingerprinted", "source"}
ASSUME NilIsNoPrimitive == Nil \notin Primitives
ASSUME FailedIsNoAnswer ==
  /\ Failed \notin Names \cup {"ok", "unknown", ""}
  /\ Failed \notin Fingerprints
  /\ Failed \notin Sources
  /\ Failed \notin Results
ASSUME SourcesAreTexts == \A source \in Sources : source.text \in {"blank", "go", "script"}

VARIABLES
  deployment,  \* the argument of CheckAll
  index,       \* the primitive that is checked
  phase,       \* "next", "checking", or how CheckAll ended
  todo,        \* the callbacks CheckPrimitive still has to make
  remembered,  \* the first fingerprint or the first result, for the second
  report,      \* the report of this primitive
  combined,    \* the report of the deployment
  log          \* ghost: what each callback that was made of a primitive answered

vars == <<deployment, index, phase, todo, remembered, report, combined, log>>

(* The callbacks of CheckPrimitive in their order, and who has them. *)
Order == [name |-> 1, version |-> 2, configuration |-> 3, fingerprint |-> 4,
          fingerprint_again |-> 5, source |-> 6, evaluate |-> 7, evaluate_again |-> 8]

Callbacks == {"name", "version", "configuration", "fingerprint", "fingerprint_again", "source",
              "evaluate", "evaluate_again"}

Has(primitive, callback) ==
  /\ callback = "name" => "named" \in primitive
  /\ callback \in {"configuration", "fingerprint", "fingerprint_again"} =>
       "configurable" \in primitive
  /\ callback \in {"fingerprint", "fingerprint_again"} => "fingerprinted" \in primitive
  /\ callback = "source" => "source" \in primitive

CallbacksOf(primitive) == {c \in Callbacks : Has(primitive, c)}

EmptyReport == [compliant |-> TRUE, violations |-> <<>>, checked |-> <<>>]

Init ==
  /\ deployment \in SeqOf(Primitives \cup {Nil}, MaxDeployment)
  /\ index = 1
  /\ phase = "next"
  /\ todo = {}
  /\ remembered = Failed
  /\ report = [name |-> "unknown", compliant |-> TRUE, violations |-> <<>>, checked |-> <<>>]
  /\ combined = EmptyReport
  /\ log = [i \in DOMAIN deployment |-> <<>>]
-----------------------------------------------------------------------------
(* CheckPrimitive. *)

(* addViolation *)
AddViolation(requirement) ==
  report' = [report EXCEPT !.compliant = FALSE,
                           !.violations = Append(@, <<report.name, requirement>>)]

CheckPrimitiveBegins ==
  /\ phase = "next"
  /\ index \in DOMAIN deployment
  /\ deployment[index] # Nil
  /\ phase' = "checking"
  /\ todo' = CallbacksOf(deployment[index])
  /\ report' = [name |-> "unknown", compliant |-> TRUE, violations |-> <<>>,
                checked |-> <<"version", "evaluate_contract", "repeatability">>]
  /\ UNCHANGED <<deployment, index, remembered, combined, log>>

(* The callbacks made of a primitive, and what they answered. *)
Made(i) == DOMAIN log[i]
Answer(i, callback) == log[i][callback]

Answered(callback, answer) ==
  /\ phase = "checking"
  /\ callback \in todo
  /\ \A c \in todo : Order[callback] <= Order[c]
  /\ log' = [log EXCEPT ![index] =
                 [c \in Made(index) \cup {callback} |-> IF c = callback THEN answer ELSE @[c]]]
  /\ UNCHANGED <<deployment, index, phase, combined>>

Proceed(callback) == todo' = todo \ {callback}
Return == todo' = {}

(* A callback fails, and its requirement with it: the report is returned.   *)
Fails(callback, requirement) ==
  /\ Answered(callback, Failed)
  /\ AddViolation(requirement)
  /\ Return
  /\ UNCHANGED remembered

(* Mutation: a blank name is kept. *)
NameAnswersBlank(name) ==
  /\ Answered("name", name)
  /\ report' = [report EXCEPT !.name = name]
  /\ Proceed("name")
  /\ UNCHANGED remembered

(* A blank name is as good as none. *)
NameAnswers(name) ==
  /\ Answered("name", name)
  /\ report' = [report EXCEPT !.name = IF name = "" THEN @ ELSE name]
  /\ Proceed("name")
  /\ UNCHANGED remembered

NameFails ==
  /\ Answered("name", Failed)
  /\ report' = [name |-> "unknown", compliant |-> FALSE,
                violations |-> << <<"unknown", "identity">> >>, checked |-> <<"identity">>]
  /\ Return
  /\ UNCHANGED remembered

VersionAnswers ==
  /\ Answered("version", "ok")
  /\ Proceed("version")
  /\ UNCHANGED <<remembered, report>>

CheckedAlso(requirement) == [report EXCEPT !.checked = Append(@, requirement)]

(* A configurable primitive must have a fingerprint of its configuration. *)
ConfigurationAnswers(answer) ==
  LET sound == answer = "ok" /\ Has(deployment[index], "fingerprint")
  IN  /\ Answered("configuration", answer)
      /\ IF sound THEN Proceed("configuration") ELSE Return
      /\ report' = [CheckedAlso("configuration") EXCEPT
                      !.compliant = @ /\ sound,
                      !.violations = IF sound THEN @ ELSE Append(@, <<report.name, "configuration">>)]
      /\ UNCHANGED remembered

Remember(callback, answer) ==
  /\ Answered(callback, answer)
  /\ remembered' = answer
  /\ Proceed(callback)
  /\ UNCHANGED report

(* The second answer has to be the first one. *)
Repeats(callback, answer, requirement) ==
  /\ Answered(callback, answer)
  /\ IF answer = remembered THEN Proceed(callback) /\ UNCHANGED report
     ELSE AddViolation(requirement) /\ Return
  /\ UNCHANGED remembered

(* Mutation: refused source ends the check. *)
SourceAnswersAndEnds(source) ==
  LET sound == source # Failed /\ ValidatePrimitiveSource(source)
  IN  /\ Answered("source", source)
      /\ report' = [CheckedAlso("deterministic_source") EXCEPT
                      !.compliant = @ /\ sound,
                      !.violations = IF sound THEN @ ELSE Append(@, <<report.name, "deterministic_source">>)]
      /\ IF sound THEN Proceed("source") ELSE Return
      /\ UNCHANGED remembered

(* Refused source is a violation, and the primitive is evaluated all the    *)
(* same.                                                                    *)
SourceAnswers(source) ==
  LET sound == source # Failed /\ ValidatePrimitiveSource(source)
  IN  /\ Answered("source", source)
      /\ report' = [CheckedAlso("deterministic_source") EXCEPT
                      !.compliant = @ /\ sound,
                      !.violations = IF sound THEN @ ELSE Append(@, <<report.name, "deterministic_source">>)]
      /\ Proceed("source")
      /\ UNCHANGED remembered

CheckPrimitive ==
  \/ CheckPrimitiveBegins
  \/ \E name \in Names : NameAnswers(name)
  \/ NameFails
  \/ VersionAnswers
  \/ Fails("version", "version")
  \/ \E answer \in {"ok", Failed} : ConfigurationAnswers(answer)
  \/ \E fingerprint \in Fingerprints :
       \/ Remember("fingerprint", fingerprint)
       \/ Repeats("fingerprint_again", fingerprint, "configuration")
  \/ \E callback \in {"fingerprint", "fingerprint_again"} : Fails(callback, "configuration")
  \/ \E source \in Sources \cup {Failed} : SourceAnswers(source)
  \/ \E result \in Results :
       \/ Remember("evaluate", result)
       \/ Repeats("evaluate_again", result, "repeatability")
  \/ \E callback \in {"evaluate", "evaluate_again"} : Fails(callback, "evaluate_contract")
-----------------------------------------------------------------------------
(* CheckAll. *)

(* Absence of governance is itself a violation. *)
CheckNothing ==
  /\ phase = "next"
  /\ deployment = <<>>
  /\ combined' = [compliant  |-> FALSE,
                  violations |-> << <<"deployment", "non_empty_deployment">> >>,
                  checked    |-> <<"non_empty_deployment">>]
  /\ phase' = "returned"
  /\ UNCHANGED <<deployment, index, todo, remembered, report, log>>

(* A nil primitive is an error, and no report is returned. *)
CheckNil ==
  /\ phase = "next"
  /\ index \in DOMAIN deployment
  /\ deployment[index] = Nil
  /\ phase' = "error"
  /\ UNCHANGED <<deployment, index, todo, remembered, report, combined, log>>

(* Mutation: the verdict is that of the last report. *)
CombinedWithLast(one) ==
  [compliant  |-> one.compliant,
   violations |-> combined.violations \o one.violations,
   checked    |-> combined.checked \o one.checked]

CombinedWith(one) ==
  [compliant  |-> combined.compliant /\ one.compliant,
   violations |-> combined.violations \o (IF one.compliant THEN <<>> ELSE one.violations),
   checked    |-> combined.checked \o one.checked]

ReportReturned ==
  /\ phase = "checking"
  /\ todo = {}
  /\ combined' = CombinedWith(report)
  /\ index' = index + 1
  /\ phase' = "next"
  /\ UNCHANGED <<deployment, todo, remembered, report, log>>

CheckAllReturns ==
  /\ phase = "next"
  /\ deployment # <<>>
  /\ index = Len(deployment) + 1
  /\ phase' = "returned"
  /\ UNCHANGED <<deployment, index, todo, remembered, report, combined, log>>

Next == CheckNothing \/ CheckNil \/ CheckPrimitive \/ ReportReturned \/ CheckAllReturns

Spec == Init /\ [][Next]_vars
-----------------------------------------------------------------------------
(* Type invariant; the callbacks made of a primitive and those to come are  *)
(* always those that it has, unless the check ended early.                  *)
TypeOK ==
  /\ deployment \in Seq(Primitives \cup {Nil})
  /\ index \in 1..(Len(deployment) + 1)
  /\ phase \in {"next", "checking", "returned", "error"}
  /\ report.name \in (Names \cup {"unknown"}) \ {""}
  /\ \A n \in DOMAIN combined.violations :
       combined.violations[n][2] \in ToSet(combined.checked)
  /\ DOMAIN log = DOMAIN deployment
  /\ phase = "checking" =>
       /\ Made(index) \cap todo = {}
       /\ \/ Made(index) \cup todo = CallbacksOf(deployment[index])
          \/ todo = {} /\ Made(index) \subseteq CallbacksOf(deployment[index])

(* A compliant deployment has earned it: there is a primitive, none is nil, *)
(* and every one was asked everything it can be asked, did not fail, gave   *)
(* the same fingerprint and the same result both times, and, if it showed   *)
(* plainly written source, this runs allowed packages only.                 *)
CompliantIsEarned ==
  (phase = "returned" /\ combined.compliant) =>
    /\ deployment # <<>>
    /\ \A i \in DOMAIN deployment :
         /\ deployment[i] # Nil
         /\ Made(i) = CallbacksOf(deployment[i])
         /\ "configurable" \in deployment[i] => "fingerprinted" \in deployment[i]
         /\ \A callback \in Made(i) : Answer(i, callback) # Failed
         /\ "fingerprint" \in Made(i) => Answer(i, "fingerprint") = Answer(i, "fingerprint_again")
         /\ Answer(i, "evaluate") = Answer(i, "evaluate_again")
         /\ ("source" \in Made(i) /\ PlainlyWritten(Answer(i, "source")))
              => Deterministic(Answer(i, "source"))

(* The requirements a primitive failed, from its answers alone. *)
FailedCallback(i, callbacks) ==
  \E callback \in callbacks \cap Made(i) : Answer(i, callback) = Failed

Differs(i, callback, again) ==
  /\ {callback, again} \subseteq Made(i)
  /\ ~FailedCallback(i, {callback, again})
  /\ Answer(i, callback) # Answer(i, again)

Flaw(i, requirement) ==
  \/ requirement = "identity" /\ FailedCallback(i, {"name"})
  \/ requirement = "version" /\ FailedCallback(i, {"version"})
  \/ /\ requirement = "configuration"
     /\ \/ FailedCallback(i, {"configuration", "fingerprint", "fingerprint_again"})
        \/ "configuration" \in Made(i) /\ "fingerprinted" \notin deployment[i]
        \/ Differs(i, "fingerprint", "fingerprint_again")
  \/ /\ requirement = "deterministic_source"
     /\ "source" \in Made(i)
     /\ FailedCallback(i, {"source"}) \/ ~ValidatePrimitiveSource(Answer(i, "source"))
  \/ requirement = "evaluate_contract" /\ FailedCallback(i, {"evaluate", "evaluate_again"})
  \/ requirement = "repeatability" /\ Differs(i, "evaluate", "evaluate_again")

NameOf(i) ==
  IF "name" \notin Made(i) THEN "unknown"
  ELSE IF Answer(i, "name") \in {Failed, ""} THEN "unknown"
  ELSE Answer(i, "name")

(* The violations of a primitive in the order of its requirements. *)
ViolationIf(i, requirement) ==
  IF Flaw(i, requirement) THEN << <<NameOf(i), requirement>> >> ELSE <<>>

ViolationsOf(i) ==
  ViolationIf(i, "identity") \o ViolationIf(i, "version") \o ViolationIf(i, "configuration")
    \o ViolationIf(i, "deterministic_source") \o ViolationIf(i, "evaluate_contract")
    \o ViolationIf(i, "repeatability")

(* A list consists of the violations of the first primitives, one after the *)
(* other: those of i follow after position ends[i - 1], up to ends[i].      *)
Lists(violations, primitives) ==
  \E ends \in [0..primitives -> 0..Len(violations)] :
    /\ ends[0] = 0
    /\ ends[primitives] = Len(violations)
    /\ \A i \in 1..primitives :
         /\ ends[i] = ends[i - 1] + Len(ViolationsOf(i))
         /\ \A n \in DOMAIN ViolationsOf(i) : violations[ends[i - 1] + n] = ViolationsOf(i)[n]

(* The report is exact after each primitive: it has the violations of all   *)
(* primitives that were checked, in their order, each under the name the    *)
(* primitive gave and no other, and is compliant just when there is none.   *)
ReportIsExact ==
  (phase \in {"next", "returned"} /\ deployment # <<>>) =>
    /\ Lists(combined.violations, index - 1)
    /\ combined.compliant <=> combined.violations = <<>>

(* The identity of a primitive does not stand. *)
Refused(i) == \E r \in {"identity", "version", "configuration"} : Flaw(i, r)

(* A primitive is evaluated exactly when its identity stands: never after   *)
(* its name, version or configuration failed, and always otherwise, also    *)
(* when its source is refused.  Nothing behind a nil primitive is called.   *)
ProbeFollowsIdentity ==
  \A i \in DOMAIN deployment :
    /\ "evaluate" \in Made(i) => ~Refused(i)
    /\ (i < index /\ ~Refused(i)) => "evaluate" \in Made(i)
    /\ (\E j \in 1..i : deployment[j] = Nil) => Made(i) = {}
=============================================================================
