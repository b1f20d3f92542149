----------------------- MODULE ComplianceCheckerProofs -----------------------
(***************************************************************************)
(* Proofs about ComplianceChecker, for deployments of any length and        *)
(* whatever the primitives answer.                                          *)
(*                                                                         *)
(* The argument: every callback that answers brings at most one fault with  *)
(* it, which is known from the answer and what was answered before.  The    *)
(* report and the callbacks to come follow the faults step by step, and a   *)
(* flaw of a primitive is a fault that one of its answers brought.          *)
(***************************************************************************)
EXTENDS ComplianceChecker, TLAPS

Requirements ==
  {"identity", "version", "configuration", "deterministic_source", "evaluate_contract",
   "repeatability"}

(* All flaws but that of the source end the check of a primitive. *)
Fatal(i) == \E r \in Requirements \ {"deterministic_source"} : Flaw(i, r)

(* What a callback may answer. *)
IsAnswer(callback, answer) ==
  \/ answer = Failed
  \/ callback = "name" /\ answer \in Names
  \/ callback \in {"version", "configuration"} /\ answer = "ok"
  \/ callback \in {"fingerprint", "fingerprint_again"} /\ answer \in Fingerprints
  \/ callback = "source" /\ answer \in Sources
  \/ callback \in {"evaluate", "evaluate_again"} /\ answer \in Results

(* The callback of the primitive under check that is made next. *)
NextCallback(callback) ==
  /\ callback \in Callbacks /\ callback \in todo /\ callback \notin Made(index)
  /\ \A c \in CallbacksOf(deployment[index]) : Order[c] < Order[callback] <=> c \in Made(index)
  /\ \A c \in Made(index) : c \in CallbacksOf(deployment[index])
  /\ callback \in CallbacksOf(deployment[index])

(* The requirement that fails with an answer. *)
Fault(callback, answer, requirement) ==
  \/ callback = "name" /\ answer = Failed /\ requirement = "identity"
  \/ callback = "version" /\ answer = Failed /\ requirement = "version"
  \/ /\ callback = "configuration" /\ requirement = "configuration"
     /\ answer = Failed \/ "fingerprinted" \notin deployment[index]
  \/ callback = "fingerprint" /\ answer = Failed /\ requirement = "configuration"
  \/ /\ callback = "fingerprint_again" /\ requirement = "configuration"
     /\ answer = Failed \/ answer # Answer(index, "fingerprint")
  \/ /\ callback = "source" /\ requirement = "deterministic_source"
     /\ answer = Failed \/ ~ValidatePrimitiveSource(answer)
  \/ callback = "evaluate" /\ answer = Failed /\ requirement = "evaluate_contract"
  \/ callback = "evaluate_again" /\ answer = Failed /\ requirement = "evaluate_contract"
  \/ /\ callback = "evaluate_again" /\ requirement = "repeatability"
     /\ answer # Failed /\ answer # Answer(index, "evaluate")

Faultless(callback, answer) == \A r \in Requirements : ~Fault(callback, answer, r)

(* The shape of the state. *)
ReportedNames == (Names \cup {"unknown", "deployment"}) \ {""}
AllRequirements == Requirements \cup {"non_empty_deployment"}

IsReport(r) ==
  /\ r.compliant \in BOOLEAN
  /\ r.violations \in Seq(ReportedNames \X AllRequirements)
  /\ r.checked \in Seq(AllRequirements)
  /\ \A n \in DOMAIN r.violations : r.violations[n][2] \in ToSet(r.checked)
  /\ r.compliant <=> r.violations = <<>>

ShapeInv ==
  /\ deployment \in Seq(Primitives \cup {Nil})
  /\ index \in 1..(Len(deployment) + 1)
  /\ phase \in {"next", "checking", "returned", "error"}
  /\ phase = "checking" => index \in DOMAIN deployment /\ deployment[index] # Nil
  /\ phase # "checking" => todo = {}
  /\ phase = "returned" =>
       IF deployment = <<>> THEN ~combined.compliant ELSE index = Len(deployment) + 1
  /\ DOMAIN log = DOMAIN deployment
  /\ IsReport(report) /\ report.name \in (Names \cup {"unknown"}) \ {""}
  /\ report = [name |-> report.name, compliant |-> report.compliant,
               violations |-> report.violations, checked |-> report.checked]
  /\ IsReport(combined)

(* What was asked of the primitives. *)
AnswersInv ==
  \A i \in DOMAIN deployment :
    /\ i > index => Made(i) = {}
    /\ (i = index /\ phase # "checking") => Made(i) = {}
    /\ i < index => /\ deployment[i] # Nil
                    /\ Fatal(i) \/ Made(i) = CallbacksOf(deployment[i])
    /\ \A c \in Made(i) : c \in CallbacksOf(deployment[i]) /\ IsAnswer(c, Answer(i, c))
    /\ "evaluate" \in Made(i) => ~Refused(i)
    /\ "evaluate_again" \in Made(i) => "evaluate" \in Made(i)

(* The check goes on from callback to callback in their order, unless a     *)
(* flaw has ended it.                                                       *)
CheckInv ==
  phase = "checking" =>
    /\ Made(index) \cap todo = {}
    /\ \A m \in Made(index), c \in todo : Order[m] < Order[c]
    /\ Fatal(index) => todo = {}
    /\ ~Fatal(index) => Made(index) \cup todo = CallbacksOf(deployment[index])
    /\ ("fingerprint" \in Made(index) /\ "fingerprint_again" \in todo) =>
         remembered = Answer(index, "fingerprint")
    /\ ("evaluate" \in Made(index) /\ "evaluate_again" \in todo) =>
         remembered = Answer(index, "evaluate")

(* The report of the primitive under check has its flaws, so far. *)
ReportInv ==
  phase = "checking" =>
    /\ report.name = NameOf(index)
    /\ report.violations = ViolationsOf(index)
    /\ todo # {} => {"version", "evaluate_contract", "repeatability"} \subseteq ToSet(report.checked)
    /\ (todo # {} /\ "configuration" \in Made(index)) => "configuration" \in ToSet(report.checked)

CombinedInv ==
  (phase # "error" /\ deployment # <<>>) => Lists(combined.violations, index - 1)

IInv ==
  /\ ShapeInv
  /\ AnswersInv
  /\ CheckInv
  /\ ReportInv
  /\ CombinedInv
-----------------------------------------------------------------------------
(* The log. *)

LEMMA TodoIsNext ==
  ASSUME ShapeInv, AnswersInv, CheckInv, phase = "checking", NEW callback \in todo,
         \A c \in todo : Order[callback] <= Order[c]
  PROVE  NextCallback(callback) /\ ~Fatal(index) /\ index \in DOMAIN deployment
<1>1. /\ ~Fatal(index) /\ index \in DOMAIN deployment
      /\ Made(index) \cup todo = CallbacksOf(deployment[index])
      /\ Made(index) \cap todo = {}
      /\ \A m \in Made(index), c \in todo : Order[m] < Order[c]
  BY DEF ShapeInv, CheckInv
<1>2. \A c \in Callbacks : Order[c] \in Nat
  BY DEF Order, Callbacks
<1>3. \A c \in CallbacksOf(deployment[index]) : c \in Callbacks
  BY DEF CallbacksOf
<1>4. ASSUME NEW c \in CallbacksOf(deployment[index])
      PROVE  Order[c] < Order[callback] <=> c \in Made(index)
  <2>1. Order[c] \in Nat /\ Order[callback] \in Nat
    BY <1>1, <1>2, <1>3
  <2>2. CASE c \in Made(index)
    BY <1>1, <2>2
  <2>3. CASE c \in todo
    BY <1>1, <2>1, <2>3
  <2> QED BY <1>1, <2>2, <2>3
<1> QED BY <1>1, <1>3, <1>4 DEF NextCallback

(* One entry is added to the log of the primitive under check. *)
LogsAlso(i, callback, answer) ==
  /\ Made(i)' = Made(i) \cup {callback}
  /\ Answer(i, callback)' = answer
  /\ \A c \in Made(i) : Answer(i, c)' = Answer(i, c)

SameLog(i) == log'[i] = log[i] /\ deployment' = deployment

LEMMA LogAfter ==
  ASSUME ShapeInv, NEW callback, NEW answer, Answered(callback, answer),
         callback \notin Made(index), index \in DOMAIN deployment
  PROVE  /\ LogsAlso(index, callback, answer)
         /\ \A i \in DOMAIN deployment : i # index => SameLog(i)
         /\ DOMAIN log' = DOMAIN deployment
<1> DEFINE entry == [c \in Made(index) \cup {callback} |->
                       IF c = callback THEN answer ELSE log[index][c]]
<1>1. /\ log' = [log EXCEPT ![index] = entry]
      /\ UNCHANGED <<deployment, index, phase, combined>>
      /\ DOMAIN log = DOMAIN deployment
  BY DEF Answered, ShapeInv
<1>2. log'[index] = entry
  BY <1>1
<1>3. /\ DOMAIN log'[index] = DOMAIN log[index] \cup {callback}
      /\ log'[index][callback] = answer
      /\ \A c \in DOMAIN log[index] : log'[index][c] = log[index][c]
  BY <1>2 DEF Made
<1> HIDE DEF entry
<1> QED BY <1>1, <1>3 DEF LogsAlso, SameLog, Made, Answer

(* What is said of a primitive depends on its log only. *)
LEMMA SameLogSame ==
  ASSUME NEW i, SameLog(i)
  PROVE  /\ Made(i)' = Made(i)
         /\ \A c : Answer(i, c)' = Answer(i, c)
         /\ \A r : Flaw(i, r)' <=> Flaw(i, r)
         /\ Fatal(i)' <=> Fatal(i)
         /\ Refused(i)' <=> Refused(i)
         /\ NameOf(i)' = NameOf(i)
         /\ ViolationsOf(i)' = ViolationsOf(i)
<1>1. Made(i)' = Made(i) /\ \A c : Answer(i, c)' = Answer(i, c)
  BY DEF SameLog, Made, Answer
<1>2. \A S : FailedCallback(i, S)' <=> FailedCallback(i, S)
  BY <1>1 DEF FailedCallback
<1>3. \A c, d : Differs(i, c, d)' <=> Differs(i, c, d)
  BY <1>1, <1>2 DEF Differs
<1>4. \A r : Flaw(i, r)' <=> Flaw(i, r)
  BY <1>1, <1>2, <1>3 DEF Flaw, SameLog
<1>5. NameOf(i)' = NameOf(i)
  <2>1. Answer(i, "name")' = Answer(i, "name")
    BY <1>1
  <2> QED BY <1>1, <2>1 DEF NameOf
<1>6. \A r : ViolationIf(i, r)' = ViolationIf(i, r)
  BY <1>4, <1>5 DEF ViolationIf
<1>7. ViolationsOf(i)' = ViolationsOf(i)
  <2>1. /\ ViolationIf(i, "identity")' = ViolationIf(i, "identity")
        /\ ViolationIf(i, "version")' = ViolationIf(i, "version")
        /\ ViolationIf(i, "configuration")' = ViolationIf(i, "configuration")
        /\ ViolationIf(i, "deterministic_source")' = ViolationIf(i, "deterministic_source")
        /\ ViolationIf(i, "evaluate_contract")' = ViolationIf(i, "evaluate_contract")
        /\ ViolationIf(i, "repeatability")' = ViolationIf(i, "repeatability")
    BY <1>6
  <2> QED BY <2>1 DEF ViolationsOf
<1>8. (Fatal(i)' <=> Fatal(i)) /\ (Refused(i)' <=> Refused(i))
  BY <1>4 DEF Fatal, Refused
<1> QED BY <1>1, <1>4, <1>5, <1>7, <1>8
-----------------------------------------------------------------------------
(* An answer brings the flaws that are its faults, and no others. *)

LEMMA Earlier ==
  ASSUME NEW callback, NextCallback(callback)
  PROVE  /\ callback = "fingerprint_again" => "fingerprint" \in Made(index)
         /\ callback \in {"fingerprint", "fingerprint_again"} => "configuration" \in Made(index)
         /\ callback = "evaluate_again" => "evaluate" \in Made(index)
         /\ callback # "evaluate_again" => "evaluate_again" \notin Made(index)
         /\ callback \notin {"evaluate", "evaluate_again"} => "evaluate" \notin Made(index)
         /\ callback \in {"name", "version", "configuration", "fingerprint", "fingerprint_again"} =>
              "source" \notin Made(index)
         /\ callback \in {"name", "version", "configuration", "fingerprint"} =>
              "fingerprint_again" \notin Made(index)
         /\ callback \in {"name", "version", "configuration"} => "fingerprint" \notin Made(index)
         /\ callback \in {"name", "version"} => "configuration" \notin Made(index)
<1>1. \A c \in CallbacksOf(deployment[index]) : Order[c] < Order[callback] <=> c \in Made(index)
  BY DEF NextCallback
<1>2. /\ callback \in CallbacksOf(deployment[index])
      /\ Made(index) \subseteq CallbacksOf(deployment[index])
      /\ callback \in Callbacks
  BY DEF NextCallback
<1>3. callback = "fingerprint_again" => "fingerprint" \in CallbacksOf(deployment[index])
  BY <1>2 DEF CallbacksOf, Callbacks, Has
<1>4. callback \in {"fingerprint", "fingerprint_again"} =>
        "configuration" \in CallbacksOf(deployment[index])
  BY <1>2 DEF CallbacksOf, Callbacks, Has
<1>5. "evaluate" \in CallbacksOf(deployment[index])
  BY DEF CallbacksOf, Callbacks, Has
<1>6. ASSUME NEW c \in Made(index) PROVE Order[c] < Order[callback]
  BY <1>1, <1>2
<1>7. /\ Order["name"] = 1 /\ Order["version"] = 2 /\ Order["configuration"] = 3
      /\ Order["fingerprint"] = 4 /\ Order["fingerprint_again"] = 5 /\ Order["source"] = 6
      /\ Order["evaluate"] = 7 /\ Order["evaluate_again"] = 8
  BY DEF Order
<1>8. callback = "fingerprint_again" => "fingerprint" \in Made(index)
  BY <1>1, <1>3, <1>7
<1>9. callback \in {"fingerprint", "fingerprint_again"} => "configuration" \in Made(index)
  BY <1>1, <1>4, <1>7
<1>10. callback = "evaluate_again" => "evaluate" \in Made(index)
  BY <1>1, <1>5, <1>7
<1>11. callback # "evaluate_again" => "evaluate_again" \notin Made(index)
  BY <1>2, <1>6, <1>7 DEF Callbacks
<1>12. callback \notin {"evaluate", "evaluate_again"} => "evaluate" \notin Made(index)
  BY <1>2, <1>6, <1>7 DEF Callbacks
<1>13. callback \in {"name", "version", "configuration", "fingerprint", "fingerprint_again"} =>
         "source" \notin Made(index)
  BY <1>6, <1>7
<1>14. /\ callback \in {"name", "version", "configuration", "fingerprint"} =>
            "fingerprint_again" \notin Made(index)
       /\ callback \in {"name", "version", "configuration"} => "fingerprint" \notin Made(index)
       /\ callback \in {"name", "version"} => "configuration" \notin Made(index)
  BY <1>6, <1>7
<1> QED BY <1>8, <1>9, <1>10, <1>11, <1>12, <1>13, <1>14

LEMMA FlawsAfter ==
  ASSUME NEW i, i = index, NEW callback, NEW answer, NextCallback(callback), ~Fatal(i),
         LogsAlso(i, callback, answer), deployment' = deployment, NEW r \in Requirements
  PROVE  Flaw(i, r)' <=> (Flaw(i, r) \/ Fault(callback, answer, r))
<1>1. /\ Made(i)' = Made(i) \cup {callback} /\ callback \notin Made(i) /\ callback \in Callbacks
      /\ Answer(i, callback)' = answer
      /\ \A c \in Made(i) : Answer(i, c)' = Answer(i, c)
  BY DEF LogsAlso, NextCallback
<1>2. ASSUME NEW S
      PROVE  FailedCallback(i, S)' <=> (FailedCallback(i, S) \/ (callback \in S /\ answer = Failed))
  BY <1>1 DEF FailedCallback
<1>3. \A q \in Requirements \ {"deterministic_source"} : ~Flaw(i, q)
  BY DEF Fatal
<1>4. /\ ~FailedCallback(i, {"configuration", "fingerprint", "fingerprint_again"})
      /\ ~FailedCallback(i, {"evaluate", "evaluate_again"})
  <2>1. ~Flaw(i, "configuration") /\ ~Flaw(i, "evaluate_contract")
    BY <1>3 DEF Requirements
  <2> QED BY <2>1 DEF Flaw
<1>5. CASE r = "identity"
  BY <1>2, <1>5 DEF Flaw, Fault
<1>6. CASE r = "version"
  BY <1>2, <1>6 DEF Flaw, Fault
<1>7. CASE r = "configuration"
  <2>1. Differs(i, "fingerprint", "fingerprint_again")' <=>
          \/ Differs(i, "fingerprint", "fingerprint_again")
          \/ /\ callback = "fingerprint_again" /\ answer # Failed
             /\ answer # Answer(i, "fingerprint")
    <3>1. callback = "fingerprint_again" =>
            "fingerprint" \in Made(i) /\ Answer(i, "fingerprint") # Failed
      BY <1>4, Earlier DEF FailedCallback
    <3>2. callback = "fingerprint" => "fingerprint_again" \notin Made(i)
      BY Earlier
    <3>3. FailedCallback(i, {"fingerprint", "fingerprint_again"})' <=>
            callback \in {"fingerprint", "fingerprint_again"} /\ answer = Failed
      BY <1>2, <1>4 DEF FailedCallback
    <3>4. ~FailedCallback(i, {"fingerprint", "fingerprint_again"})
      BY <1>4 DEF FailedCallback
    <3>5. CASE callback = "fingerprint_again"
      BY <1>1, <3>1, <3>3, <3>4, <3>5 DEF Differs
    <3>6. CASE callback = "fingerprint"
      BY <1>1, <3>2, <3>3, <3>4, <3>6 DEF Differs
    <3>7. CASE callback \notin {"fingerprint", "fingerprint_again"}
      BY <1>1, <3>3, <3>4, <3>7 DEF Differs
    <3> QED BY <3>5, <3>6, <3>7
  <2>2. ("configuration" \in Made(i) /\ "fingerprinted" \notin deployment[i])' <=>
          \/ "configuration" \in Made(i) /\ "fingerprinted" \notin deployment[i]
          \/ callback = "configuration" /\ "fingerprinted" \notin deployment[i]
    BY <1>1
  <2> QED BY <1>2, <1>7, <2>1, <2>2 DEF Flaw, Fault
<1>8. CASE r = "deterministic_source"
  <2>1. FailedCallback(i, {"source"})' <=>
          (FailedCallback(i, {"source"}) \/ (callback = "source" /\ answer = Failed))
    BY <1>2
  <2>2. CASE callback = "source"
    <3>1. Answer(i, "source")' = answer /\ "source" \in Made(i)' /\ "source" \notin Made(i)
      BY <1>1, <2>2
    <3>2. ~Flaw(i, r)
      BY <1>8, <3>1 DEF Flaw
    <3>3. Flaw(i, r)' <=> (FailedCallback(i, {"source"})' \/ ~ValidatePrimitiveSource(answer))
      BY <1>8, <3>1 DEF Flaw
    <3>4. Fault(callback, answer, r) <=> (answer = Failed \/ ~ValidatePrimitiveSource(answer))
      BY <1>8, <2>2 DEF Fault
    <3>5. ~FailedCallback(i, {"source"})
      BY <3>1 DEF FailedCallback
    <3> QED BY <2>1, <2>2, <3>2, <3>3, <3>4, <3>5
  <2>3. CASE callback # "source"
    <3>1. ("source" \in Made(i)' <=> "source" \in Made(i)) /\ ~Fault(callback, answer, r)
      BY <1>1, <1>8, <2>3 DEF Fault
    <3>2. "source" \in Made(i) => Answer(i, "source")' = Answer(i, "source")
      BY <1>1
    <3>3. CASE "source" \in Made(i)
      <4>1. ValidatePrimitiveSource(Answer(i, "source"))' <=>
              ValidatePrimitiveSource(Answer(i, "source"))
        BY <3>2, <3>3
      <4> QED BY <1>8, <2>1, <2>3, <3>1, <3>3, <4>1 DEF Flaw
    <3>4. CASE "source" \notin Made(i)
      BY <1>8, <3>1, <3>4 DEF Flaw
    <3> QED BY <3>3, <3>4
  <2> QED BY <2>2, <2>3
<1>9. CASE r = "evaluate_contract"
  BY <1>2, <1>9 DEF Flaw, Fault
<1>10. CASE r = "repeatability"
  <2>1. callback = "evaluate_again" => "evaluate" \in Made(i) /\ Answer(i, "evaluate") # Failed
    BY <1>4, Earlier DEF FailedCallback
  <2>2. callback = "evaluate" => "evaluate_again" \notin Made(i)
    BY Earlier
  <2>3. FailedCallback(i, {"evaluate", "evaluate_again"})' <=>
          callback \in {"evaluate", "evaluate_again"} /\ answer = Failed
    BY <1>2, <1>4
  <2>4. CASE callback = "evaluate_again"
    BY <1>1, <1>4, <1>10, <2>1, <2>3, <2>4 DEF Flaw, Fault, Differs
  <2>5. CASE callback = "evaluate"
    BY <1>1, <1>4, <1>10, <2>2, <2>3, <2>5 DEF Flaw, Fault, Differs
  <2>6. CASE callback \notin {"evaluate", "evaluate_again"}
    BY <1>1, <1>4, <1>10, <2>3, <2>6 DEF Flaw, Fault, Differs
  <2> QED BY <2>4, <2>5, <2>6
<1> QED BY <1>5, <1>6, <1>7, <1>8, <1>9, <1>10 DEF Requirements
-----------------------------------------------------------------------------
(* What an answer does to the check and to the report, said in one way for  *)
(* all callbacks.                                                          *)

Stops(callback, answer) ==
  \E r \in Requirements \ {"deterministic_source"} : Fault(callback, answer, r)

Records(callback, answer) ==
  /\ report'.name = IF callback = "name" /\ answer \notin {Failed, ""} THEN answer ELSE report.name
  /\ Faultless(callback, answer) =>
       report'.violations = report.violations /\ report'.compliant = report.compliant
  /\ \A r \in Requirements : Fault(callback, answer, r) =>
       /\ report'.violations = Append(report.violations, <<report.name, r>>)
       /\ report'.compliant = FALSE
       /\ r \in ToSet(report'.checked)
  /\ report'.checked \in Seq(AllRequirements)
  /\ report.violations = <<>> \/ ToSet(report.checked) \subseteq ToSet(report'.checked)
  /\ ~Stops(callback, answer) => ToSet(report.checked) \subseteq ToSet(report'.checked)
  /\ callback = "configuration" => "configuration" \in ToSet(report'.checked)
  /\ report' = [name |-> report'.name, compliant |-> report'.compliant,
                violations |-> report'.violations, checked |-> report'.checked]

Step(callback, answer) ==
  /\ Answered(callback, answer)
  /\ IsAnswer(callback, answer)
  /\ IF Stops(callback, answer) THEN todo' = {} ELSE todo' = todo \ {callback}
  /\ Records(callback, answer)
  /\ IF callback \in {"fingerprint", "evaluate"} /\ answer # Failed THEN remembered' = answer
     ELSE UNCHANGED remembered

LEMMA AppendChecked ==
  ASSUME NEW S, NEW s \in Seq(S), NEW x \in S
  PROVE  Append(s, x) \in Seq(S) /\ ToSet(Append(s, x)) = ToSet(s) \cup {x}
<1>1. Append(s, x) \in Seq(S)
  OBVIOUS
<1>2. ASSUME NEW e \in ToSet(s) PROVE e \in ToSet(Append(s, x))
  <2>1. PICK n \in DOMAIN s : e = s[n]
    BY <1>2 DEF ToSet
  <2>2. n \in DOMAIN Append(s, x) /\ Append(s, x)[n] = e
    BY <2>1
  <2> QED BY <2>2 DEF ToSet
<1>3. x \in ToSet(Append(s, x))
  <2>1. Len(s) + 1 \in DOMAIN Append(s, x) /\ Append(s, x)[Len(s) + 1] = x
    OBVIOUS
  <2> QED BY <2>1 DEF ToSet
<1>4. ASSUME NEW e \in ToSet(Append(s, x)) PROVE e \in ToSet(s) \cup {x}
  <2>1. PICK n \in DOMAIN Append(s, x) : e = Append(s, x)[n]
    BY <1>4 DEF ToSet
  <2>2. CASE n \in DOMAIN s
    BY <2>1, <2>2 DEF ToSet
  <2>3. CASE n \notin DOMAIN s
    BY <2>1, <2>3
  <2> QED BY <2>2, <2>3
<1> QED BY <1>1, <1>2, <1>3, <1>4

(* An answer that is no fault and leaves the report alone. *)
LEMMA Passes ==
  ASSUME ShapeInv, NEW callback, NEW answer, Faultless(callback, answer),
         callback \notin {"name", "configuration"}, UNCHANGED report
  PROVE  Records(callback, answer) /\ ~Stops(callback, answer)
<1>1. /\ report.checked \in Seq(AllRequirements)
      /\ report = [name |-> report.name, compliant |-> report.compliant,
                   violations |-> report.violations, checked |-> report.checked]
  BY DEF ShapeInv, IsReport
<1>2. \A r \in Requirements : ~Fault(callback, answer, r)
  BY DEF Faultless
<1> QED BY <1>1, <1>2 DEF Records, Stops

(* An answer that is a fault against a requirement already checked. *)
LEMMA AddsFault ==
  ASSUME ShapeInv, NEW callback, NEW answer, NEW requirement \in Requirements,
         \A r \in Requirements : Fault(callback, answer, r) <=> r = requirement,
         requirement # "deterministic_source",
         callback \notin {"name", "configuration"},
         requirement \in ToSet(report.checked), AddViolation(requirement)
  PROVE  Records(callback, answer) /\ Stops(callback, answer)
<1>1. /\ report.checked \in Seq(AllRequirements)
      /\ report = [name |-> report.name, compliant |-> report.compliant,
                   violations |-> report.violations, checked |-> report.checked]
  BY DEF ShapeInv, IsReport
<1>2. /\ report'.name = report.name /\ report'.checked = report.checked
      /\ report'.compliant = FALSE
      /\ report'.violations = Append(report.violations, <<report.name, requirement>>)
      /\ report' = [name |-> report'.name, compliant |-> report'.compliant,
                    violations |-> report'.violations, checked |-> report'.checked]
  BY <1>1 DEF AddViolation
<1>3. ~Faultless(callback, answer) /\ Stops(callback, answer)
  BY DEF Faultless, Stops
<1> QED BY <1>1, <1>2, <1>3 DEF Records

(* What is known when a callback answers. *)
LEMMA Making ==
  ASSUME IInv, NEW callback, NEW answer, Answered(callback, answer)
  PROVE  /\ phase = "checking" /\ callback \in todo /\ NextCallback(callback)
         /\ ~Fatal(index) /\ index \in DOMAIN deployment
         /\ {"version", "evaluate_contract", "repeatability"} \subseteq ToSet(report.checked)
         /\ "configuration" \in Made(index) => "configuration" \in ToSet(report.checked)
         /\ callback = "fingerprint_again" => remembered = Answer(index, "fingerprint")
         /\ callback = "evaluate_again" => remembered = Answer(index, "evaluate")
<1>1. phase = "checking" /\ callback \in todo /\ \A c \in todo : Order[callback] <= Order[c]
  BY DEF Answered
<1>2. NextCallback(callback) /\ ~Fatal(index) /\ index \in DOMAIN deployment
  BY <1>1, TodoIsNext DEF IInv
<1>3. /\ {"version", "evaluate_contract", "repeatability"} \subseteq ToSet(report.checked)
      /\ "configuration" \in Made(index) => "configuration" \in ToSet(report.checked)
  BY <1>1 DEF IInv, ReportInv
<1>4. /\ callback = "fingerprint_again" => "fingerprint" \in Made(index)
      /\ callback = "evaluate_again" => "evaluate" \in Made(index)
  BY <1>2, Earlier
<1> QED BY <1>1, <1>2, <1>3, <1>4 DEF IInv, CheckInv

LEMMA FirstHasNothing ==
  ASSUME IInv, NEW callback, NEW answer, Answered(callback, answer), callback = "name"
  PROVE  Made(index) = {} /\ report.violations = <<>> /\ report.name = "unknown"
<1>1. phase = "checking" /\ NextCallback(callback) /\ index \in DOMAIN deployment
  BY Making
<1>2. Made(index) = {}
  <2>1. \A c \in Made(index) : c \in Callbacks /\ Order[c] < Order["name"]
    BY <1>1 DEF NextCallback, CallbacksOf
  <2> QED BY <2>1 DEF Callbacks, Order
<1>3. \A r : ~Flaw(index, r)
  BY <1>2 DEF Flaw, FailedCallback, Differs
<1>4. ViolationsOf(index) = <<>>
  BY <1>3 DEF ViolationsOf, ViolationIf
<1>5. NameOf(index) = "unknown"
  BY <1>2 DEF NameOf
<1> QED BY <1>1, <1>2, <1>4, <1>5 DEF IInv, ReportInv

LEMMA NameAnswersIsStep ==
  ASSUME IInv, NEW name \in Names, NameAnswers(name)
  PROVE  Step("name", name)
<1>1. Answered("name", name) /\ IsAnswer("name", name) /\ name # Failed
  BY FailedIsNoAnswer DEF NameAnswers, IsAnswer
<1>2. \A r : ~Fault("name", name, r)
  BY <1>1 DEF Fault
<1>3. /\ report.checked \in Seq(AllRequirements)
      /\ report = [name |-> report.name, compliant |-> report.compliant,
                   violations |-> report.violations, checked |-> report.checked]
  BY DEF IInv, ShapeInv, IsReport
<1>4. /\ report' = [report EXCEPT !.name = IF name = "" THEN @ ELSE name]
      /\ todo' = todo \ {"name"} /\ UNCHANGED remembered
  BY DEF NameAnswers, Proceed
<1>5. Records("name", name)
  BY <1>1, <1>2, <1>3, <1>4 DEF Records
<1>6. ~Stops("name", name)
  BY <1>2 DEF Stops
<1> QED BY <1>1, <1>4, <1>5, <1>6 DEF Step

LEMMA NameFailsIsStep ==
  ASSUME IInv, NameFails
  PROVE  Step("name", Failed)
<1>1. Answered("name", Failed) /\ IsAnswer("name", Failed)
  BY DEF NameFails, IsAnswer
<1>2. \A r : Fault("name", Failed, r) <=> r = "identity"
  BY DEF Fault
<1>3. report.violations = <<>> /\ report.name = "unknown"
  BY <1>1, FirstHasNothing
<1>4. /\ report' = [name |-> "unknown", compliant |-> FALSE,
                    violations |-> << <<"unknown", "identity">> >>, checked |-> <<"identity">>]
      /\ todo' = {} /\ UNCHANGED remembered
  BY DEF NameFails, Return
<1>5. Stops("name", Failed) /\ ~Faultless("name", Failed)
  BY <1>2 DEF Stops, Faultless, Requirements
<1>6. /\ report'.checked \in Seq(AllRequirements)
      /\ "identity" \in ToSet(report'.checked)
  BY <1>4 DEF AllRequirements, Requirements, ToSet
<1>7. Append(report.violations, <<report.name, "identity">>) = << <<"unknown", "identity">> >>
  BY <1>3
<1>8. Records("name", Failed)
  BY <1>2, <1>3, <1>4, <1>5, <1>6, <1>7 DEF Records
<1> QED BY <1>1, <1>4, <1>5, <1>8 DEF Step

LEMMA VersionAnswersIsStep ==
  ASSUME IInv, VersionAnswers
  PROVE  Step("version", "ok")
<1>1. Answered("version", "ok") /\ IsAnswer("version", "ok") /\ "ok" # Failed
  BY FailedIsNoAnswer DEF VersionAnswers, IsAnswer
<1>2. Faultless("version", "ok")
  BY <1>1 DEF Faultless, Fault
<1>3. todo' = todo \ {"version"} /\ UNCHANGED <<remembered, report>>
  BY DEF VersionAnswers, Proceed
<1>4. Records("version", "ok") /\ ~Stops("version", "ok")
  BY <1>2, <1>3, Passes DEF IInv
<1> QED BY <1>1, <1>3, <1>4 DEF Step

LEMMA FailsIsStep ==
  ASSUME IInv, NEW callback, NEW requirement, Fails(callback, requirement),
         \/ callback = "version" /\ requirement = "version"
         \/ callback \in {"fingerprint", "fingerprint_again"} /\ requirement = "configuration"
         \/ callback \in {"evaluate", "evaluate_again"} /\ requirement = "evaluate_contract"
  PROVE  Step(callback, Failed)
<1>1. Answered(callback, Failed) /\ IsAnswer(callback, Failed)
  BY DEF Fails, IsAnswer
<1>2. \A r \in Requirements : Fault(callback, Failed, r) <=> r = requirement
  BY DEF Fault, Requirements
<1>3. requirement \in ToSet(report.checked)
  <2>1. callback \in {"fingerprint", "fingerprint_again"} => "configuration" \in Made(index)
    BY <1>1, Making, Earlier
  <2> QED BY <1>1, <2>1, Making
<1>4. AddViolation(requirement) /\ todo' = {} /\ UNCHANGED remembered
  BY DEF Fails, Return
<1>5. requirement \in Requirements /\ requirement # "deterministic_source"
  BY DEF Requirements
<1>6. ShapeInv /\ callback \notin {"name", "configuration"}
  BY DEF IInv
<1>7. Records(callback, Failed) /\ Stops(callback, Failed)
  BY <1>2, <1>3, <1>4, <1>5, <1>6, AddsFault
<1> QED BY <1>1, <1>4, <1>7 DEF Step

LEMMA ConfigurationAnswersIsStep ==
  ASSUME IInv, NEW answer \in {"ok", Failed}, ConfigurationAnswers(answer)
  PROVE  Step("configuration", answer)
<1> DEFINE sound == answer = "ok" /\ Has(deployment[index], "fingerprint")
           missing == Append(report.violations, <<report.name, "configuration">>)
<1>1. /\ Answered("configuration", answer) /\ IsAnswer("configuration", answer)
      /\ IF sound THEN Proceed("configuration") ELSE Return
      /\ report' = [CheckedAlso("configuration") EXCEPT
                      !.compliant = @ /\ sound,
                      !.violations = IF sound THEN @ ELSE Append(@, <<report.name, "configuration">>)]
      /\ UNCHANGED remembered
  BY DEF ConfigurationAnswers, IsAnswer
<1>2. sound <=> answer # Failed /\ "fingerprinted" \in deployment[index]
  <2>1. "configuration" \in CallbacksOf(deployment[index])
    BY <1>1, Making DEF NextCallback
  <2>2. "configurable" \in deployment[index]
    BY <2>1 DEF CallbacksOf, Has
  <2> QED BY <2>2, FailedIsNoAnswer DEF Has
<1>3. \A r \in Requirements : Fault("configuration", answer, r) <=> (r = "configuration" /\ ~sound)
  BY <1>2 DEF Fault
<1>4. /\ report.checked \in Seq(AllRequirements) /\ "configuration" \in AllRequirements
      /\ report.compliant \in BOOLEAN
      /\ report = [name |-> report.name, compliant |-> report.compliant,
                   violations |-> report.violations, checked |-> report.checked]
  BY DEF IInv, ShapeInv, IsReport, AllRequirements, Requirements
<1>5. Stops("configuration", answer) <=> ~sound
  BY <1>3 DEF Stops, Requirements
<1>6. Faultless("configuration", answer) <=> sound
  BY <1>3 DEF Faultless, Requirements
<1>7. /\ Append(report.checked, "configuration") \in Seq(AllRequirements)
      /\ ToSet(Append(report.checked, "configuration")) = ToSet(report.checked) \cup {"configuration"}
  BY <1>4, AppendChecked
<1> DEFINE more == Append(report.checked, "configuration")
<1>8. /\ report'.name = report.name /\ report'.checked = more
      /\ sound => report'.compliant = report.compliant /\ report'.violations = report.violations
      /\ ~sound => report'.compliant = FALSE /\ report'.violations = missing
      /\ report' = [name |-> report'.name, compliant |-> report'.compliant,
                    violations |-> report'.violations, checked |-> report'.checked]
  <2> HIDE DEF sound
  <2>1. CASE sound
    BY <1>1, <1>4, <2>1 DEF CheckedAlso
  <2>2. CASE ~sound
    BY <1>1, <1>4, <2>2 DEF CheckedAlso
  <2> QED BY <2>1, <2>2
<1> HIDE DEF sound
<1>9. Records("configuration", answer)
  <2> HIDE DEF more
  <2>1. /\ more \in Seq(AllRequirements) /\ ToSet(report.checked) \subseteq ToSet(more)
        /\ "configuration" \in ToSet(more)
    BY <1>7 DEF more
  <2> QED BY <1>3, <1>6, <1>8, <2>1 DEF Records
<1> QED BY <1>1, <1>5, <1>9 DEF Step, Proceed, Return

LEMMA SourceAnswersIsStep ==
  ASSUME IInv, NEW source \in Sources \cup {Failed}, SourceAnswers(source)
  PROVE  Step("source", source)
<1> DEFINE sound == source # Failed /\ ValidatePrimitiveSource(source)
           refused == Append(report.violations, <<report.name, "deterministic_source">>)
           more == Append(report.checked, "deterministic_source")
<1>1. /\ Answered("source", source) /\ IsAnswer("source", source)
      /\ Proceed("source")
      /\ report' = [CheckedAlso("deterministic_source") EXCEPT
                      !.compliant = @ /\ sound,
                      !.violations = IF sound THEN @
                                     ELSE Append(@, <<report.name, "deterministic_source">>)]
      /\ UNCHANGED remembered
  BY DEF SourceAnswers, IsAnswer
<1>2. \A r \in Requirements : Fault("source", source, r) <=> (r = "deterministic_source" /\ ~sound)
  BY DEF Fault
<1>3. /\ report.checked \in Seq(AllRequirements) /\ "deterministic_source" \in AllRequirements
      /\ report.compliant \in BOOLEAN
      /\ report = [name |-> report.name, compliant |-> report.compliant,
                   violations |-> report.violations, checked |-> report.checked]
  BY DEF IInv, ShapeInv, IsReport, AllRequirements, Requirements
<1>4. /\ more \in Seq(AllRequirements)
      /\ ToSet(more) = ToSet(report.checked) \cup {"deterministic_source"}
  BY <1>3, AppendChecked
<1> HIDE DEF sound
<1>5. ~Stops("source", source)
  BY <1>2 DEF Stops, Requirements
<1>6. Faultless("source", source) <=> sound
  BY <1>2 DEF Faultless, Requirements
<1>7. /\ report'.name = report.name /\ report'.checked = more
      /\ sound => report'.compliant = report.compliant /\ report'.violations = report.violations
      /\ ~sound => report'.compliant = FALSE /\ report'.violations = refused
      /\ report' = [name |-> report'.name, compliant |-> report'.compliant,
                    violations |-> report'.violations, checked |-> report'.checked]
  <2>1. CASE sound
    BY <1>1, <1>3, <2>1 DEF CheckedAlso
  <2>2. CASE ~sound
    BY <1>1, <1>3, <2>2 DEF CheckedAlso
  <2> QED BY <2>1, <2>2
<1>8. Records("source", source)
  <2> HIDE DEF more
  <2>1. ToSet(report.checked) \subseteq ToSet(more) /\ "deterministic_source" \in ToSet(more)
    BY <1>4
  <2> QED BY <1>2, <1>4, <1>6, <1>7, <2>1 DEF Records
<1> QED BY <1>1, <1>5, <1>8 DEF Step, Proceed

LEMMA RememberIsStep ==
  ASSUME IInv, NEW callback, NEW answer, Remember(callback, answer),
         \/ callback = "fingerprint" /\ answer \in Fingerprints
         \/ callback = "evaluate" /\ answer \in Results
  PROVE  Step(callback, answer)
<1>1. Answered(callback, answer) /\ IsAnswer(callback, answer) /\ answer # Failed
  BY FailedIsNoAnswer DEF Remember, IsAnswer
<1>2. Faultless(callback, answer)
  BY <1>1 DEF Faultless, Fault
<1>3. todo' = todo \ {callback} /\ remembered' = answer /\ UNCHANGED report
  BY DEF Remember, Proceed
<1>4. Records(callback, answer) /\ ~Stops(callback, answer)
  BY <1>2, <1>3, Passes DEF IInv
<1> QED BY <1>1, <1>3, <1>4 DEF Step

LEMMA RepeatsIsStep ==
  ASSUME IInv, NEW callback, NEW answer, NEW requirement, Repeats(callback, answer, requirement),
         \/ /\ callback = "fingerprint_again" /\ answer \in Fingerprints
            /\ requirement = "configuration"
         \/ /\ callback = "evaluate_again" /\ answer \in Results
            /\ requirement = "repeatability"
  PROVE  Step(callback, answer)
<1>1. Answered(callback, answer) /\ IsAnswer(callback, answer) /\ answer # Failed
  BY FailedIsNoAnswer DEF Repeats, IsAnswer
<1>2. /\ callback = "fingerprint_again" => remembered = Answer(index, "fingerprint")
      /\ callback = "evaluate_again" => remembered = Answer(index, "evaluate")
  BY <1>1, Making
<1>3. \A r \in Requirements : Fault(callback, answer, r) <=> (r = requirement /\ answer # remembered)
  BY <1>1, <1>2 DEF Fault
<1>4. ShapeInv /\ requirement \in Requirements /\ UNCHANGED remembered
  BY DEF IInv, Requirements, Repeats
<1>5. CASE answer = remembered
  <2>1. todo' = todo \ {callback} /\ UNCHANGED report
    BY <1>5 DEF Repeats, Proceed
  <2>2. Faultless(callback, answer)
    BY <1>3, <1>5 DEF Faultless
  <2>3. Records(callback, answer) /\ ~Stops(callback, answer)
    BY <1>4, <2>1, <2>2, Passes
  <2> QED BY <1>1, <1>4, <2>1, <2>3 DEF Step
<1>6. CASE answer # remembered
  <2>1. todo' = {} /\ AddViolation(requirement)
    BY <1>6 DEF Repeats, Return
  <2>2. \A r \in Requirements : Fault(callback, answer, r) <=> r = requirement
    BY <1>3, <1>6
  <2>3. requirement \in ToSet(report.checked)
    <3>1. callback = "fingerprint_again" => "configuration" \in Made(index)
      BY <1>1, Making, Earlier
    <3> QED BY <1>1, <3>1, Making
  <2>4. Records(callback, answer) /\ Stops(callback, answer)
    BY <1>4, <2>1, <2>2, <2>3, AddsFault
  <2> QED BY <1>1, <1>4, <2>1, <2>4 DEF Step
<1> QED BY <1>5, <1>6

(* Every action of CheckPrimitive but the first is such a step. *)
LEMMA CheckPrimitiveSteps ==
  ASSUME IInv, CheckPrimitive, ~CheckPrimitiveBegins
  PROVE  \E callback, answer : Step(callback, answer)
<1>1. CASE \E name \in Names : NameAnswers(name)
  BY <1>1, NameAnswersIsStep
<1>2. CASE NameFails
  BY <1>2, NameFailsIsStep
<1>3. CASE VersionAnswers
  BY <1>3, VersionAnswersIsStep
<1>4. CASE Fails("version", "version")
  BY <1>4, FailsIsStep
<1>5. CASE \E answer \in {"ok", Failed} : ConfigurationAnswers(answer)
  BY <1>5, ConfigurationAnswersIsStep
<1>6. CASE \E fingerprint \in Fingerprints :
             \/ Remember("fingerprint", fingerprint)
             \/ Repeats("fingerprint_again", fingerprint, "configuration")
  BY <1>6, RememberIsStep, RepeatsIsStep
<1>7. CASE \E callback \in {"fingerprint", "fingerprint_again"} : Fails(callback, "configuration")
  BY <1>7, FailsIsStep
<1>8. CASE \E source \in Sources \cup {Failed} : SourceAnswers(source)
  BY <1>8, SourceAnswersIsStep
<1>9. CASE \E result \in Results :
             \/ Remember("evaluate", result)
             \/ Repeats("evaluate_again", result, "repeatability")
  BY <1>9, RememberIsStep, RepeatsIsStep
<1>10. CASE \E callback \in {"evaluate", "evaluate_again"} : Fails(callback, "evaluate_contract")
  BY <1>10, FailsIsStep
<1> QED BY <1>1, <1>2, <1>3, <1>4, <1>5, <1>6, <1>7, <1>8, <1>9, <1>10 DEF CheckPrimitive
-----------------------------------------------------------------------------
(* After such a step.                                                      *)

LEMMA OneFault ==
  ASSUME NEW callback, NEW answer, NEW r, NEW q,
         Fault(callback, answer, r), Fault(callback, answer, q)
  PROVE  r = q
BY DEF Fault

(* The log, the flaws and what has not changed. *)
LEMMA AfterStep ==
  ASSUME IInv, NEW callback, NEW answer, Step(callback, answer), NEW i, i = index
  PROVE  /\ LogsAlso(i, callback, answer)
         /\ \A j \in DOMAIN deployment : j # i => SameLog(j)
         /\ UNCHANGED <<deployment, index, phase, combined>>
         /\ DOMAIN log' = DOMAIN deployment
         /\ \A r \in Requirements : Flaw(i, r)' <=> (Flaw(i, r) \/ Fault(callback, answer, r))
         /\ Fatal(i)' <=> Stops(callback, answer)
<1>1. Answered(callback, answer)
  BY DEF Step
<1>2. NextCallback(callback) /\ ~Fatal(i) /\ index \in DOMAIN deployment
  BY <1>1, Making
<1>3. callback \notin Made(index)
  BY <1>2 DEF NextCallback
<1>4. ShapeInv
  BY DEF IInv
<1>5. /\ LogsAlso(i, callback, answer)
      /\ \A j \in DOMAIN deployment : j # i => SameLog(j)
      /\ DOMAIN log' = DOMAIN deployment
  BY <1>1, <1>2, <1>3, <1>4, LogAfter
<1>6. UNCHANGED <<deployment, index, phase, combined>>
  BY <1>1 DEF Answered
<1>7. \A r \in Requirements : Flaw(i, r)' <=> (Flaw(i, r) \/ Fault(callback, answer, r))
  BY <1>2, <1>5, <1>6, FlawsAfter
<1>8. Fatal(i)' <=> \E r \in Requirements \ {"deterministic_source"} : Flaw(i, r)'
  BY DEF Fatal
<1>9. Fatal(i)' <=> Stops(callback, answer)
  BY <1>2, <1>7, <1>8 DEF Stops, Fatal
<1> QED BY <1>5, <1>6, <1>7, <1>9

LEMMA StepKeepsAnswers ==
  ASSUME IInv, NEW callback, NEW answer, Step(callback, answer)
  PROVE  AnswersInv'
<1>1. /\ phase = "checking" /\ NextCallback(callback) /\ ~Fatal(index)
      /\ index \in DOMAIN deployment /\ IsAnswer(callback, answer)
  BY Making DEF Step
<1>2. /\ UNCHANGED <<deployment, index, phase>>
      /\ \A j \in DOMAIN deployment : j # index => SameLog(j)
  BY AfterStep
<1>3. SUFFICES ASSUME NEW i \in DOMAIN deployment
               PROVE  /\ i > index => Made(i)' = {}
                      /\ i < index => /\ deployment[i] # Nil
                                      /\ Fatal(i)' \/ Made(i)' = CallbacksOf(deployment[i])
                      /\ \A c \in Made(i)' : c \in CallbacksOf(deployment[i]) /\ IsAnswer(c, Answer(i, c)')
                      /\ "evaluate" \in Made(i)' => ~Refused(i)'
                      /\ "evaluate_again" \in Made(i)' => "evaluate" \in Made(i)'
  BY <1>1, <1>2 DEF AnswersInv
<1>4. /\ i > index => Made(i) = {}
      /\ i < index => /\ deployment[i] # Nil
                      /\ Fatal(i) \/ Made(i) = CallbacksOf(deployment[i])
      /\ \A c \in Made(i) : c \in CallbacksOf(deployment[i]) /\ IsAnswer(c, Answer(i, c))
      /\ "evaluate" \in Made(i) => ~Refused(i)
      /\ "evaluate_again" \in Made(i) => "evaluate" \in Made(i)
  BY DEF IInv, AnswersInv
<1>5. CASE i # index
  <2>1. SameLog(i)
    BY <1>2, <1>5
  <2>2. /\ Made(i)' = Made(i) /\ (\A c : Answer(i, c)' = Answer(i, c))
        /\ (Fatal(i)' <=> Fatal(i)) /\ (Refused(i)' <=> Refused(i))
    BY <2>1, SameLogSame
  <2> QED BY <1>4, <2>2
<1>6. CASE i = index
  <2>1. /\ LogsAlso(i, callback, answer)
        /\ \A r \in Requirements : Flaw(i, r)' <=> (Flaw(i, r) \/ Fault(callback, answer, r))
    BY <1>6, AfterStep
  <2>2. /\ Made(i)' = Made(i) \cup {callback} /\ Answer(i, callback)' = answer
        /\ \A c \in Made(i) : Answer(i, c)' = Answer(i, c)
    BY <2>1 DEF LogsAlso
  <2>3. ASSUME NEW c \in Made(i)'
        PROVE  c \in CallbacksOf(deployment[i]) /\ IsAnswer(c, Answer(i, c)')
    <3>1. CASE c = callback
      BY <1>1, <1>6, <2>2, <3>1 DEF NextCallback
    <3>2. CASE c \in Made(i)
      BY <1>4, <2>2, <3>2
    <3> QED BY <2>2, <3>1, <3>2
  <2>4. ASSUME "evaluate" \in Made(i)', Refused(i)'
        PROVE  FALSE
    <3>1. PICK r \in {"identity", "version", "configuration"} : Flaw(i, r)'
      BY <2>4 DEF Refused
    <3>2. r \in Requirements \ {"deterministic_source"}
      BY DEF Requirements
    <3>3. Fault(callback, answer, r)
      BY <1>1, <1>6, <2>1, <3>1, <3>2 DEF Fatal
    <3>4. callback \in {"name", "version", "configuration", "fingerprint", "fingerprint_again"}
      BY <3>3 DEF Fault
    <3>5. "evaluate" \notin Made(index)
      BY <1>1, <3>4, Earlier
    <3> QED BY <1>6, <2>2, <2>4, <3>4, <3>5
  <2>5. "evaluate_again" \in Made(i)' => "evaluate" \in Made(i)'
    <3>1. callback = "evaluate_again" => "evaluate" \in Made(i)
      BY <1>1, <1>6, Earlier
    <3> QED BY <1>4, <2>2, <3>1
  <2>6. ~(i > index) /\ ~(i < index)
    <3>1. index \in 1..(Len(deployment) + 1) /\ deployment \in Seq(Primitives \cup {Nil})
      BY DEF IInv, ShapeInv
    <3>2. Len(deployment) \in Nat
      BY <3>1
    <3> QED BY <1>6, <3>1, <3>2
  <2> QED BY <1>6, <2>3, <2>4, <2>5, <2>6
<1> QED BY <1>5, <1>6

LEMMA StepKeepsCheck ==
  ASSUME IInv, NEW callback, NEW answer, Step(callback, answer)
  PROVE  CheckInv'
<1> DEFINE i == index
<1>1. /\ phase = "checking" /\ NextCallback(callback) /\ ~Fatal(index) /\ callback \in todo
      /\ \A c \in todo : Order[callback] <= Order[c]
  BY Making DEF Step, Answered
<1>2. /\ UNCHANGED <<deployment, index, phase>>
      /\ LogsAlso(i, callback, answer)
      /\ Fatal(i)' <=> Stops(callback, answer)
  BY AfterStep
<1>3. /\ DOMAIN log'[index] = Made(index) \cup {callback} /\ log'[index][callback] = answer
      /\ \A c \in Made(index) : log'[index][c] = Answer(index, c)
  BY <1>2 DEF LogsAlso, Made, Answer
<1>4. /\ Made(index) \cap todo = {}
      /\ \A m \in Made(index), c \in todo : Order[m] < Order[c]
      /\ Made(index) \cup todo = CallbacksOf(deployment[index])
      /\ ("fingerprint" \in Made(index) /\ "fingerprint_again" \in todo) =>
           remembered = Answer(index, "fingerprint")
      /\ ("evaluate" \in Made(index) /\ "evaluate_again" \in todo) =>
           remembered = Answer(index, "evaluate")
  BY <1>1 DEF IInv, CheckInv
<1>5. /\ IF Stops(callback, answer) THEN todo' = {} ELSE todo' = todo \ {callback}
      /\ IF callback \in {"fingerprint", "evaluate"} /\ answer # Failed THEN remembered' = answer
         ELSE UNCHANGED remembered
  BY DEF Step
<1>6. (Made(index) \cup {callback}) \cap todo' = {}
  BY <1>4, <1>5
<1>7. ASSUME NEW m \in Made(index) \cup {callback}, NEW c \in todo'
      PROVE  Order[m] < Order[c]
  <2>1. c \in todo /\ c # callback
    BY <1>5
  <2>2. CASE m \in Made(index)
    BY <1>4, <2>1, <2>2
  <2>3. CASE m = callback
    <3>1. c \in Callbacks /\ callback \in Callbacks
      BY <1>1, <1>4, <2>1 DEF CallbacksOf
    <3>2. Order[c] # Order[callback]
      BY <2>1, <3>1 DEF Order, Callbacks
    <3>3. Order[c] \in Nat /\ Order[callback] \in Nat
      BY <3>1 DEF Order, Callbacks
    <3> QED BY <1>1, <2>1, <2>3, <3>2, <3>3
  <2> QED BY <2>2, <2>3
<1>8. /\ Stops(callback, answer) => todo' = {}
      /\ ~Stops(callback, answer) =>
           (Made(index) \cup {callback}) \cup todo' = CallbacksOf(deployment[index])
  BY <1>1, <1>4, <1>5
<1>9. ASSUME "fingerprint" \in Made(index) \cup {callback}, "fingerprint_again" \in todo'
      PROVE  remembered' = log'[index]["fingerprint"]
  <2>1. "fingerprint_again" \in todo /\ todo' # {} /\ ~Stops(callback, answer)
    BY <1>5, <1>9
  <2>2. CASE callback = "fingerprint"
    <3>1. answer # Failed
      BY <2>1, <2>2 DEF Stops, Fault, Requirements
    <3> QED BY <1>3, <1>5, <2>2, <3>1
  <2>3. CASE callback # "fingerprint"
    <3>1. callback # "evaluate"
      BY <1>1, <2>1 DEF Order
    <3> QED BY <1>3, <1>4, <1>5, <1>9, <2>1, <2>3, <3>1
  <2> QED BY <2>2, <2>3
<1>10. ASSUME "evaluate" \in Made(index) \cup {callback}, "evaluate_again" \in todo'
       PROVE  remembered' = log'[index]["evaluate"]
  <2>1. "evaluate_again" \in todo /\ todo' # {} /\ ~Stops(callback, answer)
    BY <1>5, <1>10
  <2>2. CASE callback = "evaluate"
    <3>1. answer # Failed
      BY <2>1, <2>2 DEF Stops, Fault, Requirements
    <3> QED BY <1>3, <1>5, <2>2, <3>1
  <2>3. CASE callback # "evaluate"
    <3>1. callback # "fingerprint"
      BY <1>1, <1>10, <2>3, Earlier
    <3> QED BY <1>3, <1>4, <1>5, <1>10, <2>1, <2>3, <3>1
  <2> QED BY <2>2, <2>3
<1>11. Fatal(index)' <=> Stops(callback, answer)
  BY <1>2 DEF Fatal, Flaw, Differs, FailedCallback, Made, Answer
<1>12. Made(index)' = Made(index) \cup {callback} /\ \A c : Answer(index, c)' = log'[index][c]
  BY <1>2, <1>3 DEF Made, Answer
<1> HIDE DEF i
<1>13. /\ Answer(index, "fingerprint")' = log'[index]["fingerprint"]
       /\ Answer(index, "evaluate")' = log'[index]["evaluate"]
  BY <1>12
<1> QED BY <1>2, <1>6, <1>7, <1>8, <1>9, <1>10, <1>11, <1>12, <1>13 DEF CheckInv

(* A primitive has one violation at most, but for that of its source, which *)
(* comes before the violations of Evaluate.                                 *)
LEMMA Concatenated ==
  ASSUME NEW S, NEW d \in Seq(S), NEW e \in S
  PROVE  /\ <<>> \o <<>> \o <<>> \o d \o <<>> \o <<>> = d
         /\ <<e>> \o <<>> \o <<>> \o <<>> \o <<>> \o <<>> = Append(<<>>, e)
         /\ <<>> \o <<e>> \o <<>> \o <<>> \o <<>> \o <<>> = Append(<<>>, e)
         /\ <<>> \o <<>> \o <<e>> \o <<>> \o <<>> \o <<>> = Append(<<>>, e)
         /\ <<>> \o <<>> \o <<>> \o <<e>> \o <<>> \o <<>> = Append(<<>>, e)
         /\ <<>> \o <<>> \o <<>> \o d \o <<e>> \o <<>> = Append(d, e)
         /\ <<>> \o <<>> \o <<>> \o d \o <<>> \o <<e>> = Append(d, e)
<1>1. /\ <<e>> \in Seq(S) /\ <<>> \in Seq(S) /\ Append(<<>>, e) = <<e>>
      /\ \A s \in Seq(S) : <<>> \o s = s /\ s \o <<>> = s
  OBVIOUS
<1>2. d \o <<e>> = Append(d, e) /\ Append(d, e) \in Seq(S)
  OBVIOUS
<1> QED BY <1>1, <1>2

LEMMA ViolationsBefore ==
  ASSUME NEW i, ~Fatal(i)
  PROVE  /\ \A r \in Requirements \ {"deterministic_source"} : ViolationIf(i, r) = <<>>
         /\ ViolationsOf(i) = ViolationIf(i, "deterministic_source")
         /\ ViolationsOf(i) = IF Flaw(i, "deterministic_source")
                              THEN << <<NameOf(i), "deterministic_source">> >> ELSE <<>>
<1>1. \A r \in Requirements \ {"deterministic_source"} : ViolationIf(i, r) = <<>>
  BY DEF Fatal, ViolationIf
<1>2. ViolationIf(i, "deterministic_source") \in Seq({<<NameOf(i), "deterministic_source">>})
  <2> DEFINE e == <<NameOf(i), "deterministic_source">>
  <2>1. <<e>> \in Seq({e}) /\ <<>> \in Seq({e})
    <3> HIDE DEF e
    <3> QED OBVIOUS
  <2>2. CASE Flaw(i, "deterministic_source")
    BY <2>1, <2>2 DEF ViolationIf
  <2>3. CASE ~Flaw(i, "deterministic_source")
    BY <2>1, <2>3 DEF ViolationIf
  <2> QED BY <2>2, <2>3
<1>3. <<>> \o <<>> \o <<>> \o ViolationIf(i, "deterministic_source") \o <<>> \o <<>> =
        ViolationIf(i, "deterministic_source")
  BY <1>2, Concatenated
<1>4. ViolationsOf(i) = ViolationIf(i, "deterministic_source")
  <2>1. /\ ViolationIf(i, "identity") = <<>> /\ ViolationIf(i, "version") = <<>>
        /\ ViolationIf(i, "configuration") = <<>> /\ ViolationIf(i, "evaluate_contract") = <<>>
        /\ ViolationIf(i, "repeatability") = <<>>
    BY <1>1 DEF Requirements
  <2> QED BY <1>3, <2>1 DEF ViolationsOf
<1> QED BY <1>1, <1>4 DEF ViolationIf

LEMMA StepKeepsName ==
  ASSUME IInv, NEW callback, NEW answer, Step(callback, answer), NEW i, i = index
  PROVE  /\ report'.name = NameOf(i)'
         /\ report.name = NameOf(i)
         /\ callback # "name" => NameOf(i)' = NameOf(i)
<1>1. Answered(callback, answer) /\ phase = "checking"
  BY Making DEF Step
<1>2. /\ Made(i)' = Made(i) \cup {callback} /\ Answer(i, callback)' = answer
      /\ \A c \in Made(i) : Answer(i, c)' = Answer(i, c)
  <2>1. LogsAlso(i, callback, answer)
    BY AfterStep
  <2> QED BY <2>1 DEF LogsAlso
<1>3. report.name = NameOf(i)
  BY <1>1 DEF IInv, ReportInv
<1>4. report'.name = IF callback = "name" /\ answer \notin {Failed, ""} THEN answer ELSE report.name
  BY DEF Step, Records
<1>5. CASE callback = "name"
  <2>1. report.name = "unknown"
    BY <1>1, <1>5, FirstHasNothing
  <2>2. "name" \in Made(i)' /\ Answer(i, "name")' = answer
    BY <1>2, <1>5
  <2> QED BY <1>3, <1>4, <1>5, <2>1, <2>2 DEF NameOf
<1>6. CASE callback # "name"
  <2>1. NameOf(i)' = NameOf(i)
    <3>1. CASE "name" \in Made(i)
      BY <1>2, <3>1 DEF NameOf
    <3>2. CASE "name" \notin Made(i)
      BY <1>2, <1>6, <3>2 DEF NameOf
    <3> QED BY <3>1, <3>2
  <2> QED BY <1>3, <1>4, <1>6, <2>1
<1> QED BY <1>5, <1>6

(* Which violations stand in the way of which callback. *)
LEMMA SourceIsAlone ==
  ASSUME NEW i, i = index, NEW callback, NEW answer, NEW r \in Requirements,
         NextCallback(callback), Fault(callback, answer, r),
         r \notin {"evaluate_contract", "repeatability"}
  PROVE  ~Flaw(i, "deterministic_source")
<1>1. callback \in {"name", "version", "configuration", "fingerprint", "fingerprint_again", "source"}
  BY DEF Fault, Requirements
<1>2. "source" \notin Made(index)
  <2>1. CASE callback = "source"
    BY <2>1 DEF NextCallback
  <2>2. CASE callback # "source"
    BY <1>1, <2>2, Earlier
  <2> QED BY <2>1, <2>2
<1> QED BY <1>2 DEF Flaw

LEMMA StepKeepsViolations ==
  ASSUME IInv, NEW callback, NEW answer, Step(callback, answer), NEW i, i = index
  PROVE  report'.violations = ViolationsOf(i)'
<1>1. /\ phase = "checking" /\ NextCallback(callback) /\ ~Fatal(i)
  BY Making DEF Step
<1>2. \A r \in Requirements : Flaw(i, r)' <=> (Flaw(i, r) \/ Fault(callback, answer, r))
  BY AfterStep
<1>3. /\ report.name = NameOf(i) /\ report'.name = NameOf(i)'
      /\ callback # "name" => NameOf(i)' = NameOf(i)
  BY StepKeepsName
<1>4. report.violations = ViolationsOf(i)
  BY <1>1 DEF IInv, ReportInv
<1>5. /\ Faultless(callback, answer) => report'.violations = report.violations
      /\ \A r \in Requirements : Fault(callback, answer, r) =>
           report'.violations = Append(report.violations, <<report.name, r>>)
      /\ report'.name = IF callback = "name" /\ answer \notin {Failed, ""} THEN answer ELSE report.name
  BY DEF Step, Records
<1>6. /\ \A r \in Requirements \ {"deterministic_source"} : ViolationIf(i, r) = <<>>
      /\ ViolationsOf(i) = ViolationIf(i, "deterministic_source")
  BY <1>1, ViolationsBefore
<1>7. Flaw(i, "deterministic_source") => callback # "name"
  <2>1. callback = "name" => "source" \notin Made(i)
    BY <1>1, Earlier
  <2> QED BY <2>1 DEF Flaw
<1>8. CASE Faultless(callback, answer)
  <2>1. \A r \in Requirements : Flaw(i, r)' <=> Flaw(i, r)
    BY <1>2, <1>8 DEF Faultless
  <2>2. \A r \in Requirements \ {"deterministic_source"} : ~Flaw(i, r)
    BY <1>1 DEF Fatal
  <2>3. \A r \in Requirements : ViolationIf(i, r)' = ViolationIf(i, r)
    BY <1>3, <1>7, <2>1, <2>2 DEF ViolationIf
  <2>4. ViolationsOf(i)' = ViolationsOf(i)
    BY <2>3 DEF ViolationsOf, Requirements
  <2> QED BY <1>4, <1>5, <1>8, <2>4
<1>9. CASE ~Faultless(callback, answer)
  <2>1. PICK r \in Requirements : Fault(callback, answer, r)
    BY <1>9 DEF Faultless
  <2>2. \A q \in Requirements : Fault(callback, answer, q) <=> q = r
    BY <2>1, OneFault
  <2>3. NameOf(i)' = report.name
    <3>1. callback = "name" => answer = Failed
      BY <2>1 DEF Fault
    <3> QED BY <1>3, <1>5, <3>1
  <2> DEFINE e == <<report.name, r>>
             d == ViolationIf(i, "deterministic_source")
  <2>4. ViolationIf(i, r)' = <<e>> \/ r = "deterministic_source"
    BY <1>2, <2>1, <2>3 DEF ViolationIf
  <2>5. \A q \in Requirements \ {"deterministic_source", r} : ViolationIf(i, q)' = <<>>
    <3>1. ASSUME NEW q \in Requirements \ {"deterministic_source", r} PROVE ~Flaw(i, q)'
      BY <1>1, <1>2, <2>2, <3>1 DEF Fatal
    <3> QED BY <3>1 DEF ViolationIf
  <2>6. r # "deterministic_source" => ViolationIf(i, "deterministic_source")' = d
    <3>1. ASSUME r # "deterministic_source"
          PROVE  Flaw(i, "deterministic_source")' <=> Flaw(i, "deterministic_source")
      BY <1>2, <2>2, <3>1 DEF Requirements
    <3> QED BY <1>3, <1>7, <3>1 DEF ViolationIf
  <2>7. r \notin {"evaluate_contract", "repeatability"} => d = <<>>
    <3>1. r \notin {"evaluate_contract", "repeatability"} => ~Flaw(i, "deterministic_source")
      BY <1>1, <2>1, SourceIsAlone
    <3> QED BY <3>1 DEF ViolationIf
  <2>8. r = "deterministic_source" => ViolationIf(i, "deterministic_source")' = <<e>>
    BY <1>2, <2>1, <2>3 DEF ViolationIf, Requirements
  <2>9. d \in Seq({e, <<NameOf(i), "deterministic_source">>})
    <3> DEFINE f == <<NameOf(i), "deterministic_source">>
    <3>1. <<f>> \in Seq({e, f}) /\ <<>> \in Seq({e, f})
      <4> HIDE DEF e, f
      <4> QED OBVIOUS
    <3>2. CASE Flaw(i, "deterministic_source")
      BY <3>1, <3>2 DEF ViolationIf
    <3>3. CASE ~Flaw(i, "deterministic_source")
      BY <3>1, <3>3 DEF ViolationIf
    <3> QED BY <3>2, <3>3
  <2>10. ViolationsOf(i)' = Append(d, e)
    <3>1. r \in {"identity", "version", "configuration", "deterministic_source",
                 "evaluate_contract", "repeatability"}
      BY DEF Requirements
    <3>2. ViolationsOf(i)' =
            ViolationIf(i, "identity")' \o ViolationIf(i, "version")' \o ViolationIf(i, "configuration")'
              \o ViolationIf(i, "deterministic_source")' \o ViolationIf(i, "evaluate_contract")'
              \o ViolationIf(i, "repeatability")'
      BY DEF ViolationsOf
    <3>3. \A q \in {"identity", "version", "configuration", "deterministic_source",
                    "evaluate_contract", "repeatability"} : q \in Requirements
      BY DEF Requirements
    <3> HIDE DEF e, d
    <3> DEFINE S == {e, <<NameOf(i), "deterministic_source">>}
    <3>4. e \in S /\ d \in Seq(S)
      BY <2>9
    <3> HIDE DEF S
    <3>5. /\ <<e>> \o <<>> \o <<>> \o <<>> \o <<>> \o <<>> = Append(<<>>, e)
          /\ <<>> \o <<e>> \o <<>> \o <<>> \o <<>> \o <<>> = Append(<<>>, e)
          /\ <<>> \o <<>> \o <<e>> \o <<>> \o <<>> \o <<>> = Append(<<>>, e)
          /\ <<>> \o <<>> \o <<>> \o <<e>> \o <<>> \o <<>> = Append(<<>>, e)
          /\ <<>> \o <<>> \o <<>> \o d \o <<e>> \o <<>> = Append(d, e)
          /\ <<>> \o <<>> \o <<>> \o d \o <<>> \o <<e>> = Append(d, e)
      BY <3>4, Concatenated
    <3>6. CASE r = "identity"
      BY <2>4, <2>5, <2>6, <2>7, <3>2, <3>3, <3>5, <3>6
    <3>7. CASE r = "version"
      BY <2>4, <2>5, <2>6, <2>7, <3>2, <3>3, <3>5, <3>7
    <3>8. CASE r = "configuration"
      BY <2>4, <2>5, <2>6, <2>7, <3>2, <3>3, <3>5, <3>8
    <3>9. CASE r = "deterministic_source"
      BY <2>5, <2>7, <2>8, <3>2, <3>3, <3>5, <3>9
    <3>10. CASE r = "evaluate_contract"
      BY <2>4, <2>5, <2>6, <3>2, <3>3, <3>5, <3>10
    <3>11. CASE r = "repeatability"
      BY <2>4, <2>5, <2>6, <3>2, <3>3, <3>5, <3>11
    <3> QED BY <3>1, <3>6, <3>7, <3>8, <3>9, <3>10, <3>11
  <2>11. report'.violations = Append(d, e)
    BY <1>4, <1>5, <1>6, <2>1
  <2> QED BY <2>10, <2>11
<1> QED BY <1>8, <1>9

LEMMA IndexUnchanged ==
  ASSUME NEW i, i = index, UNCHANGED index
  PROVE  /\ Made(index)' = Made(i)'
         /\ NameOf(index)' = NameOf(i)'
         /\ ViolationsOf(index)' = ViolationsOf(i)'
<1>1. Made(index)' = Made(i)' /\ NameOf(index)' = NameOf(i)'
  BY DEF NameOf, Made, Answer
<1>2. ASSUME NEW r PROVE ViolationIf(index, r)' = ViolationIf(i, r)'
  <2>1. Flaw(index, r)' <=> Flaw(i, r)'
    BY DEF Flaw, FailedCallback, Differs, Made, Answer
  <2> QED BY <1>1, <2>1 DEF ViolationIf
<1>3. ViolationsOf(index)' = ViolationsOf(i)'
  BY <1>2 DEF ViolationsOf
<1> QED BY <1>1, <1>3

LEMMA StepKeepsReport ==
  ASSUME IInv, NEW callback, NEW answer, Step(callback, answer)
  PROVE  ReportInv'
<1>1. phase = "checking" /\ callback \in todo
  BY Making DEF Step
<1>2. UNCHANGED <<deployment, index, phase>>
  BY AfterStep
<1>3. ASSUME NEW i, i = index
      PROVE  /\ report'.name = NameOf(i)'
             /\ report'.violations = ViolationsOf(i)'
             /\ Made(i)' = Made(i) \cup {callback}
  <2>1. LogsAlso(i, callback, answer)
    BY <1>3, AfterStep
  <2> QED BY <1>3, <2>1, StepKeepsName, StepKeepsViolations DEF LogsAlso
<1>4. /\ report'.name = NameOf(index)'
      /\ report'.violations = ViolationsOf(index)'
      /\ Made(index)' = Made(index) \cup {callback}
  BY <1>2, <1>3, IndexUnchanged
<1>5. /\ {"version", "evaluate_contract", "repeatability"} \subseteq ToSet(report.checked)
      /\ "configuration" \in Made(index) => "configuration" \in ToSet(report.checked)
  BY <1>1 DEF IInv, ReportInv
<1>6. /\ todo' # {} => ToSet(report.checked) \subseteq ToSet(report'.checked)
      /\ callback = "configuration" => "configuration" \in ToSet(report'.checked)
  BY DEF Step, Records
<1> QED BY <1>4, <1>5, <1>6 DEF ReportInv

LEMMA StepKeepsShape ==
  ASSUME IInv, NEW callback, NEW answer, Step(callback, answer)
  PROVE  ShapeInv'
<1>1. /\ phase = "checking" /\ index \in DOMAIN deployment
      /\ UNCHANGED <<deployment, index, phase, combined>> /\ DOMAIN log' = DOMAIN deployment
  BY Making, AfterStep DEF Step
<1>2. /\ IsReport(report) /\ IsReport(combined) /\ report.name \in (Names \cup {"unknown"}) \ {""}
      /\ deployment[index] # Nil
      /\ deployment \in Seq(Primitives \cup {Nil}) /\ index \in 1..(Len(deployment) + 1)
  BY <1>1 DEF IInv, ShapeInv
<1>3. Records(callback, answer) /\ IsAnswer(callback, answer)
  BY DEF Step
<1>4. report'.name \in (Names \cup {"unknown"}) \ {""}
  <2>1. (callback = "name" /\ answer # Failed) => answer \in Names
    BY <1>3 DEF IsAnswer
  <2> QED BY <1>2, <1>3, <2>1 DEF Records
<1>5. IsReport(report')
  <2>1. /\ report.violations \in Seq(ReportedNames \X AllRequirements)
        /\ report.compliant \in BOOLEAN
        /\ \A n \in DOMAIN report.violations : report.violations[n][2] \in ToSet(report.checked)
        /\ report.compliant <=> report.violations = <<>>
    BY <1>2 DEF IsReport
  <2>2. report'.checked \in Seq(AllRequirements)
    BY <1>3 DEF Records
  <2>3. CASE Faultless(callback, answer)
    <3>1. report'.violations = report.violations /\ report'.compliant = report.compliant
      BY <1>3, <2>3 DEF Records
    <3>2. ToSet(report.checked) \subseteq ToSet(report'.checked)
      <4>1. ~Stops(callback, answer)
        BY <2>3 DEF Stops, Faultless
      <4> QED BY <1>3, <4>1 DEF Records
    <3> QED BY <2>1, <2>2, <3>1, <3>2 DEF IsReport
  <2>4. CASE ~Faultless(callback, answer)
    <3>1. PICK r \in Requirements : Fault(callback, answer, r)
      BY <2>4 DEF Faultless
    <3> DEFINE e == <<report.name, r>>
    <3>2. /\ report'.violations = Append(report.violations, e) /\ report'.compliant = FALSE
          /\ r \in ToSet(report'.checked)
          /\ report.violations = <<>> \/ ToSet(report.checked) \subseteq ToSet(report'.checked)
      BY <1>3, <3>1 DEF Records
    <3>3. e \in ReportedNames \X AllRequirements /\ e[2] = r
      BY <1>2 DEF ReportedNames, AllRequirements
    <3> HIDE DEF e
    <3>4. /\ report'.violations \in Seq(ReportedNames \X AllRequirements)
          /\ report'.violations # <<>>
      BY <2>1, <3>2, <3>3
    <3>5. ASSUME NEW n \in DOMAIN report'.violations
          PROVE  report'.violations[n][2] \in ToSet(report'.checked)
      <4>1. CASE n \in DOMAIN report.violations
        <5>1. report'.violations[n] = report.violations[n] /\ report.violations # <<>>
          BY <2>1, <3>2, <4>1
        <5> QED BY <2>1, <3>2, <4>1, <5>1
      <4>2. CASE n \notin DOMAIN report.violations
        <5>1. report'.violations[n] = e
          BY <2>1, <3>2, <3>5, <4>2
        <5> QED BY <3>2, <3>3, <5>1
      <4> QED BY <4>1, <4>2
    <3> QED BY <2>2, <3>2, <3>4, <3>5 DEF IsReport
  <2> QED BY <2>3, <2>4
<1>6. report' = [name |-> report'.name, compliant |-> report'.compliant,
                 violations |-> report'.violations, checked |-> report'.checked]
  BY <1>3 DEF Records
<1> QED BY <1>1, <1>2, <1>4, <1>5, <1>6 DEF ShapeInv

LEMMA ViolationsAreSequence ==
  ASSUME NEW i
  PROVE  ViolationsOf(i) \in Seq({NameOf(i)} \X Requirements)
<1> DEFINE S == {NameOf(i)} \X Requirements
<1>1. ASSUME NEW r \in Requirements PROVE ViolationIf(i, r) \in Seq(S)
  <2> DEFINE e == <<NameOf(i), r>>
  <2>1. e \in S
    OBVIOUS
  <2>2. <<e>> \in Seq(S) /\ <<>> \in Seq(S)
    <3> HIDE DEF e, S
    <3> QED BY <2>1
  <2>3. CASE Flaw(i, r)
    BY <2>2, <2>3 DEF ViolationIf
  <2>4. CASE ~Flaw(i, r)
    BY <2>2, <2>4 DEF ViolationIf
  <2> QED BY <2>3, <2>4
<1>2. /\ ViolationIf(i, "identity") \in Seq(S) /\ ViolationIf(i, "version") \in Seq(S)
      /\ ViolationIf(i, "configuration") \in Seq(S)
      /\ ViolationIf(i, "deterministic_source") \in Seq(S)
      /\ ViolationIf(i, "evaluate_contract") \in Seq(S)
      /\ ViolationIf(i, "repeatability") \in Seq(S)
  <2> HIDE DEF S
  <2> QED BY <1>1 DEF Requirements
<1>3. \A s, t \in Seq(S) : s \o t \in Seq(S)
  <2> HIDE DEF S
  <2> QED OBVIOUS
<1> HIDE DEF S
<1>4. ViolationsOf(i) \in Seq(S)
  BY <1>2, <1>3 DEF ViolationsOf
<1> QED BY <1>4 DEF S

LEMMA Deployed ==
  ASSUME ShapeInv
  PROVE  /\ Len(deployment) \in Nat /\ DOMAIN deployment = 1..Len(deployment)
         /\ index \in 1..(Len(deployment) + 1) /\ index \in Nat
<1>1. deployment \in Seq(Primitives \cup {Nil}) /\ index \in 1..(Len(deployment) + 1)
  BY DEF ShapeInv
<1>2. Len(deployment) \in Nat /\ DOMAIN deployment = 1..Len(deployment)
  BY <1>1
<1> QED BY <1>1, <1>2

LEMMA StepKeepsCombined ==
  ASSUME IInv, NEW callback, NEW answer, Step(callback, answer)
  PROVE  CombinedInv'
<1> DEFINE v == combined.violations
           k == index - 1
<1>1. /\ index \in DOMAIN deployment /\ phase = "checking"
      /\ UNCHANGED <<deployment, index, phase, combined>>
      /\ \A j \in DOMAIN deployment : j # index => SameLog(j)
  BY Making, AfterStep DEF Step
<1>2. index \in 1..(Len(deployment) + 1) /\ Len(deployment) \in Nat /\ DOMAIN deployment = 1..Len(deployment)
  BY Deployed DEF IInv
<1>3. \A i \in 1..k : ViolationsOf(i)' = ViolationsOf(i)
  <2>1. \A i \in 1..k : i \in DOMAIN deployment /\ i # index
    BY <1>1, <1>2
  <2> QED BY <1>1, <2>1, SameLogSame
<1>4. Lists(v, k)
  BY <1>1, <1>2 DEF IInv, CombinedInv
<1>5. PICK ends \in [0..k -> 0..Len(v)] :
        /\ ends[0] = 0
        /\ ends[k] = Len(v)
        /\ \A i \in 1..k :
             /\ ends[i] = ends[i - 1] + Len(ViolationsOf(i))
             /\ \A n \in DOMAIN ViolationsOf(i) : v[ends[i - 1] + n] = ViolationsOf(i)[n]
  BY <1>4 DEF Lists
<1>6. v' = v /\ k' = k
  BY <1>1
<1>7. \A i \in 1..k :
        /\ ends[i] = ends[i - 1] + Len(ViolationsOf(i)')
        /\ \A n \in DOMAIN ViolationsOf(i)' : v[ends[i - 1] + n] = ViolationsOf(i)'[n]
  BY <1>3, <1>5
<1>8. Lists(v, k)'
  <2> HIDE DEF v, k
  <2> QED BY <1>5, <1>6, <1>7 DEF Lists
<1> QED BY <1>8 DEF CombinedInv

LEMMA StepKeepsInv ==
  ASSUME IInv, NEW callback, NEW answer, Step(callback, answer)
  PROVE  IInv'
BY StepKeepsAnswers, StepKeepsCheck, StepKeepsReport, StepKeepsShape, StepKeepsCombined DEF IInv
-----------------------------------------------------------------------------
(* The other actions.                                                      *)

(* When the log stays, so does all that is said of it. *)
LEMMA LogUnchanged ==
  ASSUME UNCHANGED <<deployment, log>>, NEW i
  PROVE  /\ Made(i)' = Made(i)
         /\ \A c : Answer(i, c)' = Answer(i, c)
         /\ Fatal(i)' <=> Fatal(i)
         /\ Refused(i)' <=> Refused(i)
         /\ NameOf(i)' = NameOf(i)
         /\ ViolationsOf(i)' = ViolationsOf(i)
<1>1. SameLog(i)
  BY DEF SameLog
<1> QED BY <1>1, SameLogSame

LEMMA ListsUnchanged ==
  ASSUME UNCHANGED <<deployment, log, combined, index>>,
         Lists(combined.violations, index - 1)
  PROVE  Lists(combined.violations, index - 1)'
<1> DEFINE v == combined.violations
           k == index - 1
<1>1. PICK ends \in [0..k -> 0..Len(v)] :
        /\ ends[0] = 0
        /\ ends[k] = Len(v)
        /\ \A i \in 1..k :
             /\ ends[i] = ends[i - 1] + Len(ViolationsOf(i))
             /\ \A n \in DOMAIN ViolationsOf(i) : v[ends[i - 1] + n] = ViolationsOf(i)[n]
  BY DEF Lists
<1>2. \A i : ViolationsOf(i)' = ViolationsOf(i)
  BY LogUnchanged
<1>3. \A i \in 1..k :
        /\ ends[i] = ends[i - 1] + Len(ViolationsOf(i)')
        /\ \A n \in DOMAIN ViolationsOf(i)' : v[ends[i - 1] + n] = ViolationsOf(i)'[n]
  BY <1>1, <1>2
<1>4. v' = v /\ k' = k
  OBVIOUS
<1> HIDE DEF v, k
<1>5. Lists(v, k)'
  BY <1>1, <1>3, <1>4 DEF Lists
<1> QED BY <1>5 DEF v, k

(* What a step that leaves the log and the primitive under check keeps.     *)
LEMMA AnswersUnchanged ==
  ASSUME AnswersInv, UNCHANGED <<deployment, log, index>>, phase # "checking"
  PROVE  AnswersInv'
<1>1. ASSUME NEW i \in DOMAIN deployment
      PROVE  /\ i > index => Made(i)' = {}
             /\ i = index => Made(i)' = {}
             /\ i < index => /\ deployment[i] # Nil
                             /\ Fatal(i)' \/ Made(i)' = CallbacksOf(deployment[i])
             /\ \A c \in Made(i)' : c \in CallbacksOf(deployment[i]) /\ IsAnswer(c, Answer(i, c)')
             /\ "evaluate" \in Made(i)' => ~Refused(i)'
             /\ "evaluate_again" \in Made(i)' => "evaluate" \in Made(i)'
  <2>1. /\ i > index => Made(i) = {}
        /\ i = index => Made(i) = {}
        /\ i < index => /\ deployment[i] # Nil
                        /\ Fatal(i) \/ Made(i) = CallbacksOf(deployment[i])
        /\ \A c \in Made(i) : c \in CallbacksOf(deployment[i]) /\ IsAnswer(c, Answer(i, c))
        /\ "evaluate" \in Made(i) => ~Refused(i)
        /\ "evaluate_again" \in Made(i) => "evaluate" \in Made(i)
    BY DEF AnswersInv
  <2>2. /\ Made(i)' = Made(i) /\ (\A c : Answer(i, c)' = Answer(i, c))
        /\ (Fatal(i)' <=> Fatal(i)) /\ (Refused(i)' <=> Refused(i))
    BY LogUnchanged
  <2> QED BY <2>1, <2>2
<1> QED BY <1>1 DEF AnswersInv

LEMMA CheckPrimitiveBeginsKeepsInv ==
  ASSUME IInv, CheckPrimitiveBegins
  PROVE  IInv'
<1>1. /\ phase = "next" /\ index \in DOMAIN deployment /\ deployment[index] # Nil
      /\ phase' = "checking" /\ todo' = CallbacksOf(deployment[index])
      /\ report' = [name |-> "unknown", compliant |-> TRUE, violations |-> <<>>,
                    checked |-> <<"version", "evaluate_contract", "repeatability">>]
      /\ UNCHANGED <<deployment, index, remembered, combined, log>>
  BY DEF CheckPrimitiveBegins
<1>2. AnswersInv'
  BY <1>1, AnswersUnchanged DEF IInv
<1>3. ASSUME NEW i, i = index
      PROVE  Made(i)' = {} /\ ~Fatal(i)' /\ NameOf(i)' = "unknown" /\ ViolationsOf(i)' = <<>>
  <2>1. Made(i) = {}
    BY <1>1, <1>3 DEF IInv, AnswersInv
  <2>2. \A r : ~Flaw(i, r)
    BY <2>1 DEF Flaw, FailedCallback, Differs
  <2>3. ~Fatal(i) /\ ViolationsOf(i) = <<>> /\ NameOf(i) = "unknown"
    BY <2>1, <2>2, ViolationsBefore DEF Fatal, NameOf
  <2> QED BY <1>1, <2>1, <2>3, LogUnchanged
<1>4. Made(index)' = {} /\ NameOf(index)' = "unknown" /\ ViolationsOf(index)' = <<>>
  BY <1>1, <1>3, IndexUnchanged
<1>5. ~Fatal(index)'
  BY <1>4 DEF Fatal, Flaw, FailedCallback, Differs
<1>6. CheckInv'
  BY <1>1, <1>4, <1>5 DEF CheckInv
<1>7. ReportInv'
  BY <1>1, <1>4 DEF ReportInv, ToSet
<1>8. CombinedInv'
  BY <1>1, ListsUnchanged DEF IInv, CombinedInv
<1>9. IsReport(report') /\ report'.name \in (Names \cup {"unknown"}) \ {""}
  BY <1>1 DEF IsReport, AllRequirements, Requirements
<1>10. ShapeInv'
  BY <1>1, <1>9 DEF IInv, ShapeInv
<1> QED BY <1>2, <1>6, <1>7, <1>8, <1>10 DEF IInv

LEMMA CheckNothingKeepsInv ==
  ASSUME IInv, CheckNothing
  PROVE  IInv'
<1>1. /\ phase = "next" /\ deployment = <<>> /\ phase' = "returned"
      /\ combined' = [compliant  |-> FALSE,
                      violations |-> << <<"deployment", "non_empty_deployment">> >>,
                      checked    |-> <<"non_empty_deployment">>]
      /\ UNCHANGED <<deployment, index, todo, remembered, report, log>>
  BY DEF CheckNothing
<1>2. AnswersInv'
  BY <1>1, AnswersUnchanged DEF IInv
<1>3. CheckInv' /\ ReportInv' /\ CombinedInv'
  BY <1>1 DEF CheckInv, ReportInv, CombinedInv
<1>4. IsReport(combined')
  <2> DEFINE e == <<"deployment", "non_empty_deployment">>
  <2>1. e \in ReportedNames \X AllRequirements /\ e[2] = "non_empty_deployment"
    BY DEF ReportedNames, AllRequirements
  <2>2. combined'.checked \in Seq(AllRequirements)
        /\ "non_empty_deployment" \in ToSet(combined'.checked)
    BY <1>1 DEF AllRequirements, ToSet
  <2>3. combined'.violations = <<e>> /\ combined'.compliant = FALSE
    BY <1>1
  <2> HIDE DEF e
  <2>4. /\ <<e>> \in Seq(ReportedNames \X AllRequirements) /\ <<e>> # <<>>
        /\ \A n \in DOMAIN <<e>> : <<e>>[n] = e
    BY <2>1
  <2> QED BY <2>1, <2>2, <2>3, <2>4 DEF IsReport
<1>5. ShapeInv'
  BY <1>1, <1>4 DEF IInv, ShapeInv
<1> QED BY <1>2, <1>3, <1>5 DEF IInv

LEMMA CheckNilKeepsInv ==
  ASSUME IInv, CheckNil
  PROVE  IInv'
<1>1. /\ phase = "next" /\ phase' = "error"
      /\ UNCHANGED <<deployment, index, todo, remembered, report, combined, log>>
  BY DEF CheckNil
<1>2. AnswersInv'
  BY <1>1, AnswersUnchanged DEF IInv
<1>3. CheckInv' /\ ReportInv' /\ CombinedInv'
  BY <1>1 DEF CheckInv, ReportInv, CombinedInv
<1>4. ShapeInv'
  BY <1>1 DEF IInv, ShapeInv
<1> QED BY <1>2, <1>3, <1>4 DEF IInv

LEMMA CheckAllReturnsKeepsInv ==
  ASSUME IInv, CheckAllReturns
  PROVE  IInv'
<1>1. /\ phase = "next" /\ deployment # <<>> /\ index = Len(deployment) + 1 /\ phase' = "returned"
      /\ UNCHANGED <<deployment, index, todo, remembered, report, combined, log>>
  BY DEF CheckAllReturns
<1>2. AnswersInv'
  BY <1>1, AnswersUnchanged DEF IInv
<1>3. CheckInv' /\ ReportInv'
  BY <1>1 DEF CheckInv, ReportInv
<1>4. CombinedInv'
  BY <1>1, ListsUnchanged DEF IInv, CombinedInv
<1>5. ShapeInv'
  BY <1>1 DEF IInv, ShapeInv
<1> QED BY <1>2, <1>3, <1>4, <1>5 DEF IInv

(* One more primitive is listed. *)
LEMMA ListsOneMore ==
  ASSUME NEW T, NEW v \in Seq(T), NEW w \in Seq(T), NEW k \in Nat,
         Lists(v, k), w = ViolationsOf(k + 1)
  PROVE  Lists(v \o w, k + 1)
<1>1. PICK ends \in [0..k -> 0..Len(v)] :
        /\ ends[0] = 0
        /\ ends[k] = Len(v)
        /\ \A i \in 1..k :
             /\ ends[i] = ends[i - 1] + Len(ViolationsOf(i))
             /\ \A n \in DOMAIN ViolationsOf(i) : v[ends[i - 1] + n] = ViolationsOf(i)[n]
  BY DEF Lists
<1> DEFINE more == [n \in 0..(k + 1) |-> IF n <= k THEN ends[n] ELSE Len(v) + Len(w)]
<1>2. Len(v) \in Nat /\ Len(w) \in Nat /\ Len(v \o w) = Len(v) + Len(w)
  OBVIOUS
<1>3. ASSUME NEW n \in 0..(k + 1) PROVE more[n] \in 0..Len(v \o w)
  <2>1. CASE n <= k
    <3>1. ends[n] \in 0..Len(v)
      BY <1>1, <1>3, <2>1
    <3> QED BY <1>2, <2>1, <3>1
  <2>2. CASE ~(n <= k)
    BY <1>2, <2>2
  <2> QED BY <2>1, <2>2
<1>4. more \in [0..(k + 1) -> 0..Len(v \o w)]
  BY <1>3
<1>5. /\ \A n \in 0..k : more[n] = ends[n]
      /\ more[k + 1] = Len(v) + Len(w)
  OBVIOUS
<1> HIDE DEF more
<1>6. more[0] = 0 /\ more[k + 1] = Len(v \o w)
  BY <1>1, <1>2, <1>5
<1>7. ASSUME NEW i \in 1..(k + 1)
      PROVE  /\ more[i] = more[i - 1] + Len(ViolationsOf(i))
             /\ \A n \in DOMAIN ViolationsOf(i) : (v \o w)[more[i - 1] + n] = ViolationsOf(i)[n]
  <2>1. CASE i \in 1..k
    <3>1. more[i] = ends[i] /\ more[i - 1] = ends[i - 1] /\ i \in 0..k /\ i - 1 \in 0..k
      BY <1>5, <2>1
    <3>2. ends[i] \in 0..Len(v) /\ ends[i - 1] \in 0..Len(v)
      BY <1>1, <3>1
    <3>3. ends[i] = ends[i - 1] + Len(ViolationsOf(i))
      BY <1>1, <2>1
    <3>4. ASSUME NEW n \in DOMAIN ViolationsOf(i)
          PROVE  (v \o w)[more[i - 1] + n] = ViolationsOf(i)[n]
      <4> DEFINE u == ViolationsOf(i)
      <4>1. u \in Seq({NameOf(i)} \X Requirements)
        BY ViolationsAreSequence
      <4>2. n \in 1..Len(u) /\ Len(u) \in Nat
        BY <3>4, <4>1
      <4> HIDE DEF u
      <4>3. ends[i] = ends[i - 1] + Len(u)
        BY <3>3 DEF u
      <4>4. ends[i - 1] + n \in 1..Len(v)
        BY <1>2, <3>2, <4>2, <4>3
      <4>5. (v \o w)[ends[i - 1] + n] = v[ends[i - 1] + n]
        BY <4>4
      <4>6. v[ends[i - 1] + n] = ViolationsOf(i)[n]
        BY <1>1, <2>1, <3>4
      <4> QED BY <3>1, <4>5, <4>6
    <3> QED BY <3>1, <3>3, <3>4
  <2>2. CASE i = k + 1
    <3>1. more[i] = Len(v) + Len(w) /\ more[i - 1] = Len(v)
      BY <1>1, <1>5, <2>2
    <3>2. ViolationsOf(i) = w
      BY <2>2
    <3>3. \A n \in DOMAIN w : (v \o w)[Len(v) + n] = w[n]
      BY <1>2
    <3> QED BY <3>1, <3>2, <3>3
  <2>3. i \in 1..k \/ i = k + 1
    OBVIOUS
  <2> QED BY <2>1, <2>2, <2>3
<1> QED BY <1>4, <1>6, <1>7 DEF Lists

LEMMA ConcatChecked ==
  ASSUME NEW S, NEW s \in Seq(S), NEW t \in Seq(S)
  PROVE  s \o t \in Seq(S) /\ ToSet(s) \subseteq ToSet(s \o t) /\ ToSet(t) \subseteq ToSet(s \o t)
<1>1. /\ s \o t \in Seq(S) /\ Len(s) \in Nat /\ Len(t) \in Nat /\ Len(s \o t) = Len(s) + Len(t)
      /\ DOMAIN s = 1..Len(s) /\ DOMAIN t = 1..Len(t) /\ DOMAIN (s \o t) = 1..(Len(s) + Len(t))
  OBVIOUS
<1>2. ASSUME NEW n \in DOMAIN s PROVE n \in DOMAIN (s \o t) /\ (s \o t)[n] = s[n]
  BY <1>1
<1>3. ASSUME NEW n \in DOMAIN t PROVE Len(s) + n \in DOMAIN (s \o t) /\ (s \o t)[Len(s) + n] = t[n]
  BY <1>1
<1>4. ASSUME NEW e \in ToSet(s) PROVE e \in ToSet(s \o t)
  BY <1>2 DEF ToSet
<1>5. ASSUME NEW e \in ToSet(t) PROVE e \in ToSet(s \o t)
  BY <1>3 DEF ToSet
<1> QED BY <1>1, <1>4, <1>5

LEMMA CombinedIsReport ==
  ASSUME NEW a, NEW b, NEW c, IsReport(a), IsReport(b),
         c.compliant = (a.compliant /\ b.compliant),
         c.violations = a.violations \o b.violations,
         c.checked = a.checked \o b.checked
  PROVE  IsReport(c)
<1> DEFINE S == ReportedNames \X AllRequirements
           v == a.violations
           w == b.violations
<1>1. /\ v \in Seq(S) /\ w \in Seq(S) /\ a.compliant \in BOOLEAN /\ b.compliant \in BOOLEAN
      /\ a.checked \in Seq(AllRequirements) /\ b.checked \in Seq(AllRequirements)
      /\ \A n \in DOMAIN v : v[n][2] \in ToSet(a.checked)
      /\ \A n \in DOMAIN w : w[n][2] \in ToSet(b.checked)
      /\ (a.compliant <=> v = <<>>) /\ (b.compliant <=> w = <<>>)
  BY DEF IsReport
<1>2. /\ c.checked \in Seq(AllRequirements)
      /\ ToSet(a.checked) \subseteq ToSet(c.checked) /\ ToSet(b.checked) \subseteq ToSet(c.checked)
  BY <1>1, ConcatChecked
<1> HIDE DEF S
<1>3. v \o w \in Seq(S) /\ (v \o w = <<>> <=> v = <<>> /\ w = <<>>)
  <2> HIDE DEF v, w
  <2> QED BY <1>1
<1>4. ASSUME NEW n \in DOMAIN (v \o w) PROVE (v \o w)[n][2] \in ToSet(c.checked)
  <2> HIDE DEF v, w
  <2>1. CASE n \in DOMAIN v
    BY <1>1, <1>2, <2>1
  <2>2. CASE n \notin DOMAIN v
    <3>1. n - Len(v) \in DOMAIN w /\ (v \o w)[n] = w[n - Len(v)]
      BY <1>1, <1>4, <2>2
    <3> QED BY <1>1, <1>2, <3>1
  <2> QED BY <2>1, <2>2
<1>5. c.compliant \in BOOLEAN /\ (c.compliant <=> v \o w = <<>>)
  <2>1. c.compliant <=> (a.compliant /\ b.compliant)
    OBVIOUS
  <2>2. c.compliant \in BOOLEAN
    OBVIOUS
  <2> QED BY <1>1, <1>3, <2>1, <2>2
<1> QED BY <1>2, <1>3, <1>4, <1>5 DEF IsReport, S

LEMMA ReportReturnedKeepsInv ==
  ASSUME IInv, ReportReturned
  PROVE  IInv'
<1> DEFINE v == combined.violations
           w == report.violations
           k == index - 1
           T == ReportedNames \X AllRequirements
<1>1. /\ phase = "checking" /\ todo = {} /\ combined' = CombinedWith(report)
      /\ index' = index + 1 /\ phase' = "next"
      /\ UNCHANGED <<deployment, todo, remembered, report, log>>
  BY DEF ReportReturned
<1>2. /\ IsReport(combined) /\ IsReport(report)
      /\ index \in DOMAIN deployment /\ deployment[index] # Nil
  BY <1>1 DEF IInv, ShapeInv
<1>3. /\ Len(deployment) \in Nat /\ DOMAIN deployment = 1..Len(deployment)
      /\ index \in 1..(Len(deployment) + 1) /\ index \in Nat
  BY Deployed DEF IInv
<1>4. /\ report.compliant \in BOOLEAN /\ (report.compliant <=> w = <<>>) /\ combined.compliant \in BOOLEAN
      /\ v \in Seq(T) /\ w \in Seq(T)
  BY <1>2 DEF IsReport
<1>5. (IF report.compliant THEN <<>> ELSE w) = w
  BY <1>4
<1>6. /\ combined'.compliant = (combined.compliant /\ report.compliant)
      /\ combined'.violations = v \o w
      /\ combined'.checked = combined.checked \o report.checked
  <2> HIDE DEF v
  <2>1. combined' = [compliant  |-> combined.compliant /\ report.compliant,
                     violations |-> v \o w,
                     checked    |-> combined.checked \o report.checked]
    BY <1>1, <1>5 DEF CombinedWith, v
  <2> QED BY <2>1
<1>7. IsReport(combined')
  BY <1>2, <1>6, CombinedIsReport
<1>8. CheckInv' /\ ReportInv'
  BY <1>1 DEF CheckInv, ReportInv
<1>9. ShapeInv'
  <2>1. index' \in 1..(Len(deployment) + 1)
    BY <1>1, <1>2, <1>3
  <2> QED BY <1>1, <1>7, <2>1 DEF IInv, ShapeInv
<1>10. AnswersInv'
  <2>1. ASSUME NEW i \in DOMAIN deployment
        PROVE  /\ i >= index + 1 => Made(i)' = {}
               /\ i < index + 1 => /\ deployment[i] # Nil
                                   /\ Fatal(i)' \/ Made(i)' = CallbacksOf(deployment[i])
               /\ \A c \in Made(i)' : c \in CallbacksOf(deployment[i]) /\ IsAnswer(c, Answer(i, c)')
               /\ "evaluate" \in Made(i)' => ~Refused(i)'
               /\ "evaluate_again" \in Made(i)' => "evaluate" \in Made(i)'
    <3>1. /\ i > index => Made(i) = {}
          /\ i < index => /\ deployment[i] # Nil
                          /\ Fatal(i) \/ Made(i) = CallbacksOf(deployment[i])
          /\ \A c \in Made(i) : c \in CallbacksOf(deployment[i]) /\ IsAnswer(c, Answer(i, c))
          /\ "evaluate" \in Made(i) => ~Refused(i)
          /\ "evaluate_again" \in Made(i) => "evaluate" \in Made(i)
      BY DEF IInv, AnswersInv
    <3>2. i = index => deployment[i] # Nil /\ (Fatal(i) \/ Made(i) = CallbacksOf(deployment[i]))
      BY <1>1, <1>2 DEF IInv, CheckInv
    <3>3. (i >= index + 1 <=> i > index) /\ (i < index + 1 <=> i < index \/ i = index)
      BY <1>3
    <3>4. /\ Made(i)' = Made(i) /\ (\A c : Answer(i, c)' = Answer(i, c))
          /\ (Fatal(i)' <=> Fatal(i)) /\ (Refused(i)' <=> Refused(i))
      BY <1>1, LogUnchanged
    <3> QED BY <3>1, <3>2, <3>3, <3>4
  <2>2. ASSUME NEW i \in DOMAIN deployment
        PROVE  (i > index + 1 \/ i = index + 1) => i >= index + 1
    BY <1>3
  <2> QED BY <1>1, <2>1, <2>2 DEF AnswersInv
<1>11. CombinedInv'
  <2>1. Lists(v, k)
    <3>1. deployment # <<>>
      BY <1>2
    <3> QED BY <1>1, <3>1 DEF IInv, CombinedInv
  <2>2. w = ViolationsOf(k + 1)
    <3>1. k + 1 = index
      BY <1>3
    <3> HIDE DEF k
    <3> QED BY <1>1, <3>1 DEF IInv, ReportInv
  <2>3. k \in Nat /\ index' - 1 = k + 1
    BY <1>1, <1>3
  <2> HIDE DEF v, w, k, T
  <2> DEFINE u == v \o w
             m == k + 1
  <2>4. Lists(u, m)
    BY <1>4, <2>1, <2>2, <2>3, ListsOneMore
  <2>5. combined'.violations = u /\ index' - 1 = m
    BY <1>6, <2>3
  <2> HIDE DEF u, m
  <2>6. PICK ends \in [0..m -> 0..Len(u)] :
          /\ ends[0] = 0
          /\ ends[m] = Len(u)
          /\ \A i \in 1..m :
               /\ ends[i] = ends[i - 1] + Len(ViolationsOf(i))
               /\ \A n \in DOMAIN ViolationsOf(i) : u[ends[i - 1] + n] = ViolationsOf(i)[n]
    BY <2>4 DEF Lists
  <2>7. \A i : ViolationsOf(i)' = ViolationsOf(i)
    BY <1>1, LogUnchanged
  <2>8. \A i \in 1..m :
          /\ ends[i] = ends[i - 1] + Len(ViolationsOf(i)')
          /\ \A n \in DOMAIN ViolationsOf(i)' : u[ends[i - 1] + n] = ViolationsOf(i)'[n]
    BY <2>6, <2>7
  <2>9. Lists(combined.violations, index - 1)'
    BY <2>5, <2>6, <2>8 DEF Lists
  <2> QED BY <2>9 DEF CombinedInv
<1> QED BY <1>8, <1>9, <1>10, <1>11 DEF IInv
-----------------------------------------------------------------------------
(* The invariant and the theorems.                                         *)

LEMMA SequencesAreSequences ==
  ASSUME NEW S, NEW n \in Nat, NEW s \in SeqOf(S, n)
  PROVE  s \in Seq(S)
<1>1. PICK m \in 0..n : s \in [1..m -> S]
  BY DEF SeqOf
<1>2. m \in Nat
  OBVIOUS
<1> QED BY <1>1, <1>2

LEMMA InitIsInv ==
  ASSUME Init
  PROVE  IInv
<1>1. /\ deployment \in Seq(Primitives \cup {Nil}) /\ index = 1 /\ phase = "next" /\ todo = {}
      /\ report = [name |-> "unknown", compliant |-> TRUE, violations |-> <<>>, checked |-> <<>>]
      /\ combined = EmptyReport
      /\ log = [i \in DOMAIN deployment |-> <<>>]
  BY DeploymentBound, SequencesAreSequences DEF Init
<1>2. Len(deployment) \in Nat /\ DOMAIN deployment = 1..Len(deployment)
  BY <1>1
<1>3. \A i \in DOMAIN deployment : Made(i) = {}
  BY <1>1 DEF Made
<1>4. IsReport(report) /\ IsReport(combined)
  BY <1>1 DEF IsReport, EmptyReport
<1>5. ShapeInv
  BY <1>1, <1>2, <1>4 DEF ShapeInv
<1>6. AnswersInv
  <2>1. \A i \in DOMAIN deployment : ~(i < index)
    BY <1>1, <1>2
  <2> QED BY <1>3, <2>1 DEF AnswersInv
<1>7. CheckInv /\ ReportInv
  BY <1>1 DEF CheckInv, ReportInv
<1>8. Lists(<<>>, 0)
  <2> DEFINE ends == [n \in 0..0 |-> 0]
  <2>1. ends \in [0..0 -> 0..Len(<<>>)] /\ ends[0] = 0 /\ ends[0] = Len(<<>>)
    OBVIOUS
  <2>2. \A i \in 1..0 : FALSE
    OBVIOUS
  <2> HIDE DEF ends
  <2> QED BY <2>1, <2>2 DEF Lists
<1>9. CombinedInv
  <2>1. combined.violations = <<>> /\ index - 1 = 0
    BY <1>1 DEF EmptyReport
  <2> QED BY <1>8, <2>1 DEF CombinedInv
<1> QED BY <1>5, <1>6, <1>7, <1>9 DEF IInv


LEMMA StutterKeepsInv ==
  ASSUME IInv, UNCHANGED vars
  PROVE  IInv'
<1>1. UNCHANGED <<deployment, index, phase, todo, remembered, report, combined, log>>
  BY DEF vars
<1>2. ShapeInv'
  BY <1>1 DEF IInv, ShapeInv
<1>3. AnswersInv'
  BY <1>1 DEF IInv, AnswersInv, Fatal, Refused, Flaw, FailedCallback, Differs, Made, Answer
<1>4. CheckInv'
  BY <1>1 DEF IInv, CheckInv, Fatal, Flaw, FailedCallback, Differs, Made, Answer
<1>5. ReportInv'
  <2>1. ASSUME NEW i, i = index
        PROVE  /\ Made(i)' = Made(i) /\ NameOf(i)' = NameOf(i)
               /\ ViolationsOf(i)' = ViolationsOf(i)
    BY <1>1, LogUnchanged
  <2>2. /\ Made(index)' = Made(index) /\ NameOf(index)' = NameOf(index)
        /\ ViolationsOf(index)' = ViolationsOf(index)
    BY <1>1, <2>1, IndexUnchanged
  <2> QED BY <1>1, <2>2 DEF IInv, ReportInv
<1>6. CombinedInv'
  BY <1>1, ListsUnchanged DEF IInv, CombinedInv
<1> QED BY <1>2, <1>3, <1>4, <1>5, <1>6 DEF IInv

LEMMA Invariance == Spec => []IInv
<1>1. Init => IInv
  BY InitIsInv
<1>2. IInv /\ [Next]_vars => IInv'
  <2> SUFFICES ASSUME IInv, [Next]_vars PROVE IInv'
    OBVIOUS
  <2>1. CASE CheckPrimitiveBegins
    BY <2>1, CheckPrimitiveBeginsKeepsInv
  <2>2. CASE CheckPrimitive /\ ~CheckPrimitiveBegins
    BY <2>2, CheckPrimitiveSteps, StepKeepsInv
  <2>3. CASE CheckNothing
    BY <2>3, CheckNothingKeepsInv
  <2>4. CASE CheckNil
    BY <2>4, CheckNilKeepsInv
  <2>5. CASE ReportReturned
    BY <2>5, ReportReturnedKeepsInv
  <2>6. CASE CheckAllReturns
    BY <2>6, CheckAllReturnsKeepsInv
  <2>7. CASE UNCHANGED vars
    BY <2>7, StutterKeepsInv
  <2> QED BY <2>1, <2>2, <2>3, <2>4, <2>5, <2>6, <2>7 DEF Next
<1> QED BY <1>1, <1>2, PTL DEF Spec
-----------------------------------------------------------------------------
LEMMA InvIsTyped ==
  ASSUME IInv
  PROVE  TypeOK
<1>1. phase = "checking" =>
        /\ Made(index) \cap todo = {}
        /\ \/ Made(index) \cup todo = CallbacksOf(deployment[index])
           \/ todo = {} /\ Made(index) \subseteq CallbacksOf(deployment[index])
  <2> SUFFICES ASSUME phase = "checking"
               PROVE  /\ Made(index) \cap todo = {}
                      /\ \/ Made(index) \cup todo = CallbacksOf(deployment[index])
                         \/ todo = {} /\ Made(index) \subseteq CallbacksOf(deployment[index])
    OBVIOUS
  <2>1. index \in DOMAIN deployment
    BY DEF IInv, ShapeInv
  <2>2. Made(index) \subseteq CallbacksOf(deployment[index])
    BY <2>1 DEF IInv, AnswersInv
  <2> QED BY <2>2 DEF IInv, CheckInv
<1> QED BY <1>1 DEF IInv, ShapeInv, IsReport, TypeOK

(* The state is well formed: no violation of the combined report is of a    *)
(* requirement that the report does not list as checked, and the callbacks  *)
(* made and to come are those the primitive has, unless the check ended.    *)
THEOREM TypeCorrect == Spec => []TypeOK
BY Invariance, InvIsTyped, PTL

(* CheckAll's report is exact after each primitive, for any deployment: it  *)
(* has just the violations of the primitives checked, in order, each under  *)
(* the name its primitive gave, and is compliant just when it has none.     *)
THEOREM ReportsAreExact == Spec => []ReportIsExact
<1>1. IInv => ReportIsExact
  BY DEF IInv, ShapeInv, IsReport, CombinedInv, ReportIsExact
<1> QED BY <1>1, Invariance, PTL

LEMMA InvProbes ==
  ASSUME IInv
  PROVE  ProbeFollowsIdentity
<1> SUFFICES ASSUME NEW i \in DOMAIN deployment
             PROVE  /\ "evaluate" \in Made(i) => ~Refused(i)
                    /\ (i < index /\ ~Refused(i)) => "evaluate" \in Made(i)
                    /\ (\E j \in 1..i : deployment[j] = Nil) => Made(i) = {}
  BY DEF ProbeFollowsIdentity
<1>1. /\ Len(deployment) \in Nat /\ DOMAIN deployment = 1..Len(deployment)
      /\ index \in 1..(Len(deployment) + 1) /\ index \in Nat /\ i \in Nat
  BY Deployed DEF IInv
<1>2. /\ i > index => Made(i) = {}
      /\ (i = index /\ phase # "checking") => Made(i) = {}
      /\ i < index => Fatal(i) \/ Made(i) = CallbacksOf(deployment[i])
      /\ "evaluate" \in Made(i) => ~Refused(i)
      /\ "evaluate_again" \in Made(i) => "evaluate" \in Made(i)
  BY DEF IInv, AnswersInv
<1>3. ASSUME i < index, ~Refused(i) PROVE "evaluate" \in Made(i)
  <2>1. CASE Fatal(i)
    <3>1. PICK r \in Requirements \ {"deterministic_source"} : Flaw(i, r)
      BY <2>1 DEF Fatal
    <3>2. r \in {"evaluate_contract", "repeatability"}
      BY <1>3, <3>1 DEF Refused, Requirements
    <3>3. "evaluate" \in Made(i) \/ "evaluate_again" \in Made(i)
      BY <3>1, <3>2 DEF Flaw, FailedCallback, Differs
    <3> QED BY <1>2, <3>3
  <2>2. CASE Made(i) = CallbacksOf(deployment[i])
    BY <2>2 DEF CallbacksOf, Callbacks, Has
  <2> QED BY <1>2, <1>3, <2>1, <2>2
<1>4. ASSUME NEW j \in 1..i, deployment[j] = Nil PROVE Made(i) = {}
  <2>1. \A m \in DOMAIN deployment : m < index => deployment[m] # Nil
    BY DEF IInv, AnswersInv
  <2>2. phase = "checking" => deployment[index] # Nil
    BY DEF IInv, ShapeInv
  <2>3. j \in DOMAIN deployment /\ j <= i /\ j \in Nat
    BY <1>1, <1>4
  <2>4. ~(j < index)
    BY <1>4, <2>1, <2>3
  <2>5. i > index \/ (i = index /\ j = index)
    BY <1>1, <2>3, <2>4
  <2> QED BY <1>2, <1>4, <2>2, <2>5
<1> QED BY <1>2, <1>3, <1>4

(* A primitive is evaluated exactly when its name, version and              *)
(* configuration stand, and nothing behind a nil primitive is called, in    *)
(* any deployment.                                                          *)
THEOREM ProbesFollowIdentities == Spec => []ProbeFollowsIdentity
BY Invariance, InvProbes, PTL

(* What ValidatePrimitiveSource accepts runs allowed packages only, when it *)
(* is written so that the check finds what the language imports.            *)
LEMMA ValidatedIsDeterministic ==
  ASSUME NEW source \in Sources, ValidatePrimitiveSource(source), PlainlyWritten(source)
  PROVE  Deterministic(source)
<1>1. CASE source.text = "blank"
  BY <1>1 DEF ValidatePrimitiveSource
<1>2. CASE source.text = "go"
  <2>1. ValidateDeterministicGo(source)
    BY <1>2 DEF ValidatePrimitiveSource, PlainlyWritten
  <2>2. \A import \in ImportsOf(source) :
          import.path \in AllowedGoImports /\ import.alias # "."
    BY <2>1 DEF ValidateDeterministicGo, GoImportRefused
  <2>3. RunsAllowedPackages(source) /\ ~Unqualified(source)
    BY <1>2, <2>2 DEF RunsAllowedPackages, PackagesRun, Unqualified
  <2>4. source.features \cap GoFeatures = {}
    BY <2>1 DEF ValidateDeterministicGo
  <2> QED BY <1>2, <2>3, <2>4 DEF Deterministic
<1>3. CASE source.text = "script"
  <2>1. ValidateDeterministicScript(source)
    BY <1>3 DEF ValidatePrimitiveSource, ValidateDeterministicGo
  <2>2. \A import \in ImportsOf(source) : <<Head(import.path)>> \in ScriptImports(source)
    BY <1>3 DEF PlainlyWritten, ScriptImports
  <2>3. \A import \in ImportsOf(source) : <<Head(import.path)>> \in AllowedPythonImports
    BY <2>1, <2>2 DEF ValidateDeterministicScript
  <2>4. RunsAllowedPackages(source)
    BY <1>3, <2>3 DEF RunsAllowedPackages, PackagesRun
  <2>5. source.features \cap ScriptFeatures = {}
    BY <2>1 DEF ValidateDeterministicScript
  <2> QED BY <1>3, <2>4, <2>5 DEF Deterministic
<1> QED BY <1>1, <1>2, <1>3, SourcesAreTexts

(* A list without an entry is that of primitives without a flaw. *)
LEMMA NothingListed ==
  ASSUME NEW k \in Nat, Lists(<<>>, k), NEW i \in 1..k, NEW r \in Requirements
  PROVE  ~Flaw(i, r)
<1> DEFINE S == {NameOf(i)} \X Requirements
<1>1. PICK ends \in [0..k -> 0..Len(<<>>)] :
        \A j \in 1..k : ends[j] = ends[j - 1] + Len(ViolationsOf(j))
  BY DEF Lists
<1>2. Len(ViolationsOf(i)) = 0
  <2>1. ViolationsOf(i) \in Seq(S)
    BY ViolationsAreSequence
  <2>2. Len(ViolationsOf(i)) \in Nat
    <3> HIDE DEF S
    <3> QED BY <2>1
  <2>3. ends[i] = 0 /\ ends[i - 1] = 0
    <3>1. i \in 0..k /\ i - 1 \in 0..k
      OBVIOUS
    <3> QED BY <1>1, <3>1
  <2> QED BY <1>1, <2>2, <2>3
<1>3. ASSUME NEW q \in Requirements
      PROVE  /\ ViolationIf(i, q) \in Seq(S)
             /\ Flaw(i, q) => Len(ViolationIf(i, q)) = 1
  <2> DEFINE e == <<NameOf(i), q>>
  <2>1. e \in S
    OBVIOUS
  <2>2. <<e>> \in Seq(S) /\ <<>> \in Seq(S) /\ Len(<<e>>) = 1
    <3> HIDE DEF e, S
    <3> QED BY <2>1
  <2>3. CASE Flaw(i, q)
    BY <2>2, <2>3 DEF ViolationIf
  <2>4. CASE ~Flaw(i, q)
    BY <2>2, <2>4 DEF ViolationIf
  <2> QED BY <2>3, <2>4
<1> HIDE DEF S
<1>4. \A q \in {"identity", "version", "configuration", "deterministic_source",
                "evaluate_contract", "repeatability"} :
        q \in Requirements /\ ViolationIf(i, q) \in Seq(S)
  BY <1>3 DEF Requirements
<1>5. PICK a, b, c, d, e, f \in Seq(S) :
        /\ a = ViolationIf(i, "identity") /\ b = ViolationIf(i, "version")
        /\ c = ViolationIf(i, "configuration") /\ d = ViolationIf(i, "deterministic_source")
        /\ e = ViolationIf(i, "evaluate_contract") /\ f = ViolationIf(i, "repeatability")
  BY <1>4
<1>6. ViolationsOf(i) = a \o b \o c \o d \o e \o f
  BY <1>5 DEF ViolationsOf
<1>7. Len(a \o b \o c \o d \o e \o f) = Len(a) + Len(b) + Len(c) + Len(d) + Len(e) + Len(f)
  <2>1. \A s, t \in Seq(S) : s \o t \in Seq(S) /\ Len(s \o t) = Len(s) + Len(t)
    OBVIOUS
  <2>2. \A s \in Seq(S) : Len(s) \in Nat
    OBVIOUS
  <2>3. /\ a \o b \in Seq(S) /\ a \o b \o c \in Seq(S) /\ a \o b \o c \o d \in Seq(S)
        /\ a \o b \o c \o d \o e \in Seq(S)
    BY <1>5, <2>1
  <2> QED BY <1>5, <2>1, <2>2, <2>3
<1>8. Len(a) = 0 /\ Len(b) = 0 /\ Len(c) = 0 /\ Len(d) = 0 /\ Len(e) = 0 /\ Len(f) = 0
  <2>1. \A s \in Seq(S) : Len(s) \in Nat
    OBVIOUS
  <2>2. Len(a) + Len(b) + Len(c) + Len(d) + Len(e) + Len(f) = 0
    BY <1>2, <1>6, <1>7
  <2> QED BY <1>5, <2>1, <2>2
<1>9. Len(ViolationIf(i, r)) = 0
  BY <1>5, <1>8 DEF Requirements
<1>10. Flaw(i, r) => Len(ViolationIf(i, r)) = 1
  BY <1>3
<1> QED BY <1>9, <1>10

LEMMA FlawlessIsSound ==
  ASSUME IInv, NEW i \in DOMAIN deployment, i < index, \A r \in Requirements : ~Flaw(i, r)
  PROVE  /\ deployment[i] # Nil
         /\ Made(i) = CallbacksOf(deployment[i])
         /\ "configurable" \in deployment[i] => "fingerprinted" \in deployment[i]
         /\ \A callback \in Made(i) : Answer(i, callback) # Failed
         /\ "fingerprint" \in Made(i) => Answer(i, "fingerprint") = Answer(i, "fingerprint_again")
         /\ Answer(i, "evaluate") = Answer(i, "evaluate_again")
         /\ ("source" \in Made(i) /\ PlainlyWritten(Answer(i, "source")))
              => Deterministic(Answer(i, "source"))
<1>1. ~Fatal(i)
  BY DEF Fatal
<1>2. /\ deployment[i] # Nil /\ Made(i) = CallbacksOf(deployment[i])
      /\ \A c \in Made(i) : IsAnswer(c, Answer(i, c))
  BY <1>1 DEF IInv, AnswersInv
<1>3. /\ ~Flaw(i, "identity") /\ ~Flaw(i, "version") /\ ~Flaw(i, "configuration")
      /\ ~Flaw(i, "deterministic_source") /\ ~Flaw(i, "evaluate_contract")
      /\ ~Flaw(i, "repeatability")
  BY DEF Requirements
<1>4. /\ ~FailedCallback(i, {"name"}) /\ ~FailedCallback(i, {"version"})
      /\ ~FailedCallback(i, {"configuration", "fingerprint", "fingerprint_again"})
      /\ ~FailedCallback(i, {"evaluate", "evaluate_again"})
      /\ "source" \in Made(i) =>
           ~FailedCallback(i, {"source"}) /\ ValidatePrimitiveSource(Answer(i, "source"))
      /\ ~("configuration" \in Made(i) /\ "fingerprinted" \notin deployment[i])
      /\ ~Differs(i, "fingerprint", "fingerprint_again")
      /\ ~Differs(i, "evaluate", "evaluate_again")
  BY <1>3 DEF Flaw
<1>5. ASSUME NEW callback \in Made(i) PROVE Answer(i, callback) # Failed
  <2>1. callback \in Callbacks
    BY <1>2 DEF CallbacksOf
  <2> QED BY <1>4, <2>1 DEF Callbacks, FailedCallback
<1>6. "configurable" \in deployment[i] => "configuration" \in Made(i)
  BY <1>2 DEF CallbacksOf, Callbacks, Has
<1>7. "fingerprint" \in Made(i) => "fingerprint_again" \in Made(i)
  BY <1>2 DEF CallbacksOf, Callbacks, Has
<1>8. "evaluate" \in Made(i) /\ "evaluate_again" \in Made(i)
  BY <1>2 DEF CallbacksOf, Callbacks, Has
<1>9. /\ "fingerprint" \in Made(i) => Answer(i, "fingerprint") = Answer(i, "fingerprint_again")
      /\ Answer(i, "evaluate") = Answer(i, "evaluate_again")
  BY <1>4, <1>5, <1>7, <1>8 DEF Differs, FailedCallback
<1>10. ("source" \in Made(i) /\ PlainlyWritten(Answer(i, "source")))
         => Deterministic(Answer(i, "source"))
  <2> SUFFICES ASSUME "source" \in Made(i), PlainlyWritten(Answer(i, "source"))
               PROVE  Deterministic(Answer(i, "source"))
    OBVIOUS
  <2>1. IsAnswer("source", Answer(i, "source")) /\ Answer(i, "source") # Failed
    BY <1>2, <1>5
  <2>2. Answer(i, "source") \in Sources
    BY <2>1 DEF IsAnswer
  <2> QED BY <1>4, <2>2, ValidatedIsDeterministic
<1> QED BY <1>2, <1>4, <1>5, <1>6, <1>9, <1>10

(* A deployment that CheckAll calls compliant has earned it, whatever its   *)
(* size and whatever the callbacks answer: there is a primitive, none is    *)
(* nil, each was asked everything it can be asked, did not fail, repeated   *)
(* its fingerprint and result, and the source it showed, if it is written   *)
(* plainly, runs allowed packages and holds nothing that is looked for.     *)
THEOREM ComplianceIsEarned == Spec => []CompliantIsEarned
<1>1. ASSUME IInv, phase = "returned", combined.compliant
      PROVE  /\ deployment # <<>>
             /\ \A i \in DOMAIN deployment : i < index /\ \A r \in Requirements : ~Flaw(i, r)
  <2>1. /\ deployment # <<>> /\ index = Len(deployment) + 1 /\ combined.violations = <<>>
    BY <1>1 DEF IInv, ShapeInv, IsReport
  <2>2. Len(deployment) \in Nat /\ DOMAIN deployment = 1..Len(deployment)
    BY <1>1, Deployed DEF IInv
  <2>3. Lists(<<>>, Len(deployment))
    <3>1. index - 1 = Len(deployment)
      BY <2>1, <2>2
    <3>2. Lists(combined.violations, index - 1)
      BY <1>1, <2>1 DEF IInv, CombinedInv
    <3> QED BY <2>1, <3>1, <3>2
  <2>4. ASSUME NEW i \in DOMAIN deployment PROVE i < index /\ \A r \in Requirements : ~Flaw(i, r)
    <3>1. i \in 1..Len(deployment) /\ i < index
      BY <2>1, <2>2
    <3> QED BY <2>2, <2>3, <3>1, NothingListed
  <2> QED BY <2>1, <2>4
<1>2. IInv => CompliantIsEarned
  BY <1>1, FlawlessIsSound DEF CompliantIsEarned
<1> QED BY <1>2, Invariance, PTL
=============================================================================
