------------------------ MODULE CompositionOperators ------------------------
(***************************************************************************)
(* A composite primitive (core/composition_operators.go): SequentialAnd,   *)
(* ParallelAnd or Threshold over children that are primitives themselves,  *)
(* composites among them.  Whoever uses it reads its version, evaluates it *)
(* and reads its version again, as the engine does for each registration.  *)
(*                                                                         *)
(* A composite keeps no lock and no state: it describes its children field *)
(* by field, callback after callback, and in between any child may change  *)
(* what it answers.  Each callback into a child is one step here.          *)
(***************************************************************************)
EXTENDS Naturals, Sequences, FiniteSets

CONSTANTS
  Children,    \* primitives a composite may be built from
  Nil,         \* a nil child
  References,  \* the children of a pointer-like kind
  Fickle,      \* the children that may take up a value again they gave up
  Type,        \* the concrete type of each child
  Exposes,     \* the optional callbacks each child implements
  First,       \* what the callbacks of each child answer at first
  Operators,   \* the operators composites are built with
  Lists,       \* the lists of children composites are built from
  MaxThreshold, \* bound: thresholds
  MaxDrift     \* bound: the values of each field of a child, from 0 on

Fields == {"name", "version", "source", "config"}

ASSUME CompositionConstants ==
  /\ Nil \notin Children
  /\ References \subseteq Children
  /\ Fickle \subseteq Children
  /\ Exposes \in [Children -> SUBSET (Fields \ {"version"})]
  /\ MaxDrift \in [Children -> [Fields -> Nat]]
  /\ First \in [Children -> [Fields -> Nat]]
  /\ \A child \in Children : (First[child]["name"] # 0) <=> ("name" \in Exposes[child])
  /\ Operators \subseteq {"sequential-and", "parallel-and", "threshold"}
  /\ \A list \in Lists : list \in Seq(Children \cup {Nil})
  /\ MaxThreshold \in Nat

VARIABLES
  composite,    \* operator, threshold and children, fixed at construction
  identity,     \* what the callbacks of each child answer now; 0: no name
  givenUp,      \* ghost: what they answered before, of the children not in Fickle
  pc,
  index, field, \* the child, and the field of it, that are looked at
  draft,        \* the fields of the descriptor under way
  descriptors,  \* the descriptors that are complete
  result,       \* what the child under evaluation answered
  outcomes,     \* one compositeChildOutcome per child evaluated
  answer,       \* validity of the composite's result
  before, after \* the versions the user read around the evaluation

reading == <<index, field, draft>>
answers == <<answer, before, after>>
children == <<identity, givenUp>>
vars == <<composite, children, pc, reading, descriptors, result, outcomes, answers>>

Unread == [f \in Fields |-> 0]
Unanswered == [valid |-> FALSE, tainted |-> FALSE]
Callbacks(child) == {"version"} \cup Exposes[child]

(* compositeChildDescriptor: invalid names the callback that failed. *)
Descriptor ==
  [type : {Type[child] : child \in Children} \cup {Nil}, values : [Fields -> Nat],
   invalid : Fields \cup {"nothing", "nil"}]

Thresholds(operator) == IF operator = "threshold" THEN 0..MaxThreshold ELSE {0}

Composites ==
  UNION {[operator : {o}, threshold : Thresholds(o), children : Lists] : o \in Operators}

Init ==
  /\ composite \in Composites
  /\ identity = First
  /\ givenUp = [child \in Children |-> [f \in Fields |-> {}]]
  /\ pc = "before"
  /\ index = 1
  /\ field = "name"
  /\ draft = Unread
  /\ descriptors = <<>>
  /\ result = Unanswered
  /\ outcomes = <<>>
  /\ answer = FALSE
  /\ before = <<>>
  /\ after = <<>>

Size == Len(composite.children)
Child == composite.children[index]
OrderIndependent == composite.operator # "sequential-and"
-----------------------------------------------------------------------------
(* describeCompositeChild. *)

Describing == {"before", "validate", "recheck", "after"}

NextField ==
  [f \in Fields \ {"config"} |->
     CASE f = "name" -> "version" [] f = "version" -> "source" [] f = "source" -> "config"]

(* Look at a child, from its first field, at a program point. *)
LookAt(point, i) ==
  /\ pc' = point
  /\ index' = i
  /\ field' = "name"
  /\ draft' = Unread

(* A callback of the child answers; a child without it counts as 0. *)
ReadField ==
  /\ pc \in Describing
  /\ index <= Size
  /\ Child # Nil
  /\ field # "config"
  /\ draft' = [draft EXCEPT ![field] = identity[Child][field]]
  /\ field' = NextField[field]
  /\ UNCHANGED <<composite, children, pc, index, descriptors, result, outcomes, answers>>

(* The descriptors the current step may end with: of a nil child, of one    *)
(* whose callback panics, is blank or refuses, or the complete one.         *)
Described ==
  IF Child = Nil
  THEN {[type |-> Nil, values |-> Unread, invalid |-> "nil"]}
  ELSE {[type |-> Type[Child], values |-> draft, invalid |-> field] :
          f \in {field} \cap Callbacks(Child)}
         \cup
       {[type |-> Type[Child], values |-> [draft EXCEPT ![f] = identity[Child][f]],
         invalid |-> "nothing"] : f \in {field} \cap {"config"}}

(* The Identity string of a descriptor. *)
IdentityOf(descriptor) ==
  IF descriptor.invalid # "nothing" THEN <<"invalid", descriptor.type>>
  ELSE IF descriptor.values["name"] # 0 THEN <<"name", descriptor.values["name"]>>
  ELSE <<"type", descriptor.type>>
-----------------------------------------------------------------------------
(* Version. *)

(* descriptorLess is a total order on descriptors, so that sorted lists are *)
(* equal exactly when each descriptor occurs as often in both.              *)
Occurrences(seq) ==
  [d \in {seq[i] : i \in DOMAIN seq} |-> Cardinality({i \in DOMAIN seq : seq[i] = d})]

(* Mutation: the configuration fingerprints are left out of the digest. *)
CompositeVersionUnconfigured(seq) ==
  LET blind == [i \in DOMAIN seq |-> [seq[i] EXCEPT !.values["config"] = 0]]
  IN  <<composite.operator, composite.threshold,
        IF OrderIndependent THEN Occurrences(blind) ELSE blind>>

(* compositeVersion, with the digest as the digested descriptor. *)
CompositeVersion(seq) ==
  <<composite.operator, composite.threshold,
    IF OrderIndependent THEN Occurrences(seq) ELSE seq>>

(* Version describes the children one after the other, invalid ones too. *)
DescribeForVersion ==
  /\ pc \in {"before", "after"}
  /\ index <= Size
  /\ \E d \in Described : descriptors' = Append(descriptors, d)
  /\ LookAt(pc, index + 1)
  /\ UNCHANGED <<composite, children, result, outcomes, answers>>

VersionBefore ==
  /\ pc = "before"
  /\ index > Size
  /\ before' = CompositeVersion(descriptors)
  /\ descriptors' = <<>>
  /\ LookAt("called", 1)
  /\ UNCHANGED <<composite, children, result, outcomes, answer, after>>

VersionAfter ==
  /\ pc = "after"
  /\ index > Size
  /\ after' = CompositeVersion(descriptors)
  /\ LookAt("compare", 1)
  /\ UNCHANGED <<composite, children, descriptors, result, outcomes, answer, before>>
-----------------------------------------------------------------------------
(* Evaluate. *)

(* The result is handed over; the user reads the version again. *)
Answer(valid) ==
  /\ answer' = valid
  /\ descriptors' = <<>>
  /\ LookAt("after", 1)

(* Two positions hold the same pointer. *)
RepeatsReference ==
  \E i, j \in 1..Size :
    i < j /\ composite.children[i] = composite.children[j] /\ composite.children[i] \in References

(* Mutation: only the descriptions are compared, not the references. *)
RefusedUndescribedNoReferences ==
  \/ Size = 0
  \/ /\ composite.operator = "threshold"
     /\ \/ composite.threshold = 0 \/ composite.threshold > Size
        \/ \E i \in 1..Size : composite.children[i] = Nil

(* What validateCompositeConfiguration refuses without any callback. *)
RefusedUndescribed ==
  \/ Size = 0
  \/ /\ composite.operator = "threshold"
     /\ \/ composite.threshold = 0 \/ composite.threshold > Size
        \/ \E i \in 1..Size : composite.children[i] = Nil
        \/ RepeatsReference

EvaluateBegins ==
  /\ pc = "called"
  /\ IF RefusedUndescribed THEN Answer(FALSE)
     ELSE LookAt("validate", 1) /\ UNCHANGED <<descriptors, answer>>
  /\ UNCHANGED <<composite, children, result, outcomes, before, after>>

(* Mutation: an invalid child is passed over. *)
ValidateChildOrSkip ==
  /\ pc = "validate"
  /\ index <= Size
  /\ \E d \in Described :
       /\ descriptors' = IF d.invalid = "nothing" THEN Append(descriptors, d) ELSE descriptors
       /\ LookAt(pc, index + 1)
  /\ UNCHANGED <<composite, children, result, outcomes, answers>>

(* validateCompositeConfiguration ends at the first invalid child. *)
ValidateChild ==
  /\ pc = "validate"
  /\ index <= Size
  /\ \E d \in Described :
       \/ d.invalid # "nothing" /\ Answer(FALSE)
       \/ /\ d.invalid = "nothing"
          /\ descriptors' = Append(descriptors, d)
          /\ LookAt(pc, index + 1)
          /\ UNCHANGED answer
  /\ UNCHANGED <<composite, children, result, outcomes, before, after>>

(* A threshold counts unique primitives: no Identity may occur twice. *)
DuplicateIdentity ==
  /\ composite.operator = "threshold"
  /\ \E i, j \in 1..Size : i < j /\ IdentityOf(descriptors[i]) = IdentityOf(descriptors[j])

ValidationEnds ==
  /\ pc = "validate"
  /\ index > Size
  /\ IF DuplicateIdentity THEN Answer(FALSE)
     ELSE LookAt("evaluate", 1) /\ UNCHANGED <<descriptors, answer>>
  /\ UNCHANGED <<composite, children, result, outcomes, before, after>>

OutcomeOf(valid) ==
  [child |-> Child, descriptor |-> descriptors[index], valid |-> valid, tainted |-> result.tainted]

(* Mutation: a failing child does not end a sequential composition. *)
OutcomeGoesOn(valid) ==
  /\ outcomes' = Append(outcomes, OutcomeOf(valid))
  /\ LookAt("evaluate", index + 1)
  /\ UNCHANGED <<descriptors, answer>>

(* The outcome of a child; the first failure ends a sequential composition. *)
Outcome(valid) ==
  /\ outcomes' = Append(outcomes, OutcomeOf(valid))
  /\ IF valid \/ OrderIndependent
     THEN LookAt("evaluate", index + 1) /\ UNCHANGED <<descriptors, answer>>
     ELSE Answer(FALSE)

(* Evaluate of a child panics or answers a malformed result. *)
EvaluateChildFails ==
  /\ pc = "evaluate"
  /\ index <= Size
  /\ Outcome(FALSE)
  /\ UNCHANGED <<composite, children, result, before, after>>

(* It answers; the child is described again before the answer counts.       *)
(* tainted is a ghost: the child was not then what had been described.      *)
EvaluateChild(valid) ==
  /\ pc = "evaluate"
  /\ index <= Size
  /\ result' = [valid |-> valid, tainted |-> identity[Child] # descriptors[index].values]
  /\ LookAt("recheck", index)
  /\ UNCHANGED <<composite, children, descriptors, outcomes, answers>>

(* Mutation: the child only has to have the same version. *)
SameVersion(d) ==
  d.invalid = "nothing" /\ d.values["version"] = descriptors[index].values["version"]

SameDescriptor(d) == d = descriptors[index]

RecheckChild ==
  /\ pc = "recheck"
  /\ \E d \in Described : Outcome(SameDescriptor(d) /\ result.valid)
  /\ result' = Unanswered
  /\ UNCHANGED <<composite, children, before, after>>

Passed == {i \in DOMAIN outcomes : outcomes[i].valid}

(* Mutation: an AND forgets the failures before the last child. *)
EnoughOfLast ==
  IF composite.operator = "threshold" THEN Cardinality(Passed) >= composite.threshold
                                      ELSE Len(outcomes) \in Passed

(* What the operator asks of the outcomes once each child has one. *)
Enough ==
  IF composite.operator = "threshold" THEN Cardinality(Passed) >= composite.threshold
                                      ELSE Passed = DOMAIN outcomes

Tally ==
  /\ pc = "evaluate"
  /\ index > Size
  /\ Answer(Enough)
  /\ UNCHANGED <<composite, children, result, outcomes, before, after>>
-----------------------------------------------------------------------------
(* A child changes what a callback answers, at any moment and to any value, *)
(* except that only the children in Fickle take one up again.  Children     *)
(* that the composite does not have are left alone.                         *)
Drift(child, f, value) ==
  /\ \E i \in 1..Size : composite.children[i] = child
  /\ f \in Callbacks(child)
  /\ value # identity[child][f]
  /\ value \notin givenUp[child][f]
  /\ f = "name" => value # 0
  /\ identity' = [identity EXCEPT ![child][f] = value]
  /\ givenUp' = IF child \in Fickle THEN givenUp
                ELSE [givenUp EXCEPT ![child][f] = @ \cup {identity[child][f]}]
  /\ UNCHANGED <<composite, pc, reading, descriptors, result, outcomes, answers>>

(* The user has compared the versions and uses the composite again. *)
UseAgain ==
  /\ pc = "compare"
  /\ descriptors' = <<>>
  /\ outcomes' = <<>>
  /\ answer' = FALSE
  /\ before' = <<>>
  /\ after' = <<>>
  /\ LookAt("before", 1)
  /\ UNCHANGED <<composite, children, result>>

Next ==
  \/ ReadField
  \/ DescribeForVersion \/ VersionBefore \/ VersionAfter
  \/ EvaluateBegins
  \/ ValidateChild \/ ValidationEnds
  \/ EvaluateChildFails
  \/ \E valid \in BOOLEAN : EvaluateChild(valid)
  \/ RecheckChild
  \/ Tally
  \/ \E child \in Children, f \in Fields : \E value \in 0..MaxDrift[child][f] : Drift(child, f, value)
  \/ UseAgain

Spec == Init /\ [][Next]_vars
-----------------------------------------------------------------------------
Pcs == Describing \cup {"called", "evaluate", "compare"}

(* Type invariant: in every loop the lists that are built are as long as    *)
(* the loop has come, and an evaluation has a descriptor of each child.     *)
TypeOK ==
  /\ composite \in Composites
  /\ identity \in [Children -> [Fields -> Nat]]
  /\ givenUp \in [Children -> [Fields -> SUBSET Nat]]
  /\ pc \in Pcs
  /\ index \in 1..(Size + 1)
  /\ field \in Fields
  /\ draft \in [Fields -> Nat]
  /\ descriptors \in Seq(Descriptor)
  /\ pc \in {"before", "validate", "after"} => Len(descriptors) = index - 1
  /\ pc \in {"evaluate", "recheck"} => Len(descriptors) = Size /\ Len(outcomes) = index - 1
  /\ pc = "recheck" => index <= Size
  /\ result \in [valid : BOOLEAN, tainted : BOOLEAN]
  /\ outcomes \in Seq([child : Children, descriptor : Descriptor,
                       valid : BOOLEAN, tainted : BOOLEAN])
  /\ answer \in BOOLEAN

(* "Threshold returns a primitive that requires at least k unique input     *)
(* primitives to pass": a threshold that answers valid has that many        *)
(* different primitives, and different identities, among its valid          *)
(* outcomes, although names are read one after the other and change.        *)
ThresholdIsUnique ==
  (answer /\ composite.operator = "threshold") =>
    /\ Cardinality({outcomes[i].child : i \in Passed}) >= composite.threshold
    /\ Cardinality({IdentityOf(outcomes[i].descriptor) : i \in Passed}) >= composite.threshold

(* A composite never answers valid by leaving children out: an AND has a    *)
(* valid outcome of every child in the order of its children, and no        *)
(* operator is valid over a nil child or without a pass.                    *)
ValidIsEarned ==
  answer =>
    /\ Passed # {}
    /\ Len(outcomes) = Size
    /\ \A i \in DOMAIN outcomes : outcomes[i].child = composite.children[i]
    /\ composite.operator # "threshold" => Passed = 1..Size

(* SequentialAnd evaluates nothing after a failure: whatever a later child  *)
(* would do is not done unless all before it passed, undrifted.             *)
SequentialStops ==
  composite.operator = "sequential-and" =>
    \A i \in DOMAIN outcomes : i < Len(outcomes) => outcomes[i].valid

(* A vote counts only if the child voted under the descriptor that is       *)
(* reported with it, for children that do not go back to what they were.    *)
VotesUntainted ==
  \A i \in Passed : outcomes[i].child \notin Fickle => ~outcomes[i].tainted

(* A valid answer between two equal versions, of children that all could be *)
(* described afterwards and never took a value up again.                    *)
Confirmed ==
  /\ pc = "compare"
  /\ answer
  /\ before = after
  /\ \A i \in DOMAIN descriptors : descriptors[i].invalid = "nothing"
  /\ \A i \in DOMAIN composite.children : composite.children[i] \notin Fickle

(* Each outcome came from the child in its position as it is described now. *)
AnsweredAsDescribed == [i \in DOMAIN outcomes |-> outcomes[i].descriptor] = descriptors

(* Two positions hold one child, or children that no descriptor confuses:   *)
(* they differ in type, or neither ever had a name that the other one had.  *)
NamesOf(child) == givenUp[child]["name"] \cup {identity[child]["name"]}

ToldApart(child, other) ==
  \/ child = other
  \/ Type[child] # Type[other]
  \/ NamesOf(child) \cap NamesOf(other) = {}

(* An unchanged version covers the evaluation in between, although it is    *)
(* read callback by callback itself: always for a sequence, whose version   *)
(* keeps the order of its children, and otherwise for children told apart   *)
(* by their names or types, whatever else they exchange.                    *)
VersionCovers ==
  ( /\ Confirmed
    /\ OrderIndependent =>
         \A i, j \in DOMAIN composite.children :
           ToldApart(composite.children[i], composite.children[j]) )
      => AnsweredAsDescribed

(* "Evaluation rechecks version/source identity and fails closed on drift", *)
(* README: an unchanged version covers the evaluation, for every operator   *)
(* and any children.                                                        *)
DriftFailsClosed == Confirmed => AnsweredAsDescribed
=============================================================================
