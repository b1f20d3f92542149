---------------------- MODULE CompositionOperatorsProofs ----------------------
(***************************************************************************)
(* Proofs about CompositionOperators, for any number of children and any    *)
(* changes of what they answer.                                             *)
(*                                                                         *)
(* The argument: a child that does not go back answers only what it never   *)
(* gave up, so that what a descriptor recorded of it is either what it      *)
(* still answers or is never answered again.  The inductive invariant says, *)
(* of any two descriptors of such a child, that as long as the child        *)
(* answers what the earlier one recorded, the later one recorded it too.    *)
(***************************************************************************)
EXTENDS CompositionOperators, FiniteSetTheorems, TLAPS

(* A position holds a child that does not take up a value again. *)
Steady(i) == composite.children[i] \in Children \ Fickle

(* The fields of the child under description that the draft already holds. *)
Read ==
  {f \in Fields : \/ f = "name" /\ field # "name"
                  \/ f = "version" /\ field \in {"source", "config"}
                  \/ f = "source" /\ field = "config"}

(* All that the callbacks of a child have answered so far. *)
Had(child, f) == givenUp[child][f] \cup {identity[child][f]}

(* The position is looked at, and the draft holds the field already. *)
Drafted(i, f) == index <= Size /\ Child = composite.children[i] /\ f \in Read

(* What is known of a descriptor that was read of the child at position i:  *)
(* if the child still answers what it recorded, so does the description     *)
(* under way.                                                               *)
Past(i, d) ==
  d.invalid = "nothing" =>
    /\ composite.children[i] # Nil
    /\ d.type = Type[composite.children[i]]
    /\ Steady(i) =>
         \A f \in Fields :
           /\ d.values[f] \in Had(composite.children[i], f)
           /\ (Drafted(i, f) /\ identity[composite.children[i]][f] = d.values[f])
                => draft[f] = d.values[f]

(* Descriptor e was read of the child at position i after d: while the      *)
(* child answers what d recorded, e recorded it too.                        *)
Follows(i, d, e) ==
  (d.invalid = "nothing" /\ e.invalid = "nothing" /\ Steady(i)) =>
    \A f \in Fields :
      /\ identity[composite.children[i]][f] = d.values[f] => e.values[f] = d.values[f]
      /\ (Drafted(i, f) /\ draft[f] = d.values[f]) => e.values[f] = d.values[f]

(* Where two descriptors agree, the one between them agrees with them. *)
Between(d, e, x) ==
  (d.invalid = "nothing" /\ e.invalid = "nothing" /\ x.invalid = "nothing") =>
    \A f \in Fields : x.values[f] = d.values[f] => e.values[f] = d.values[f]

(* Two positions hold one child, which does not take up a value again. *)
SameSteady(i, j) == Steady(i) /\ composite.children[j] = composite.children[i]

(* What each program point may assume of the lists. *)
PhaseInv ==
  /\ pc \in {"before", "called", "validate"} => outcomes = <<>>
  /\ Len(outcomes) <= Size
  /\ pc = "called" => descriptors = <<>>
  /\ pc = "compare" => Len(descriptors) = Size /\ after = CompositeVersion(descriptors)
  /\ (pc \in {"validate", "evaluate", "recheck"} \/ outcomes # <<>> \/ answer) =>
       ~RefusedUndescribed
  /\ pc \notin {"after", "compare"} => ~answer
  /\ answer => Len(outcomes) = Size /\ Enough
  /\ composite.operator = "sequential-and" =>
       \A i \in DOMAIN outcomes :
         (i < Len(outcomes) \/ pc \in {"evaluate", "recheck"}) => outcomes[i].valid

(* The draft holds what the child has answered. *)
DraftInv ==
  (index <= Size /\ Steady(index)) => \A f \in Read : draft[f] \in Had(Child, f)

(* The descriptors of an evaluation are complete, in the order they were    *)
(* read, and a threshold has no two with one identity.                      *)
Validated == pc \in {"validate", "evaluate", "recheck"}

DescriptorInv ==
  /\ \A i \in DOMAIN descriptors : Past(i, descriptors[i])
  /\ Validated => \A i \in DOMAIN descriptors : descriptors[i].invalid = "nothing"
  /\ Validated =>
       \A i, j \in DOMAIN descriptors :
         (i < j /\ SameSteady(i, j)) => Follows(i, descriptors[i], descriptors[j])
  /\ pc \in {"evaluate", "recheck"} => ~DuplicateIdentity

(* A tainted result is one whose recheck will differ. *)
TaintInv ==
  (pc = "recheck" /\ result.tainted /\ Steady(index)) =>
    \E f \in Fields : /\ descriptors[index].values[f] # identity[Child][f]
                      /\ f \in Read => descriptors[index].values[f] # draft[f]

(* An outcome carries the descriptor of the child in its position; a child  *)
(* of a threshold that passed does not occur in a later position.           *)
OutcomeInv ==
  \A i \in DOMAIN outcomes :
    /\ outcomes[i].child = composite.children[i]
    /\ outcomes[i].descriptor.invalid = "nothing"
    /\ Past(i, outcomes[i].descriptor)
    /\ pc \in {"evaluate", "recheck"} => outcomes[i].descriptor = descriptors[i]
    /\ (outcomes[i].valid /\ Steady(i)) => ~outcomes[i].tainted
    /\ composite.operator = "threshold" =>
         /\ \A j \in DOMAIN outcomes :
              i < j => IdentityOf(outcomes[i].descriptor) # IdentityOf(outcomes[j].descriptor)
         /\ (outcomes[i].valid /\ Steady(i)) =>
              \A j \in 1..Size : i < j => composite.children[j] # composite.children[i]

(* The version read before stands for seq; the descriptors of the           *)
(* evaluation and of its outcomes follow it, and those of the outcomes are  *)
(* between it and what is read afterwards.                                  *)
Precedes(seq) ==
  /\ before = CompositeVersion(seq)
  /\ \A i \in 1..Size : Past(i, seq[i])
  /\ \A i, j \in 1..Size :
       SameSteady(i, j) =>
         /\ j \in DOMAIN descriptors => Follows(i, seq[i], descriptors[j])
         /\ j \in DOMAIN outcomes => Follows(i, seq[i], outcomes[j].descriptor)
  /\ pc \in {"after", "compare"} =>
       \A i, j, k \in 1..Size :
         (SameSteady(i, j) /\ SameSteady(i, k) /\ j \in DOMAIN outcomes /\ k \in DOMAIN descriptors)
           => Between(seq[i], outcomes[j].descriptor, descriptors[k])

BeforeInv == pc # "before" => \E seq \in [1..Size -> Descriptor] : Precedes(seq)

IInv ==
  /\ TypeOK
  /\ PhaseInv
  /\ DraftInv
  /\ DescriptorInv
  /\ TaintInv
  /\ OutcomeInv
  /\ BeforeInv
-----------------------------------------------------------------------------
(* Types. *)

LEMMA CompositeShape ==
  ASSUME composite \in Composites
  PROVE  /\ Size \in Nat
         /\ DOMAIN composite.children = 1..Size
         /\ \A i \in 1..Size : composite.children[i] \in Children \cup {Nil}
         /\ composite.operator \in {"sequential-and", "parallel-and", "threshold"}
         /\ composite.threshold \in Nat
<1>1. PICK o \in Operators :
        composite \in [operator : {o}, threshold : Thresholds(o), children : Lists]
  BY DEF Composites
<1>2. composite.children \in Seq(Children \cup {Nil})
  BY <1>1, CompositionConstants
<1>3. /\ Size \in Nat /\ DOMAIN composite.children = 1..Size
      /\ \A i \in 1..Size : composite.children[i] \in Children \cup {Nil}
  BY <1>2 DEF Size
<1>4. composite.threshold \in Nat
  <2>1. Thresholds(o) \subseteq Nat
    BY CompositionConstants DEF Thresholds
  <2> QED BY <1>1, <2>1
<1>5. composite.operator \in {"sequential-and", "parallel-and", "threshold"}
  BY <1>1, CompositionConstants
<1> QED BY <1>3, <1>4, <1>5

(* The child that is looked at. *)
LEMMA ChildType ==
  ASSUME TypeOK, index <= Size
  PROVE  index \in 1..Size /\ Child = composite.children[index] /\ Child \in Children \cup {Nil}
<1>1. index \in 1..Size
  BY CompositeShape DEF TypeOK
<1> QED BY <1>1, CompositeShape DEF TypeOK, Child

(* How long the list of descriptors is. *)
LEMMA DescriptorsFit ==
  ASSUME TypeOK, PhaseInv
  PROVE  /\ DOMAIN descriptors = 1..Len(descriptors)
         /\ Len(descriptors) \in Nat
         /\ Len(descriptors) <= Size
         /\ Len(outcomes) \in Nat
         /\ DOMAIN outcomes = 1..Len(outcomes)
         /\ \A i \in DOMAIN descriptors : descriptors[i] \in Descriptor
<1>1. Size \in Nat /\ descriptors \in Seq(Descriptor) /\ pc \in Pcs /\ index \in 1..(Size + 1)
  BY CompositeShape DEF TypeOK
<1>2. Len(descriptors) <= Size
  <2>1. CASE pc \in {"before", "validate", "after"}
    BY <1>1, <2>1 DEF TypeOK
  <2>2. CASE pc \in {"evaluate", "recheck", "compare"}
    BY <1>1, <2>2 DEF TypeOK, PhaseInv
  <2>3. CASE pc = "called"
    BY <1>1, <2>3 DEF PhaseInv
  <2> QED BY <1>1, <2>1, <2>2, <2>3 DEF Pcs, Describing
<1> QED BY <1>1, <1>2 DEF TypeOK

(* The descriptors a step may end with are descriptors. *)
LEMMA DescribedType ==
  ASSUME TypeOK, index <= Size, NEW d \in Described
  PROVE  /\ d \in Descriptor
         /\ d.invalid = "nothing" =>
              /\ Child # Nil
              /\ field = "config"
              /\ d = [type |-> Type[Child], values |-> [draft EXCEPT !["config"] = identity[Child]["config"]],
                      invalid |-> "nothing"]
<1>1. Child \in Children \cup {Nil}
  BY ChildType
<1>2. CASE Child = Nil
  <2>1. d = [type |-> Nil, values |-> Unread, invalid |-> "nil"]
    BY <1>2 DEF Described
  <2>2. Unread \in [Fields -> Nat]
    BY DEF Unread
  <2> QED BY <2>1, <2>2 DEF Descriptor
<1>3. CASE Child # Nil
  <2> DEFINE failed == {[type |-> Type[Child], values |-> draft, invalid |-> field] :
                          f \in {field} \cap Callbacks(Child)}
             complete == {[type |-> Type[Child], values |-> [draft EXCEPT ![f] = identity[Child][f]],
                           invalid |-> "nothing"] : f \in {field} \cap {"config"}}
  <2>1. d \in failed \cup complete
    BY <1>3 DEF Described
  <2>2. Type[Child] \in {Type[child] : child \in Children} \cup {Nil}
    BY <1>1, <1>3
  <2>3. draft \in [Fields -> Nat] /\ field \in Fields /\ identity[Child] \in [Fields -> Nat]
    BY <1>1, <1>3 DEF TypeOK
  <2>4. CASE d \in failed
    <3>1. d = [type |-> Type[Child], values |-> draft, invalid |-> field]
      BY <2>4
    <3>2. d.invalid # "nothing"
      BY <2>3, <3>1 DEF Fields
    <3> QED BY <2>2, <2>3, <3>1, <3>2 DEF Descriptor
  <2>5. CASE d \in complete
    <3>1. field = "config"
      BY <2>5
    <3>2. d = [type |-> Type[Child], values |-> [draft EXCEPT !["config"] = identity[Child]["config"]],
               invalid |-> "nothing"]
      BY <2>5
    <3>3. [draft EXCEPT !["config"] = identity[Child]["config"]] \in [Fields -> Nat]
      BY <2>3 DEF Fields
    <3> QED BY <1>3, <2>2, <3>1, <3>2, <3>3 DEF Descriptor
  <2> HIDE DEF failed, complete
  <2> QED BY <2>1, <2>4, <2>5
<1> QED BY <1>2, <1>3

LEMMA InitTypeOK == Init => TypeOK
<1> SUFFICES ASSUME Init PROVE TypeOK
  OBVIOUS
<1>1. /\ identity \in [Children -> [Fields -> Nat]]
      /\ givenUp \in [Children -> [Fields -> SUBSET Nat]]
  BY CompositionConstants DEF Init
<1>2. Size \in Nat
  BY CompositeShape DEF Init
<1>3. /\ index \in 1..(Size + 1) /\ field \in Fields /\ draft \in [Fields -> Nat]
      /\ descriptors = <<>> /\ outcomes = <<>> /\ pc = "before" /\ index = 1
  BY <1>2 DEF Init, Fields, Unread
<1>4. /\ result \in [valid : BOOLEAN, tainted : BOOLEAN] /\ answer \in BOOLEAN
      /\ composite \in Composites
  BY DEF Init, Unanswered
<1>5. Len(descriptors) = 0 /\ descriptors \in Seq(Descriptor)
      /\ outcomes \in Seq([child : Children, descriptor : Descriptor,
                           valid : BOOLEAN, tainted : BOOLEAN])
  BY <1>3
<1> QED BY <1>1, <1>2, <1>3, <1>4, <1>5 DEF TypeOK, Pcs, Describing

(* Where a step leads, and what it reads. *)
LEMMA LookAtType ==
  ASSUME NEW point, NEW i, LookAt(point, i)
  PROVE  /\ pc' = point /\ index' = i /\ field' = "name" /\ draft' = Unread
         /\ field' \in Fields /\ draft' \in [Fields -> Nat]
BY DEF LookAt, Fields, Unread

(* The types of everything, for a step that keeps the composite and the     *)
(* identities.                                                              *)
LEMMA TypeKept ==
  ASSUME TypeOK, UNCHANGED <<composite, children>>,
         pc' \in Pcs, index' \in 1..(Size + 1), field' \in Fields, draft' \in [Fields -> Nat],
         descriptors' \in Seq(Descriptor),
         pc' \in {"before", "validate", "after"} => Len(descriptors') = index' - 1,
         pc' \in {"evaluate", "recheck"} => Len(descriptors') = Size /\ Len(outcomes') = index' - 1,
         pc' = "recheck" => index' <= Size,
         result' \in [valid : BOOLEAN, tainted : BOOLEAN],
         outcomes' \in Seq([child : Children, descriptor : Descriptor,
                            valid : BOOLEAN, tainted : BOOLEAN]),
         answer' \in BOOLEAN
  PROVE  TypeOK'
<1>1. Size' = Size
  BY DEF Size
<1> QED BY <1>1 DEF TypeOK, children

LEMMA ReadFieldType ==
  ASSUME TypeOK, ReadField
  PROVE  TypeOK'
<1>1. index <= Size /\ Child \in Children
  BY ChildType DEF ReadField
<1>2. field' \in Fields
  BY DEF ReadField, NextField, TypeOK, Fields
<1>3. draft' \in [Fields -> Nat]
  <2>1. identity[Child][field] \in Nat
    BY <1>1 DEF TypeOK
  <2> QED BY <2>1 DEF ReadField, TypeOK
<1>4. UNCHANGED <<composite, children, pc, index, descriptors, result, outcomes, answer>>
  BY DEF ReadField, answers
<1> QED BY <1>2, <1>3, <1>4, TypeKept DEF TypeOK

LEMMA DriftType ==
  ASSUME TypeOK, NEW child \in Children, NEW f \in Fields, NEW value \in 0..MaxDrift[child][f],
         Drift(child, f, value)
  PROVE  TypeOK'
<1>1. value \in Nat
  BY CompositionConstants
<1>2. identity' \in [Children -> [Fields -> Nat]]
  BY <1>1 DEF Drift, TypeOK
<1>3. givenUp' \in [Children -> [Fields -> SUBSET Nat]]
  <2>1. /\ givenUp \in [Children -> [Fields -> SUBSET Nat]]
        /\ givenUp[child][f] \cup {identity[child][f]} \in SUBSET Nat
    BY DEF TypeOK
  <2>2. CASE child \in Fickle
    BY <2>1, <2>2 DEF Drift
  <2>3. CASE child \notin Fickle
    <3>1. givenUp' = [givenUp EXCEPT ![child][f] = givenUp[child][f] \cup {identity[child][f]}]
      BY <2>3 DEF Drift
    <3> QED BY <2>1, <3>1
  <2> QED BY <2>2, <2>3
<1>4. UNCHANGED <<composite, pc, index, field, draft, descriptors, result, outcomes, answer>>
  BY DEF Drift, reading, answers
<1>5. Size' = Size
  BY <1>4 DEF Size
<1> QED BY <1>2, <1>3, <1>4, <1>5 DEF TypeOK

(* A descriptor is added. *)
LEMMA DescribeType ==
  ASSUME TypeOK, index <= Size, pc \in {"before", "validate", "after"},
         NEW d \in Described, descriptors' = Append(descriptors, d), LookAt(pc, index + 1),
         UNCHANGED <<composite, children, result, outcomes, answer>>
  PROVE  TypeOK'
<1>1. d \in Descriptor
  BY DescribedType
<1>2. Size \in Nat /\ index \in 1..Size
  BY CompositeShape, ChildType DEF TypeOK
<1>3. /\ descriptors' \in Seq(Descriptor)
      /\ Len(descriptors') = (index + 1) - 1
  BY <1>1, <1>2 DEF TypeOK
<1>4. /\ pc' = pc /\ index' = index + 1
      /\ field' \in Fields /\ draft' \in [Fields -> Nat]
  BY LookAtType
<1>5. index' \in 1..(Size + 1)
  BY <1>2, <1>4
<1> QED BY <1>3, <1>4, <1>5, TypeKept DEF TypeOK, Pcs, Describing

(* The lists are emptied, or kept, and the next loop starts. *)
Emptied(point) == point \in {"before", "validate", "after"} => descriptors' = <<>>

LEMMA ResultType ==
  ASSUME result \in [valid : BOOLEAN, tainted : BOOLEAN], result' \in {result, Unanswered}
  PROVE  result' \in [valid : BOOLEAN, tainted : BOOLEAN]
<1>1. Unanswered \in [valid : BOOLEAN, tainted : BOOLEAN]
  BY DEF Unanswered
<1> QED BY <1>1

LEMMA LoopType ==
  ASSUME TypeOK, NEW point \in Pcs, LookAt(point, 1),
         descriptors' \in Seq(Descriptor), Emptied(point),
         point \notin {"evaluate", "recheck"},
         outcomes' \in Seq([child : Children, descriptor : Descriptor,
                            valid : BOOLEAN, tainted : BOOLEAN]),
         answer' \in BOOLEAN, UNCHANGED <<composite, children>>,
         result' \in {result, Unanswered}
  PROVE  TypeOK'
<1>1. Size \in Nat
  BY CompositeShape DEF TypeOK
<1>2. /\ pc' = point /\ index' = 1
      /\ field' \in Fields /\ draft' \in [Fields -> Nat]
  BY LookAtType
<1>3. /\ descriptors' \in Seq(Descriptor)
      /\ point \in {"before", "validate", "after"} => Len(descriptors') = 0
  BY DEF Emptied
<1>4. result' \in [valid : BOOLEAN, tainted : BOOLEAN]
  BY ResultType DEF TypeOK
<1> QED BY <1>1, <1>2, <1>3, <1>4, TypeKept DEF TypeOK

LEMMA AnswerType ==
  ASSUME TypeOK, NEW valid \in BOOLEAN, Answer(valid), UNCHANGED <<composite, children>>,
         result' \in {result, Unanswered},
         outcomes' \in Seq([child : Children, descriptor : Descriptor,
                            valid : BOOLEAN, tainted : BOOLEAN])
  PROVE  TypeOK'
<1>1. answer' \in BOOLEAN /\ descriptors' = <<>> /\ LookAt("after", 1)
  BY DEF Answer
<1>2. descriptors' \in Seq(Descriptor) /\ Emptied("after")
  BY <1>1 DEF Emptied
<1>3. "after" \in Pcs /\ "after" \notin {"evaluate", "recheck"}
  BY DEF Pcs, Describing
<1> QED BY <1>1, <1>2, <1>3, LoopType

LEMMA OutcomeType ==
  ASSUME TypeOK, index <= Size, Child \in Children, pc \in {"evaluate", "recheck"},
         NEW valid \in BOOLEAN, Outcome(valid), UNCHANGED <<composite, children>>,
         result' \in {result, Unanswered}
  PROVE  TypeOK'
<1>1. Size \in Nat /\ index \in 1..Size
  BY CompositeShape, ChildType DEF TypeOK
<1>2. descriptors[index] \in Descriptor
  BY <1>1 DEF TypeOK
<1> DEFINE new == OutcomeOf(valid)
<1>3. new \in [child : Children, descriptor : Descriptor, valid : BOOLEAN, tainted : BOOLEAN]
  BY <1>2 DEF OutcomeOf, TypeOK
<1> HIDE DEF new
<1>4. outcomes' = Append(outcomes, new)
  BY DEF Outcome, new
<1>5. /\ outcomes' \in Seq([child : Children, descriptor : Descriptor,
                            valid : BOOLEAN, tainted : BOOLEAN])
      /\ Len(outcomes') = index
  BY <1>1, <1>3, <1>4 DEF TypeOK
<1>6. CASE LookAt("evaluate", index + 1) /\ UNCHANGED <<descriptors, answer>>
  <2>1. /\ pc' = "evaluate" /\ index' = index + 1
        /\ field' \in Fields /\ draft' \in [Fields -> Nat]
    BY <1>6, LookAtType
  <2>2. index' \in 1..(Size + 1) /\ Len(outcomes') = index' - 1
    BY <1>1, <1>5, <2>1
  <2>3. result' \in [valid : BOOLEAN, tainted : BOOLEAN]
    BY ResultType DEF TypeOK
  <2> QED BY <1>5, <1>6, <2>1, <2>2, <2>3, TypeKept DEF TypeOK, Pcs
<1>7. CASE Answer(FALSE)
  BY <1>5, <1>7, AnswerType
<1> QED BY <1>6, <1>7 DEF Outcome

(* The children of an evaluation are there. *)
LEMMA EvaluatedChild ==
  ASSUME TypeOK, DescriptorInv, index <= Size, pc \in {"evaluate", "recheck"}
  PROVE  Child \in Children
<1>1. index \in DOMAIN descriptors
  BY ChildType DEF TypeOK
<1>2. Child # Nil
  BY <1>1, ChildType DEF DescriptorInv, Validated, Past
<1> QED BY <1>2, ChildType

LEMMA TypeMoves ==
  ASSUME TypeOK, PhaseInv, DescriptorInv, [Next]_vars
  PROVE  TypeOK'
<1> USE DEF answers
<1>0. Size \in Nat /\ index \in 1..(Size + 1)
  BY CompositeShape DEF TypeOK
<1>1. CASE DescribeForVersion
  BY <1>1, DescribeType DEF DescribeForVersion
<1>2. CASE VersionBefore
  <2>1. /\ descriptors' = <<>> /\ LookAt("called", 1)
        /\ UNCHANGED <<composite, children, result, outcomes, answer>>
    BY <1>2 DEF VersionBefore
  <2>2. descriptors' \in Seq(Descriptor) /\ Emptied("called")
    BY <2>1 DEF Emptied
  <2>3. "called" \in Pcs /\ "called" \notin {"evaluate", "recheck"}
    BY DEF Pcs
  <2> QED BY <2>1, <2>2, <2>3, LoopType DEF TypeOK
<1>3. CASE VersionAfter
  BY <1>3, LoopType DEF Emptied, VersionAfter, Pcs, TypeOK
<1>4. CASE EvaluateBegins
  <2>1. UNCHANGED <<composite, children, result, outcomes>> /\ descriptors = <<>>
    BY <1>4 DEF EvaluateBegins, PhaseInv
  <2>2. CASE Answer(FALSE)
    BY <2>1, <2>2, AnswerType DEF TypeOK
  <2>3. CASE LookAt("validate", 1) /\ UNCHANGED <<descriptors, answer>>
    <3>1. descriptors' \in Seq(Descriptor) /\ Emptied("validate")
      BY <2>1, <2>3 DEF Emptied
    <3>2. "validate" \in Pcs /\ "validate" \notin {"evaluate", "recheck"}
      BY DEF Pcs, Describing
    <3> QED BY <2>1, <2>3, <3>1, <3>2, LoopType DEF TypeOK
  <2> QED BY <1>4, <2>2, <2>3 DEF EvaluateBegins
<1>5. CASE ValidateChild
  <2>1. PICK d \in Described :
          \/ d.invalid # "nothing" /\ Answer(FALSE)
          \/ /\ d.invalid = "nothing"
             /\ descriptors' = Append(descriptors, d)
             /\ LookAt(pc, index + 1)
             /\ UNCHANGED answer
    BY <1>5 DEF ValidateChild
  <2>2. UNCHANGED <<composite, children, result, outcomes>> /\ index <= Size /\ pc = "validate"
    BY <1>5 DEF ValidateChild
  <2>3. CASE Answer(FALSE)
    BY <2>2, <2>3, AnswerType DEF TypeOK
  <2>4. CASE descriptors' = Append(descriptors, d) /\ LookAt(pc, index + 1) /\ UNCHANGED answer
    BY <2>2, <2>4, DescribeType
  <2> QED BY <2>1, <2>3, <2>4
<1>6. CASE ValidationEnds
  <2>1. /\ UNCHANGED <<composite, children, result, outcomes>>
        /\ index > Size /\ pc = "validate" /\ outcomes = <<>>
    BY <1>6 DEF ValidationEnds, PhaseInv
  <2>2. CASE Answer(FALSE)
    BY <2>1, <2>2, AnswerType DEF TypeOK
  <2>3. CASE LookAt("evaluate", 1) /\ UNCHANGED <<descriptors, answer>>
    <3>1. Len(descriptors) = Size
      BY <1>0, <2>1 DEF TypeOK
    <3>2. /\ pc' = "evaluate" /\ index' = 1
          /\ field' \in Fields /\ draft' \in [Fields -> Nat]
      BY <2>3, LookAtType
    <3> QED BY <1>0, <2>1, <2>3, <3>1, <3>2, TypeKept DEF TypeOK, Pcs
  <2> QED BY <1>6, <2>2, <2>3 DEF ValidationEnds
<1>7. CASE EvaluateChildFails
  BY <1>7, OutcomeType, EvaluatedChild DEF EvaluateChildFails
<1>8. ASSUME NEW valid \in BOOLEAN, EvaluateChild(valid) PROVE TypeOK'
  <2>1. /\ pc = "evaluate" /\ index <= Size
        /\ LookAt("recheck", index)
        /\ UNCHANGED <<composite, children, descriptors, outcomes, answer>>
    BY <1>8 DEF EvaluateChild
  <2>2. result' \in [valid : BOOLEAN, tainted : BOOLEAN]
    BY <1>8 DEF EvaluateChild
  <2>3. /\ pc' = "recheck" /\ index' = index
        /\ field' \in Fields /\ draft' \in [Fields -> Nat]
    BY <2>1, LookAtType
  <2> QED BY <1>0, <2>1, <2>2, <2>3, TypeKept DEF TypeOK, Pcs, Describing
<1>9. CASE RecheckChild
  <2>1. PICK d \in Described : Outcome(SameDescriptor(d) /\ result.valid)
    BY <1>9 DEF RecheckChild
  <2>2. (SameDescriptor(d) /\ result.valid) \in BOOLEAN
    OBVIOUS
  <2>3. /\ UNCHANGED <<composite, children>> /\ result' = Unanswered
        /\ pc = "recheck" /\ index <= Size
    BY <1>9 DEF RecheckChild, TypeOK
  <2> QED BY <2>1, <2>2, <2>3, OutcomeType, EvaluatedChild
<1>10. CASE Tally
  <2>1. Enough \in BOOLEAN
    <3>1. CASE composite.operator = "threshold"
      BY <3>1 DEF Enough
    <3>2. CASE composite.operator # "threshold"
      BY <3>2 DEF Enough
    <3> QED BY <3>1, <3>2
  <2>2. Answer(Enough) /\ UNCHANGED <<composite, children, result, outcomes>>
    BY <1>10 DEF Tally
  <2> QED BY <2>1, <2>2, AnswerType DEF TypeOK
<1>11. CASE UseAgain
  <2>1. /\ descriptors' = <<>> /\ outcomes' = <<>> /\ answer' = FALSE
        /\ LookAt("before", 1) /\ UNCHANGED <<composite, children, result>>
    BY <1>11 DEF UseAgain
  <2>2. /\ descriptors' \in Seq(Descriptor) /\ Emptied("before")
        /\ outcomes' \in Seq([child : Children, descriptor : Descriptor,
                              valid : BOOLEAN, tainted : BOOLEAN])
    BY <2>1 DEF Emptied
  <2>3. "before" \in Pcs /\ "before" \notin {"evaluate", "recheck"}
    BY DEF Pcs, Describing
  <2> QED BY <2>1, <2>2, <2>3, LoopType
<1>12. CASE ReadField
  BY <1>12, ReadFieldType
<1>13. ASSUME NEW child \in Children, NEW f \in Fields, NEW value \in 0..MaxDrift[child][f],
              Drift(child, f, value)
       PROVE  TypeOK'
  BY <1>13, DriftType
<1>14. CASE UNCHANGED vars
  <2>1. UNCHANGED <<composite, children, pc, index, field, draft, descriptors, result, outcomes, answer>>
    BY <1>14 DEF vars, reading
  <2> QED BY <2>1 DEF TypeOK, Size, children
<1> QED BY <1>1, <1>2, <1>3, <1>4, <1>5, <1>6, <1>7, <1>8, <1>9, <1>10, <1>11, <1>12, <1>13, <1>14
        DEF Next
-----------------------------------------------------------------------------
(* How steps move what descriptions are made of: they start a description,  *)
(* read a field, or let children take up later values.                      *)
Starts == UNCHANGED <<composite, children>> /\ field' = "name" /\ draft' = Unread

Grows ==
  /\ UNCHANGED <<composite, index, field, draft>>
  /\ \A child \in Children \ Fickle, f \in Fields :
       /\ Had(child, f) \subseteq Had(child, f)'
       /\ identity'[child][f] = identity[child][f] \/ identity'[child][f] \notin Had(child, f)

Moves == Starts \/ Grows \/ ReadField

LEMMA DriftGrows ==
  ASSUME TypeOK, NEW child \in Children, NEW f \in Fields, NEW value \in 0..MaxDrift[child][f],
         Drift(child, f, value)
  PROVE  Grows
<1>1. /\ identity \in [Children -> [Fields -> Nat]]
      /\ givenUp \in [Children -> [Fields -> SUBSET Nat]]
  BY DEF TypeOK
<1>2. /\ UNCHANGED <<composite, index, field, draft>>
      /\ identity' = [identity EXCEPT ![child][f] = value]
      /\ value # identity[child][f] /\ value \notin givenUp[child][f]
  BY DEF Drift, reading
<1>3. child \notin Fickle =>
        givenUp' = [givenUp EXCEPT ![child][f] = givenUp[child][f] \cup {identity[child][f]}]
  BY DEF Drift
<1>4. child \in Fickle => givenUp' = givenUp
  BY DEF Drift
<1>5. ASSUME NEW c \in Children \ Fickle, NEW g \in Fields
      PROVE  /\ Had(c, g) \subseteq Had(c, g)'
             /\ identity'[c][g] = identity[c][g] \/ identity'[c][g] \notin Had(c, g)
  <2>1. CASE c = child /\ g = f
    <3>1. identity'[c][g] = value
      BY <1>1, <1>2, <2>1
    <3>2. givenUp'[c][g] = givenUp[c][g] \cup {identity[c][g]}
      BY <1>1, <1>3, <2>1
    <3> QED BY <1>2, <2>1, <3>1, <3>2 DEF Had
  <2>2. CASE c # child \/ g # f
    <3>1. identity'[c][g] = identity[c][g]
      BY <1>1, <1>2, <2>2
    <3>2. givenUp'[c][g] = givenUp[c][g]
      BY <1>1, <1>3, <1>4, <2>2
    <3> QED BY <3>1, <3>2 DEF Had
  <2> QED BY <2>1, <2>2
<1> QED BY <1>2, <1>5 DEF Grows

LEMMA StillGrows ==
  ASSUME UNCHANGED <<composite, children, reading>>
  PROVE  Grows
BY DEF Grows, Had, children, reading

LEMMA OutcomeStarts ==
  ASSUME NEW valid, Outcome(valid), UNCHANGED <<composite, children>>
  PROVE  Starts
BY DEF Outcome, Answer, LookAt, Starts

LEMMA StepMoves == ASSUME TypeOK, [Next]_vars PROVE Moves
<1>1. CASE DescribeForVersion \/ VersionBefore \/ VersionAfter
  BY <1>1 DEF DescribeForVersion, VersionBefore, VersionAfter, LookAt, Starts, Moves
<1>2. CASE EvaluateBegins \/ ValidateChild \/ ValidationEnds
  BY <1>2 DEF EvaluateBegins, ValidateChild, ValidationEnds, Answer, LookAt, Starts, Moves
<1>3. CASE EvaluateChildFails \/ RecheckChild
  BY <1>3, OutcomeStarts DEF EvaluateChildFails, RecheckChild, Moves
<1>4. ASSUME NEW valid \in BOOLEAN, EvaluateChild(valid) PROVE Moves
  BY <1>4 DEF EvaluateChild, LookAt, Starts, Moves
<1>5. CASE Tally \/ UseAgain
  BY <1>5 DEF Tally, UseAgain, Answer, LookAt, Starts, Moves
<1>6. CASE ReadField
  BY <1>6 DEF Moves
<1>7. ASSUME NEW child \in Children, NEW f \in Fields, NEW value \in 0..MaxDrift[child][f],
             Drift(child, f, value)
      PROVE  Moves
  BY <1>7, DriftGrows DEF Moves
<1>8. CASE UNCHANGED vars
  BY <1>8, StillGrows DEF Moves, vars
<1> QED BY <1>1, <1>2, <1>3, <1>4, <1>5, <1>6, <1>7, <1>8 DEF Next

LEMMA MovesKeepComposite ==
  ASSUME Moves
  PROVE  composite' = composite /\ Size' = Size /\ \A i : Steady(i)' <=> Steady(i)
<1>1. composite' = composite
  BY DEF Moves, Starts, Grows, ReadField
<1> QED BY <1>1 DEF Size, Steady

(* What a child has answered it has answered from then on, and what it     *)
(* answers is new if it is not what it answered before the step.            *)
LEMMA HadStays ==
  ASSUME TypeOK, Moves, NEW child \in Children \ Fickle, NEW f \in Fields, NEW v \in Had(child, f)
  PROVE  v \in Had(child, f)' /\ (identity'[child][f] = v => identity[child][f] = v)
<1>1. CASE Starts \/ ReadField
  BY <1>1 DEF Starts, ReadField, Had, children
<1>2. CASE Grows
  <2>1. /\ Had(child, f) \subseteq Had(child, f)'
        /\ identity'[child][f] = identity[child][f] \/ identity'[child][f] \notin Had(child, f)
    BY <1>2 DEF Grows
  <2> QED BY <2>1
<1> QED BY <1>1, <1>2 DEF Moves

(* How steps move the draft: what it holds of a child afterwards it held    *)
(* before, or it is what the child answers now.                             *)
LEMMA DraftMoves ==
  ASSUME TypeOK, Moves, NEW i, NEW f \in Fields, Drafted(i, f)'
  PROVE  /\ index <= Size /\ Child = composite.children[i] /\ index' = index /\ Child' = Child
         /\ \/ Drafted(i, f) /\ draft'[f] = draft[f]
            \/ /\ draft'[f] = identity[composite.children[i]][f]
               /\ identity'[composite.children[i]][f] = identity[composite.children[i]][f]
<1>1. composite' = composite /\ Size' = Size
  BY MovesKeepComposite
<1>2. index' <= Size /\ Child' = composite.children[i] /\ f \in Read'
  BY <1>1 DEF Drafted
<1>3. Child' = composite.children[index'] /\ Child = composite.children[index]
  BY <1>1 DEF Child
<1>4. draft \in [Fields -> Nat] /\ field \in Fields
  BY DEF TypeOK
<1>5. CASE Starts
  BY <1>2, <1>5 DEF Starts, Read
<1>6. CASE Grows
  <2>1. Read' = Read /\ Child' = Child /\ index' = index /\ draft' = draft
    BY <1>3, <1>6 DEF Grows, Read
  <2> QED BY <1>2, <2>1 DEF Drafted
<1>7. CASE ReadField
  <2>1. /\ Child' = Child /\ identity' = identity /\ index' = index /\ field # "config"
        /\ draft' = [draft EXCEPT ![field] = identity[Child][field]]
        /\ field' = NextField[field]
    BY <1>3, <1>7 DEF ReadField, children
  <2>2. f = field \/ f \in Read
    BY <1>2, <1>4, <2>1 DEF Read, NextField, Fields
  <2>3. CASE f = field
    BY <1>2, <1>4, <2>1, <2>3
  <2>4. CASE f # field
    BY <1>2, <1>4, <2>1, <2>2, <2>4 DEF Drafted
  <2> QED BY <2>3, <2>4, <1>2, <2>1
<1> QED BY <1>5, <1>6, <1>7 DEF Moves

(* The draft holds what the child has answered. *)
LEMMA DraftStays ==
  ASSUME TypeOK, DraftInv, Moves
  PROVE  DraftInv'
<1> SUFFICES ASSUME index' <= Size', Steady(index)', NEW f \in Read'
             PROVE  draft'[f] \in Had(Child, f)'
  BY DEF DraftInv
<1>1. composite' = composite /\ Size' = Size
  BY MovesKeepComposite
<1>2. PICK i : i = index'
  OBVIOUS
<1>3. f \in Fields /\ Child' = composite.children[i] /\ Child' \in Children \ Fickle
  BY <1>1, <1>2 DEF Read, Child, Steady
<1>4. Drafted(i, f)'
  BY <1>1, <1>2, <1>3 DEF Drafted
<1>5. /\ index <= Size /\ Child = Child' /\ index' = index
      /\ \/ Drafted(i, f) /\ draft'[f] = draft[f]
         \/ draft'[f] = identity[Child][f] /\ identity'[Child][f] = identity[Child][f]
  BY <1>3, <1>4, DraftMoves
<1>6. CASE Drafted(i, f) /\ draft'[f] = draft[f]
  <2>1. f \in Read /\ Steady(index)
    BY <1>1, <1>3, <1>5, <1>6 DEF Drafted, Steady, Child
  <2>2. draft[f] \in Had(Child, f)
    BY <1>5, <2>1 DEF DraftInv
  <2>3. draft[f] \in Had(Child', f)
    BY <1>5, <2>2
  <2> DEFINE child == Child'
             v == draft[f]
  <2>4. child \in Children \ Fickle /\ v \in Had(child, f)
    BY <1>3, <2>3
  <2> HIDE DEF child, v
  <2>5. v \in givenUp'[child][f] \cup {identity'[child][f]}
    BY <1>3, <2>4, HadStays DEF Had
  <2> QED BY <1>6, <2>5 DEF child, v, Had
<1>7. CASE draft'[f] = identity[Child][f] /\ identity'[Child][f] = identity[Child][f]
  BY <1>5, <1>7 DEF Had
<1> QED BY <1>5, <1>6, <1>7

(* What is known of a descriptor stays true. *)
LEMMA PastStays ==
  ASSUME TypeOK, Moves, NEW i \in 1..Size, NEW d \in Descriptor, Past(i, d)
  PROVE  Past(i, d)'
<1> DEFINE child == composite.children[i]
<1>1. composite' = composite /\ Size' = Size /\ (Steady(i)' <=> Steady(i))
  BY MovesKeepComposite
<1> SUFFICES ASSUME d.invalid = "nothing"
             PROVE  /\ child # Nil
                    /\ d.type = Type[child]
                    /\ Steady(i) =>
                         \A f \in Fields :
                           /\ d.values[f] \in Had(child, f)'
                           /\ (Drafted(i, f)' /\ identity'[child][f] = d.values[f])
                                => draft'[f] = d.values[f]
  BY <1>1 DEF Past, Had
<1>2. child # Nil /\ d.type = Type[child]
  BY DEF Past
<1>3. ASSUME Steady(i), NEW f \in Fields
      PROVE  /\ d.values[f] \in Had(child, f)'
             /\ (Drafted(i, f)' /\ identity'[child][f] = d.values[f]) => draft'[f] = d.values[f]
  <2>1. child \in Children \ Fickle
    BY <1>3 DEF Steady
  <2>2. /\ d.values[f] \in Had(child, f)
        /\ (Drafted(i, f) /\ identity[child][f] = d.values[f]) => draft[f] = d.values[f]
    BY <1>3 DEF Past
  <2>3. Drafted(i, f)' =>
          \/ Drafted(i, f) /\ draft'[f] = draft[f]
          \/ draft'[f] = identity[child][f] /\ identity'[child][f] = identity[child][f]
    BY DraftMoves
  <2>4. PICK c, v : c = child /\ v = d.values[f]
    OBVIOUS
  <2>5. c \in Children \ Fickle /\ v \in Had(c, f)
    BY <2>1, <2>2, <2>4
  <2> HIDE DEF child
  <2>6. v \in Had(c, f)' /\ (identity'[c][f] = v => identity[c][f] = v)
    BY <2>5, HadStays
  <2>7. child' = child
    BY <1>1 DEF child
  <2> QED BY <2>2, <2>3, <2>4, <2>6, <2>7
<1> QED BY <1>2, <1>3

(* What is known of two of them stays true. *)
LEMMA FollowsStays ==
  ASSUME TypeOK, Moves, NEW i \in 1..Size, NEW d \in Descriptor, NEW e \in Descriptor,
         Past(i, d), Follows(i, d, e)
  PROVE  Follows(i, d, e)'
<1> DEFINE child == composite.children[i]
<1>1. composite' = composite /\ (Steady(i)' <=> Steady(i))
  BY MovesKeepComposite
<1> SUFFICES ASSUME d.invalid = "nothing", e.invalid = "nothing", Steady(i), NEW f \in Fields
             PROVE  /\ identity'[child][f] = d.values[f] => e.values[f] = d.values[f]
                    /\ (Drafted(i, f)' /\ draft'[f] = d.values[f]) => e.values[f] = d.values[f]
  BY <1>1 DEF Follows
<1>2. child \in Children \ Fickle /\ d.values[f] \in Had(child, f)
  BY DEF Steady, Past
<1>3. /\ identity[child][f] = d.values[f] => e.values[f] = d.values[f]
      /\ (Drafted(i, f) /\ draft[f] = d.values[f]) => e.values[f] = d.values[f]
  BY DEF Follows
<1>4. Drafted(i, f)' =>
        \/ Drafted(i, f) /\ draft'[f] = draft[f]
        \/ draft'[f] = identity[child][f]
  BY DraftMoves
<1> HIDE DEF child
<1>5. identity'[child][f] = d.values[f] => identity[child][f] = d.values[f]
  BY <1>2, HadStays
<1> QED BY <1>3, <1>4, <1>5

(* The values of a complete descriptor, at the step that ends it. *)
LEMMA FreshValues ==
  ASSUME TypeOK, index <= Size, NEW d \in Described, d.invalid = "nothing", NEW f \in Fields
  PROVE  (f \in Read /\ d.values[f] = draft[f]) \/ d.values[f] = identity[Child][f]
<1>1. field = "config" /\ d.values = [draft EXCEPT !["config"] = identity[Child]["config"]]
  BY DescribedType
<1>2. f # "config" => f \in Read
  BY <1>1 DEF Read, Fields
<1>3. draft \in [Fields -> Nat]
  BY DEF TypeOK
<1> QED BY <1>1, <1>2, <1>3

(* It is between what is known of the child and what the child answers, ... *)
LEMMA FreshFollows ==
  ASSUME TypeOK, index <= Size, NEW d \in Described, Starts,
         NEW i \in 1..Size, NEW e \in Descriptor, Past(i, e), SameSteady(i, index)
  PROVE  Follows(i, e, d)'
<1> DEFINE child == composite.children[i]
<1>1. composite' = composite /\ identity' = identity /\ Read' = {}
  BY DEF Starts, Read, children
<1>2. child = Child /\ child \in Children \ Fickle /\ Steady(i)
  BY DEF SameSteady, Steady, Child
<1> SUFFICES ASSUME d.invalid = "nothing", e.invalid = "nothing", NEW f \in Fields,
                    identity[child][f] = e.values[f]
             PROVE  d.values[f] = e.values[f]
  BY <1>1 DEF Follows, Drafted
<1>3. f \in Read => draft[f] = e.values[f]
  BY <1>2 DEF Past, Drafted
<1>4. (f \in Read /\ d.values[f] = draft[f]) \/ d.values[f] = identity[Child][f]
  BY FreshValues
<1> QED BY <1>2, <1>3, <1>4

(* ... after what followed that, ... *)
LEMMA FreshConfirms ==
  ASSUME TypeOK, index <= Size, NEW d \in Described,
         NEW i \in 1..Size, NEW x, NEW e, Follows(i, x, e), SameSteady(i, index)
  PROVE  Between(x, e, d)
<1>1. composite.children[i] = Child /\ Steady(i)
  BY DEF SameSteady, Child
<1> SUFFICES ASSUME d.invalid = "nothing", e.invalid = "nothing", x.invalid = "nothing",
                    NEW f \in Fields, d.values[f] = x.values[f]
             PROVE  e.values[f] = x.values[f]
  BY DEF Between
<1>2. (f \in Read /\ d.values[f] = draft[f]) \/ d.values[f] = identity[Child][f]
  BY FreshValues
<1> QED BY <1>1, <1>2 DEF Follows, Drafted

(* ... and is itself known of the child. *)
LEMMA FreshIsPast ==
  ASSUME TypeOK, DraftInv, index <= Size, NEW d \in Described, Starts, NEW i, i = index
  PROVE  Past(i, d)'
<1>1. composite' = composite /\ identity' = identity /\ givenUp' = givenUp /\ Read' = {}
  BY DEF Starts, Read, children
<1>2. Child = composite.children[index] /\ Child \in Children \cup {Nil} /\ index \in 1..Size
  BY ChildType
<1> SUFFICES ASSUME d.invalid = "nothing"
             PROVE  /\ Child # Nil
                    /\ d.type = Type[Child]
                    /\ Steady(index) => \A f \in Fields : d.values[f] \in Had(Child, f)
  BY <1>1, <1>2 DEF Past, Steady, Had, Drafted
<1>3. /\ Child # Nil
      /\ d = [type |-> Type[Child], values |-> [draft EXCEPT !["config"] = identity[Child]["config"]],
              invalid |-> "nothing"]
  BY DescribedType
<1>4. ASSUME Steady(index), NEW f \in Fields PROVE d.values[f] \in Had(Child, f)
  <2>1. f \in Read => draft[f] \in Had(Child, f)
    BY <1>4 DEF DraftInv
  <2>2. (f \in Read /\ d.values[f] = draft[f]) \/ d.values[f] = identity[Child][f]
    BY FreshValues
  <2> QED BY <2>1, <2>2 DEF Had
<1> QED BY <1>3, <1>4
-----------------------------------------------------------------------------
(* The program points. *)

(* What is fixed with the composite. *)
LEMMA FixedWithComposite ==
  ASSUME composite' = composite
  PROVE  /\ Size' = Size
         /\ OrderIndependent' = OrderIndependent
         /\ RefusedUndescribed' = RefusedUndescribed
         /\ \A seq : CompositeVersion(seq)' = CompositeVersion(seq)
<1>1. Size' = Size /\ OrderIndependent' = OrderIndependent
  BY DEF Size, OrderIndependent
<1>2. RepeatsReference' = RepeatsReference
  BY <1>1 DEF RepeatsReference
<1>3. RefusedUndescribed' = RefusedUndescribed
  BY <1>1, <1>2 DEF RefusedUndescribed
<1> QED BY <1>1, <1>3 DEF CompositeVersion

(* The steps that only read a field, or change what children answer. *)
Quiet == UNCHANGED <<composite, pc, index, descriptors, result, outcomes, answer, before, after>>

LEMMA QuietSteps ==
  /\ ReadField => Quiet
  /\ \A child, f, value : Drift(child, f, value) => Quiet
  /\ UNCHANGED vars => Quiet
BY DEF Quiet, ReadField, Drift, vars, reading, answers

LEMMA PhaseQuiet == ASSUME PhaseInv, Quiet PROVE PhaseInv'
<1>1. composite' = composite
  BY DEF Quiet
<1>2. Passed' = Passed /\ (Enough' <=> Enough)
  BY <1>1 DEF Quiet, Passed, Enough
<1> QED BY <1>1, <1>2, FixedWithComposite DEF Quiet, PhaseInv

(* The answer is handed over. *)
LEMMA PhaseAnswer ==
  ASSUME TypeOK, PhaseInv, NEW valid \in BOOLEAN, Answer(valid), composite' = composite,
         outcomes' = outcomes, pc \in {"called", "validate", "evaluate"},
         valid => pc = "evaluate" /\ Len(outcomes) = Size /\ Enough
  PROVE  PhaseInv'
<1>1. pc' = "after" /\ answer' = valid /\ descriptors' = <<>>
  BY DEF Answer, LookAt
<1>2. Passed' = Passed /\ (Enough' <=> Enough)
  BY DEF Passed, Enough
<1>3. (pc = "evaluate" \/ outcomes # <<>>) => ~RefusedUndescribed
  BY DEF PhaseInv
<1> QED BY <1>1, <1>2, <1>3, FixedWithComposite DEF PhaseInv

(* A child has its outcome. *)
LEMMA PhaseOutcome ==
  ASSUME TypeOK, PhaseInv, index <= Size, pc \in {"evaluate", "recheck"}, NEW valid \in BOOLEAN,
         Outcome(valid), UNCHANGED <<composite, children>>
  PROVE  PhaseInv'
<1> DEFINE new == OutcomeOf(valid)
<1>1. outcomes' = Append(outcomes, new) /\ new.valid = valid
  BY DEF Outcome, OutcomeOf
<1> HIDE DEF new
<1>2. outcomes \in Seq([child : Children, descriptor : Descriptor,
                        valid : BOOLEAN, tainted : BOOLEAN])
  BY DEF TypeOK
<1>3. /\ Len(outcomes) = index - 1 /\ index \in 1..Size /\ Size \in Nat
  BY ChildType, CompositeShape DEF TypeOK
<1>4. /\ Len(outcomes') = index /\ outcomes' # <<>> /\ DOMAIN outcomes' = 1..index
      /\ outcomes'[index] = new
      /\ \A i \in 1..(index - 1) : outcomes'[i] = outcomes[i]
  BY <1>1, <1>2, <1>3
<1>5. /\ ~RefusedUndescribed /\ ~answer
      /\ composite.operator = "sequential-and" => \A i \in 1..(index - 1) : outcomes[i].valid
  BY <1>2, <1>3 DEF PhaseInv
<1>6. CASE /\ valid \/ OrderIndependent
           /\ LookAt("evaluate", index + 1) /\ UNCHANGED <<descriptors, answer>>
  <2>1. pc' = "evaluate" /\ answer' = answer
    BY <1>6 DEF LookAt
  <2>2. composite.operator = "sequential-and" => \A i \in 1..index : outcomes'[i].valid
    <3> SUFFICES ASSUME composite.operator = "sequential-and", NEW i \in 1..index
                 PROVE  outcomes'[i].valid
      OBVIOUS
    <3>1. CASE i = index
      BY <1>1, <1>4, <1>6, <3>1 DEF OrderIndependent
    <3>2. CASE i \in 1..(index - 1)
      BY <1>4, <1>5, <3>2
    <3> QED BY <1>3, <3>1, <3>2
  <2> QED BY <1>3, <1>4, <1>5, <2>1, <2>2, FixedWithComposite DEF PhaseInv
<1>7. CASE Answer(FALSE)
  <2>1. pc' = "after" /\ ~answer'
    BY <1>7 DEF Answer, LookAt
  <2>2. composite.operator = "sequential-and" =>
          \A i \in 1..index : i < index => outcomes'[i].valid
    BY <1>3, <1>4, <1>5
  <2> QED BY <1>3, <1>4, <1>5, <2>1, <2>2, FixedWithComposite DEF PhaseInv
<1> QED BY <1>6, <1>7 DEF Outcome

LEMMA PhaseMoves ==
  ASSUME TypeOK, PhaseInv, [Next]_vars
  PROVE  PhaseInv'
<1>0. /\ Size \in Nat /\ index \in 1..(Size + 1)
      /\ outcomes \in Seq([child : Children, descriptor : Descriptor,
                           valid : BOOLEAN, tainted : BOOLEAN])
  BY CompositeShape DEF TypeOK
<1>1. CASE DescribeForVersion
  <2>1. /\ UNCHANGED <<composite, pc, outcomes, answer>> /\ pc \in {"before", "after"}
    BY <1>1 DEF DescribeForVersion, LookAt, answers
  <2>2. Passed' = Passed /\ (Enough' <=> Enough)
    BY <2>1 DEF Passed, Enough
  <2> QED BY <2>1, <2>2, FixedWithComposite DEF PhaseInv
<1>2. CASE VersionBefore
  <2>1. /\ UNCHANGED <<composite, outcomes, answer>>
        /\ pc = "before" /\ pc' = "called" /\ descriptors' = <<>>
    BY <1>2 DEF VersionBefore, LookAt
  <2> QED BY <1>0, <2>1, FixedWithComposite DEF PhaseInv
<1>3. CASE VersionAfter
  <2>1. /\ UNCHANGED <<composite, outcomes, answer, descriptors>>
        /\ pc = "after" /\ pc' = "compare" /\ after' = CompositeVersion(descriptors)
        /\ index > Size
    BY <1>3 DEF VersionAfter, LookAt
  <2>2. Passed' = Passed /\ (Enough' <=> Enough)
    BY <2>1 DEF Passed, Enough
  <2>3. Len(descriptors) = Size
    BY <1>0, <2>1 DEF TypeOK
  <2>4. CompositeVersion(descriptors)' = CompositeVersion(descriptors)
    BY <2>1, FixedWithComposite DEF CompositeVersion
  <2> QED BY <2>1, <2>2, <2>3, <2>4, FixedWithComposite DEF PhaseInv
<1>4. CASE EvaluateBegins
  <2>1. UNCHANGED <<composite, outcomes>> /\ pc = "called"
    BY <1>4 DEF EvaluateBegins
  <2>2. CASE Answer(FALSE)
    BY <2>1, <2>2, PhaseAnswer
  <2>3. CASE /\ ~RefusedUndescribed /\ LookAt("validate", 1) /\ UNCHANGED <<descriptors, answer>>
    <3>1. pc' = "validate" /\ UNCHANGED <<descriptors, answer>>
      BY <2>3 DEF LookAt
    <3> QED BY <1>0, <2>1, <2>3, <3>1, FixedWithComposite DEF PhaseInv
  <2> QED BY <1>4, <2>2, <2>3 DEF EvaluateBegins
<1>5. CASE ValidateChild
  <2>1. UNCHANGED <<composite, outcomes>> /\ pc = "validate"
    BY <1>5 DEF ValidateChild
  <2>2. CASE Answer(FALSE)
    BY <2>1, <2>2, PhaseAnswer
  <2>3. CASE LookAt(pc, index + 1) /\ UNCHANGED answer
    <3>1. pc' = "validate"
      BY <2>1, <2>3 DEF LookAt
    <3> QED BY <1>0, <2>1, <2>3, <3>1, FixedWithComposite DEF PhaseInv
  <2> QED BY <1>5, <2>2, <2>3 DEF ValidateChild
<1>6. CASE ValidationEnds
  <2>1. UNCHANGED <<composite, outcomes>> /\ pc = "validate"
    BY <1>6 DEF ValidationEnds
  <2>2. CASE Answer(FALSE)
    BY <2>1, <2>2, PhaseAnswer
  <2>3. CASE LookAt("evaluate", 1) /\ UNCHANGED <<descriptors, answer>>
    <3>1. pc' = "evaluate"
      BY <2>3 DEF LookAt
    <3> QED BY <1>0, <2>1, <2>3, <3>1, FixedWithComposite DEF PhaseInv
  <2> QED BY <1>6, <2>2, <2>3 DEF ValidationEnds
<1>7. CASE EvaluateChildFails
  BY <1>7, PhaseOutcome DEF EvaluateChildFails
<1>8. ASSUME NEW valid \in BOOLEAN, EvaluateChild(valid) PROVE PhaseInv'
  <2>1. /\ UNCHANGED <<composite, outcomes, answer, descriptors>>
        /\ pc = "evaluate" /\ pc' = "recheck"
    BY <1>8 DEF EvaluateChild, LookAt, answers
  <2> QED BY <2>1, FixedWithComposite DEF PhaseInv
<1>9. CASE RecheckChild
  <2>1. PICK d \in Described : Outcome(SameDescriptor(d) /\ result.valid)
    BY <1>9 DEF RecheckChild
  <2>2. (SameDescriptor(d) /\ result.valid) \in BOOLEAN
    OBVIOUS
  <2>3. /\ UNCHANGED <<composite, children>>
        /\ pc = "recheck" /\ index <= Size
    BY <1>9 DEF RecheckChild, TypeOK
  <2> QED BY <2>1, <2>2, <2>3, PhaseOutcome
<1>10. CASE Tally
  <2>1. Enough \in BOOLEAN
    <3>1. CASE composite.operator = "threshold"
      BY <3>1 DEF Enough
    <3>2. CASE composite.operator # "threshold"
      BY <3>2 DEF Enough
    <3> QED BY <3>1, <3>2
  <2>2. Answer(Enough) /\ UNCHANGED <<composite, outcomes>> /\ pc = "evaluate" /\ index > Size
    BY <1>10 DEF Tally
  <2>3. Len(outcomes) = Size
    BY <1>0, <2>2 DEF TypeOK
  <2> QED BY <2>1, <2>2, <2>3, PhaseAnswer
<1>11. CASE UseAgain
  <2>1. composite' = composite /\ outcomes' = <<>> /\ pc' = "before" /\ answer' = FALSE
    BY <1>11 DEF UseAgain, LookAt
  <2> QED BY <1>0, <2>1, FixedWithComposite DEF PhaseInv
<1>12. CASE ReadField
  BY <1>12, QuietSteps, PhaseQuiet
<1>13. ASSUME NEW child \in Children, NEW f \in Fields, NEW value \in 0..MaxDrift[child][f],
              Drift(child, f, value)
       PROVE  PhaseInv'
  BY <1>13, QuietSteps, PhaseQuiet
<1>14. CASE UNCHANGED vars
  BY <1>14, QuietSteps, PhaseQuiet
<1> QED BY <1>1, <1>2, <1>3, <1>4, <1>5, <1>6, <1>7, <1>8, <1>9, <1>10, <1>11, <1>12, <1>13, <1>14
        DEF Next
-----------------------------------------------------------------------------
(* The descriptors. *)

LEMMA DescriptorsEmpty ==
  ASSUME descriptors' = <<>>, pc' \notin {"evaluate", "recheck"}
  PROVE  DescriptorInv'
<1>1. DOMAIN descriptors' = {}
  OBVIOUS
<1> QED BY <1>1 DEF DescriptorInv

LEMMA DescriptorsStay ==
  ASSUME TypeOK, PhaseInv, DraftInv, DescriptorInv, Moves, descriptors' = descriptors,
         Validated' => Validated,
         pc' \in {"evaluate", "recheck"} => ~DuplicateIdentity
  PROVE  DescriptorInv'
<1>1. composite' = composite /\ Size' = Size /\ \A i : Steady(i)' <=> Steady(i)
  BY MovesKeepComposite
<1>2. ASSUME NEW i \in DOMAIN descriptors' PROVE Past(i, descriptors[i])'
  <2>1. i \in 1..Size /\ descriptors[i] \in Descriptor /\ i \in DOMAIN descriptors
    BY DescriptorsFit, CompositeShape DEF TypeOK
  <2>2. Past(i, descriptors[i])
    BY <2>1 DEF DescriptorInv
  <2> DEFINE d == descriptors[i]
  <2>3. d \in Descriptor /\ Past(i, d)
    BY <2>1, <2>2
  <2>4. descriptors'[i] = d
    OBVIOUS
  <2> HIDE DEF d
  <2>5. ASSUME NEW e \in Descriptor, Past(i, e) PROVE Past(i, e)'
    BY <2>1, <2>5, PastStays
  <2> QED BY <2>3, <2>4, <2>5
<1>3. DuplicateIdentity' <=> DuplicateIdentity
  BY <1>1 DEF DuplicateIdentity
<1>4. ASSUME Validated', NEW i \in DOMAIN descriptors', NEW j \in DOMAIN descriptors', i < j,
             SameSteady(i, j)'
      PROVE  Follows(i, descriptors[i], descriptors[j])'
  <2>1. /\ i \in 1..Size /\ i \in DOMAIN descriptors /\ j \in DOMAIN descriptors
        /\ descriptors[i] \in Descriptor /\ descriptors[j] \in Descriptor
    BY DescriptorsFit, CompositeShape DEF TypeOK
  <2>2. SameSteady(i, j) /\ Validated
    BY <1>1, <1>4 DEF SameSteady
  <2>3. Past(i, descriptors[i]) /\ Follows(i, descriptors[i], descriptors[j])
    BY <1>4, <2>1, <2>2 DEF DescriptorInv
  <2> DEFINE d == descriptors[i]
             e == descriptors[j]
  <2>4. d \in Descriptor /\ e \in Descriptor /\ Past(i, d) /\ Follows(i, d, e)
    BY <2>1, <2>3
  <2>5. descriptors'[i] = d /\ descriptors'[j] = e
    OBVIOUS
  <2> HIDE DEF d, e
  <2>6. ASSUME NEW x \in Descriptor, NEW y \in Descriptor, Past(i, x), Follows(i, x, y)
        PROVE  Follows(i, x, y)'
    BY <2>1, <2>6, FollowsStays
  <2> QED BY <2>4, <2>5, <2>6
<1> QED BY <1>1, <1>2, <1>3, <1>4 DEF DescriptorInv

(* One more child is described. *)
LEMMA DescriptorsAdd ==
  ASSUME TypeOK, PhaseInv, DraftInv, DescriptorInv, index <= Size,
         pc \in {"before", "validate", "after"},
         NEW d \in Described, pc = "validate" => d.invalid = "nothing",
         descriptors' = Append(descriptors, d), LookAt(pc, index + 1),
         UNCHANGED <<composite, children>>
  PROVE  DescriptorInv'
<1>0. Starts /\ Moves /\ pc' = pc
  BY DEF LookAt, Starts, Moves
<1>1. composite' = composite /\ Size' = Size /\ \A i : Steady(i)' <=> Steady(i)
  BY <1>0, MovesKeepComposite
<1>2. d \in Descriptor /\ index \in 1..Size /\ Size \in Nat /\ Len(descriptors) = index - 1
  BY DescribedType, ChildType, CompositeShape DEF TypeOK
<1>3. /\ DOMAIN descriptors' = 1..index /\ descriptors'[index] = d
      /\ \A i \in 1..(index - 1) :
           /\ descriptors'[i] = descriptors[i] /\ i \in DOMAIN descriptors
           /\ descriptors[i] \in Descriptor /\ i \in 1..Size
  BY <1>2 DEF TypeOK
<1>4. ASSUME NEW i \in 1..index PROVE Past(i, descriptors[i])'
  <2>1. CASE i = index
    BY <1>0, <1>3, <2>1, FreshIsPast
  <2>2. CASE i \in 1..(index - 1)
    <3>1. Past(i, descriptors[i]) /\ descriptors[i] \in Descriptor /\ i \in 1..Size
      BY <1>3, <2>2 DEF DescriptorInv
    <3>2. ASSUME NEW e \in Descriptor, Past(i, e) PROVE Past(i, e)'
      BY <1>0, <3>1, <3>2, PastStays
    <3>3. descriptors'[i] = descriptors[i]
      BY <1>3, <2>2
    <3> QED BY <3>1, <3>2, <3>3
  <2> QED BY <1>2, <2>1, <2>2
<1>5. CASE pc # "validate"
  BY <1>0, <1>3, <1>4, <1>5 DEF DescriptorInv, Validated
<1>6. CASE pc = "validate"
  <2>1. \A i \in 1..index : descriptors'[i].invalid = "nothing"
    BY <1>2, <1>3, <1>6 DEF DescriptorInv, Validated
  <2>2. ASSUME NEW i \in 1..index, NEW j \in 1..index, i < j, SameSteady(i, j)
        PROVE  Follows(i, descriptors[i], descriptors[j])'
    <3>1. /\ i \in 1..(index - 1) /\ i \in 1..Size /\ i \in DOMAIN descriptors
          /\ Past(i, descriptors[i])
          /\ descriptors'[i] = descriptors[i] /\ descriptors[i] \in Descriptor
      BY <1>2, <1>3, <2>2 DEF DescriptorInv
    <3> DEFINE x == descriptors[i]
    <3>2. x \in Descriptor /\ Past(i, x) /\ descriptors'[i] = x
      BY <3>1
    <3>3. CASE j = index
      <4>1. SameSteady(i, index) /\ descriptors'[j] = d
        BY <1>3, <2>2, <3>3
      <4> HIDE DEF x
      <4>2. ASSUME NEW e \in Descriptor, Past(i, e) PROVE Follows(i, e, d)'
        BY <1>0, <3>1, <4>1, <4>2, FreshFollows
      <4> QED BY <3>2, <4>1, <4>2
    <3>4. CASE j \in 1..(index - 1)
      <4> DEFINE y == descriptors[j]
      <4>1. y \in Descriptor /\ descriptors'[j] = y /\ j \in DOMAIN descriptors
        BY <1>3, <3>4
      <4>2. Follows(i, x, y)
        BY <1>6, <2>2, <3>1, <4>1 DEF DescriptorInv, Validated
      <4> HIDE DEF x, y
      <4>3. ASSUME NEW e \in Descriptor, NEW g \in Descriptor, Past(i, e), Follows(i, e, g)
            PROVE  Follows(i, e, g)'
        BY <1>0, <3>1, <4>3, FollowsStays
      <4> QED BY <3>2, <4>1, <4>2, <4>3
    <3> QED BY <1>2, <3>3, <3>4
  <2>3. ASSUME NEW i \in DOMAIN descriptors', NEW j \in DOMAIN descriptors', i < j,
               SameSteady(i, j)'
        PROVE  Follows(i, descriptors[i], descriptors[j])'
    BY <1>1, <1>3, <2>2, <2>3 DEF SameSteady
  <2>4. pc' = "validate"
    BY <1>0, <1>6
  <2> QED BY <1>3, <1>4, <2>1, <2>3, <2>4 DEF DescriptorInv, Validated
<1> QED BY <1>5, <1>6

LEMMA DescriptorsMove ==
  ASSUME TypeOK, PhaseInv, DraftInv, DescriptorInv, [Next]_vars
  PROVE  DescriptorInv'
<1>0. Moves
  BY StepMoves
<1>1. CASE DescribeForVersion
  <2>1. PICK d \in Described : descriptors' = Append(descriptors, d)
    BY <1>1 DEF DescribeForVersion
  <2>2. /\ pc \in {"before", "after"} /\ index <= Size /\ LookAt(pc, index + 1)
        /\ UNCHANGED <<composite, children>>
    BY <1>1 DEF DescribeForVersion
  <2> QED BY <2>1, <2>2, DescriptorsAdd
<1>2. CASE VersionBefore
  BY <1>2, DescriptorsEmpty DEF VersionBefore, LookAt
<1>3. CASE VersionAfter
  <2>1. descriptors' = descriptors /\ pc' = "compare"
    BY <1>3 DEF VersionAfter, LookAt
  <2> QED BY <1>0, <2>1, DescriptorsStay DEF Validated
<1>4. CASE EvaluateBegins
  <2>1. descriptors' = <<>> /\ pc' \notin {"evaluate", "recheck"}
    BY <1>4 DEF EvaluateBegins, Answer, LookAt, PhaseInv
  <2> QED BY <2>1, DescriptorsEmpty
<1>5. CASE ValidateChild
  <2>1. PICK d \in Described :
          \/ Answer(FALSE)
          \/ /\ d.invalid = "nothing"
             /\ descriptors' = Append(descriptors, d)
             /\ LookAt(pc, index + 1)
    BY <1>5 DEF ValidateChild
  <2>2. pc = "validate" /\ index <= Size /\ UNCHANGED <<composite, children>>
    BY <1>5 DEF ValidateChild
  <2>3. CASE Answer(FALSE)
    BY <2>3, DescriptorsEmpty DEF Answer, LookAt
  <2>4. CASE /\ d.invalid = "nothing"
             /\ descriptors' = Append(descriptors, d)
             /\ LookAt(pc, index + 1)
    BY <2>2, <2>4, DescriptorsAdd
  <2> QED BY <2>1, <2>3, <2>4
<1>6. CASE ValidationEnds
  <2>1. CASE Answer(FALSE)
    BY <2>1, DescriptorsEmpty DEF Answer, LookAt
  <2>2. CASE ~DuplicateIdentity /\ LookAt("evaluate", 1) /\ descriptors' = descriptors
    <3>1. Validated
      BY <1>6 DEF ValidationEnds, Validated
    <3> QED BY <1>0, <2>2, <3>1, DescriptorsStay
  <2> QED BY <1>6, <2>1, <2>2 DEF ValidationEnds
<1>7. ASSUME NEW valid, Outcome(valid), pc \in {"evaluate", "recheck"} PROVE DescriptorInv'
  <2>1. CASE Answer(FALSE)
    BY <2>1, DescriptorsEmpty DEF Answer, LookAt
  <2>2. CASE descriptors' = descriptors
    <3>1. Validated /\ ~DuplicateIdentity
      BY <1>7 DEF Validated, DescriptorInv
    <3> QED BY <1>0, <2>2, <3>1, DescriptorsStay
  <2> QED BY <1>7, <2>1, <2>2 DEF Outcome
<1>8. CASE EvaluateChildFails \/ RecheckChild
  BY <1>7, <1>8 DEF EvaluateChildFails, RecheckChild
<1>9. ASSUME NEW valid \in BOOLEAN, EvaluateChild(valid) PROVE DescriptorInv'
  <2>1. descriptors' = descriptors /\ pc = "evaluate"
    BY <1>9 DEF EvaluateChild
  <2>2. Validated /\ ~DuplicateIdentity
    BY <2>1 DEF Validated, DescriptorInv
  <2> QED BY <1>0, <2>1, <2>2, DescriptorsStay
<1>10. CASE Tally
  BY <1>10, DescriptorsEmpty DEF Tally, Answer, LookAt
<1>11. CASE UseAgain
  BY <1>11, DescriptorsEmpty DEF UseAgain, LookAt
<1>12. CASE Quiet
  <2>1. descriptors' = descriptors /\ pc' = pc
    BY <1>12 DEF Quiet
  <2>2. pc \in {"evaluate", "recheck"} => ~DuplicateIdentity
    BY DEF DescriptorInv
  <2> QED BY <1>0, <2>1, <2>2, DescriptorsStay DEF Validated
<1> QED BY <1>1, <1>2, <1>3, <1>4, <1>5, <1>6, <1>8, <1>9, <1>10, <1>11, <1>12, QuietSteps DEF Next
-----------------------------------------------------------------------------
(* The taint of a result. *)

LEMMA TaintMoves ==
  ASSUME TypeOK, PhaseInv, DescriptorInv, TaintInv, [Next]_vars
  PROVE  TaintInv'
<1> SUFFICES ASSUME pc' = "recheck", result'.tainted, Steady(index)'
             PROVE  \E f \in Fields : /\ descriptors'[index'].values[f] # identity'[Child'][f]
                                      /\ f \in Read' => descriptors'[index'].values[f] # draft'[f]
  BY DEF TaintInv
<1>0. identity \in [Children -> [Fields -> Nat]]
  BY DEF TypeOK
<1>1. ASSUME NEW valid \in BOOLEAN, EvaluateChild(valid)
      PROVE  \E f \in Fields : /\ descriptors'[index'].values[f] # identity'[Child'][f]
                               /\ f \in Read' => descriptors'[index'].values[f] # draft'[f]
  <2>1. /\ pc = "evaluate" /\ index <= Size /\ index' = index /\ field' = "name"
        /\ UNCHANGED <<composite, identity, descriptors>>
        /\ result'.tainted = (identity[Child] # descriptors[index].values)
    BY <1>1 DEF EvaluateChild, LookAt, children
  <2>2. Child' = Child /\ Read' = {} /\ Steady(index)
    BY <2>1 DEF Child, Read, Steady
  <2>3. descriptors[index] \in Descriptor
    BY <2>1, ChildType DEF TypeOK
  <2> DEFINE d == descriptors[index]
             now == identity[Child]
  <2>4. now \in [Fields -> Nat] /\ d.values \in [Fields -> Nat]
    BY <1>0, <2>2, <2>3 DEF Descriptor, Steady, Child
  <2>5. now # d.values
    BY <2>1
  <2>6. descriptors'[index'] = d /\ identity'[Child'] = now
    BY <2>1, <2>2
  <2> HIDE DEF d, now
  <2>7. PICK f \in Fields : now[f] # d.values[f]
    BY <2>4, <2>5
  <2> QED BY <2>2, <2>6, <2>7
<1>2. CASE Quiet /\ (Grows \/ ReadField)
  <2>1. /\ pc = "recheck" /\ result.tainted /\ UNCHANGED <<composite, index, descriptors>>
        /\ index <= Size
    BY <1>2 DEF Quiet, TypeOK
  <2>2. Child' = Child /\ Steady(index) /\ Child \in Children \ Fickle /\ index \in 1..Size
    BY <2>1, ChildType DEF Child, Steady
  <2>3. PICK f \in Fields : /\ descriptors[index].values[f] # identity[Child][f]
                            /\ f \in Read => descriptors[index].values[f] # draft[f]
    BY <2>1, <2>2 DEF TaintInv
  <2>4. index \in DOMAIN descriptors
    BY <2>1, <2>2 DEF TypeOK
  <2>5. descriptors[index].values[f] \in Had(Child, f)
    BY <2>1, <2>2, <2>4 DEF DescriptorInv, Validated, Past, Child
  <2> DEFINE v == descriptors[index].values[f]
             child == Child
  <2>6. /\ v \in Had(child, f) /\ child \in Children \ Fickle /\ v # identity[child][f]
        /\ f \in Read => v # draft[f]
        /\ descriptors'[index'].values[f] = v /\ Child' = child
    BY <2>1, <2>2, <2>3, <2>5
  <2>7. f \in Read' => (f \in Read /\ draft'[f] = draft[f]) \/ draft'[f] = identity[child][f]
    <3>1. PICK i : i = index
      OBVIOUS
    <3>2. f \in Read' => Drafted(i, f)'
      BY <2>1, <3>1 DEF Drafted, Child, Size
    <3>3. Drafted(i, f)' => \/ Drafted(i, f) /\ draft'[f] = draft[f]
                            \/ draft'[f] = identity[composite.children[i]][f]
      BY StepMoves, DraftMoves
    <3> QED BY <3>1, <3>2, <3>3 DEF Drafted, Child
  <2> HIDE DEF v, child
  <2>8. v # identity'[child][f]
    BY <2>6, StepMoves, HadStays
  <2> QED BY <2>6, <2>7, <2>8
<1>3. \/ \E valid \in BOOLEAN : EvaluateChild(valid)
      \/ Quiet /\ (Grows \/ ReadField)
  <2>1. CASE DescribeForVersion \/ VersionBefore \/ VersionAfter \/ EvaluateBegins
    BY <2>1 DEF DescribeForVersion, VersionBefore, VersionAfter, EvaluateBegins, Answer, LookAt
  <2>2. CASE ValidateChild \/ ValidationEnds \/ Tally \/ UseAgain
    BY <2>2 DEF ValidateChild, ValidationEnds, Tally, UseAgain, Answer, LookAt
  <2>3. CASE EvaluateChildFails \/ RecheckChild
    BY <2>3 DEF EvaluateChildFails, RecheckChild, Outcome, Answer, LookAt
  <2>4. CASE UNCHANGED vars
    BY <2>4, QuietSteps, StillGrows DEF vars
  <2> QED BY <2>1, <2>2, <2>3, <2>4, QuietSteps, DriftGrows DEF Next
<1> QED BY <1>1, <1>2, <1>3
-----------------------------------------------------------------------------
(* The outcomes. *)

LEMMA OutcomesFit ==
  ASSUME TypeOK, PhaseInv, NEW i \in DOMAIN outcomes
  PROVE  /\ i \in 1..Size /\ i \in 1..Len(outcomes)
         /\ outcomes[i].descriptor \in Descriptor
         /\ outcomes[i].valid \in BOOLEAN
         /\ pc \in {"evaluate", "recheck"} => i \in DOMAIN descriptors
<1>1. /\ outcomes \in Seq([child : Children, descriptor : Descriptor,
                           valid : BOOLEAN, tainted : BOOLEAN])
      /\ descriptors \in Seq(Descriptor) /\ Size \in Nat /\ Len(outcomes) <= Size
  BY CompositeShape DEF TypeOK, PhaseInv
<1>2. /\ i \in 1..Size /\ i \in 1..Len(outcomes)
      /\ outcomes[i] \in [child : Children, descriptor : Descriptor,
                          valid : BOOLEAN, tainted : BOOLEAN]
  <2> DEFINE records == [child : Children, descriptor : Descriptor,
                         valid : BOOLEAN, tainted : BOOLEAN]
  <2>1. outcomes \in Seq(records) /\ Size \in Nat /\ Len(outcomes) <= Size
    BY <1>1
  <2> HIDE DEF records
  <2>2. DOMAIN outcomes = 1..Len(outcomes) /\ Len(outcomes) \in Nat
    BY <2>1
  <2>3. i \in 1..Size /\ i \in 1..Len(outcomes) /\ outcomes[i] \in records
    BY <2>1, <2>2
  <2> QED BY <2>3 DEF records
<1>3. pc \in {"evaluate", "recheck"} => Len(descriptors) = Size
  BY DEF TypeOK
<1> QED BY <1>1, <1>2, <1>3

LEMMA OutcomesEmpty == ASSUME outcomes' = <<>> PROVE OutcomeInv'
<1>1. DOMAIN outcomes' = {}
  OBVIOUS
<1> QED BY <1>1 DEF OutcomeInv

LEMMA OutcomesStay ==
  ASSUME TypeOK, PhaseInv, DraftInv, OutcomeInv, Moves, outcomes' = outcomes,
         pc' \in {"evaluate", "recheck"} =>
           pc \in {"evaluate", "recheck"} /\ descriptors' = descriptors
  PROVE  OutcomeInv'
<1>1. composite' = composite /\ Size' = Size /\ \A i : Steady(i)' <=> Steady(i)
  BY MovesKeepComposite
<1>2. ASSUME NEW i \in DOMAIN outcomes PROVE Past(i, outcomes[i].descriptor)'
  <2>1. i \in 1..Size /\ outcomes[i].descriptor \in Descriptor /\ Past(i, outcomes[i].descriptor)
    BY OutcomesFit DEF OutcomeInv
  <2>2. ASSUME NEW e \in Descriptor, Past(i, e) PROVE Past(i, e)'
    BY <2>1, <2>2, PastStays
  <2> QED BY <2>1, <2>2
<1> QED BY <1>1, <1>2 DEF OutcomeInv

(* A child that passed, and does not go back, has none of its descriptors   *)
(* after the one it passed under: a threshold would have refused it.        *)
LEMMA PassedOnce ==
  ASSUME TypeOK, PhaseInv, DescriptorInv, pc = "recheck", NEW d \in Described,
         SameDescriptor(d), composite.operator = "threshold", Steady(index),
         NEW j \in 1..Size, index < j
  PROVE  composite.children[j] # Child
<1> SUFFICES ASSUME composite.children[j] = Child PROVE FALSE
  OBVIOUS
<1>1. /\ index \in 1..Size /\ index <= Size /\ Size \in Nat
      /\ Child = composite.children[index] /\ d = descriptors[index]
  BY ChildType, CompositeShape DEF TypeOK, SameDescriptor
<1>2. DOMAIN descriptors = 1..Size
  BY <1>1 DEF TypeOK
<1> DEFINE e == descriptors[j]
<1>3. d \in Descriptor /\ e \in Descriptor
  BY <1>1, <1>2, DescriptorsFit
<1>4. d.invalid = "nothing" /\ e.invalid = "nothing" /\ Past(j, e) /\ Past(index, d)
  BY <1>1, <1>2 DEF DescriptorInv, Validated
<1>5. SameSteady(index, j) /\ SameSteady(index, index)
  BY <1>1 DEF SameSteady
<1>6. Follows(index, d, e)
  BY <1>1, <1>2, <1>5 DEF DescriptorInv, Validated
<1>7. IdentityOf(d) # IdentityOf(e)
  BY <1>1 DEF DescriptorInv, DuplicateIdentity
<1>8. d.type = e.type
  BY <1>1, <1>4 DEF Past
<1> HIDE DEF e
<1>9. Between(d, e, d)
  BY <1>1, <1>3, <1>5, <1>6, FreshConfirms
<1>10. d.values = e.values
  <2>1. d.values \in [Fields -> Nat] /\ e.values \in [Fields -> Nat]
    BY <1>3 DEF Descriptor
  <2>2. \A f \in Fields : d.values[f] = e.values[f]
    BY <1>4, <1>9 DEF Between
  <2> QED BY <2>1, <2>2
<1> QED BY <1>4, <1>7, <1>8, <1>10 DEF IdentityOf

LEMMA OutcomesAdd ==
  ASSUME TypeOK, PhaseInv, DraftInv, DescriptorInv, OutcomeInv, index <= Size,
         pc \in {"evaluate", "recheck"}, NEW valid \in BOOLEAN, Outcome(valid),
         UNCHANGED <<composite, children>>,
         (valid /\ Steady(index)) =>
           /\ ~result.tainted
           /\ composite.operator = "threshold" =>
                \A j \in 1..Size : index < j => composite.children[j] # Child
  PROVE  OutcomeInv'
<1> DEFINE new == OutcomeOf(valid)
<1>0. Starts /\ Moves
  BY OutcomeStarts DEF Moves
<1>1. composite' = composite /\ Size' = Size /\ \A i : Steady(i)' <=> Steady(i)
  BY <1>0, MovesKeepComposite
<1>2. /\ outcomes' = Append(outcomes, new)
      /\ new.child = Child /\ new.descriptor = descriptors[index] /\ new.valid = valid
      /\ new.tainted = result.tainted
  BY DEF Outcome, OutcomeOf
<1> HIDE DEF new
<1>3. /\ index \in 1..Size /\ Size \in Nat /\ Child = composite.children[index]
      /\ Len(outcomes) = index - 1 /\ Len(descriptors) = Size
      /\ DOMAIN descriptors = 1..Size
  BY ChildType, CompositeShape DEF TypeOK
<1>4. /\ DOMAIN outcomes' = 1..index /\ outcomes'[index] = new
      /\ \A i \in 1..(index - 1) : outcomes'[i] = outcomes[i] /\ i \in DOMAIN outcomes
  BY <1>2, <1>3 DEF TypeOK
<1>5. pc' \in {"evaluate", "recheck"} => descriptors' = descriptors
  BY DEF Outcome, Answer, LookAt
<1>6. \A i \in 1..index : outcomes'[i].descriptor = descriptors[i]
  BY <1>2, <1>3, <1>4 DEF OutcomeInv
<1>7. \A i \in 1..Size : descriptors[i].invalid = "nothing" /\ descriptors[i] \in Descriptor
                         /\ Past(i, descriptors[i])
  BY <1>3, DescriptorsFit DEF DescriptorInv, Validated
<1>8. ASSUME NEW i \in 1..index PROVE Past(i, outcomes[i].descriptor)'
  <2>1. i \in 1..Size
    BY <1>3
  <2>2. ASSUME NEW e \in Descriptor, Past(i, e) PROVE Past(i, e)'
    BY <1>0, <2>1, <2>2, PastStays
  <2> QED BY <1>6, <1>7, <2>1, <2>2
<1>9. ASSUME NEW i \in 1..index
      PROVE  /\ outcomes'[i].child = composite.children[i]
             /\ (outcomes'[i].valid /\ Steady(i)) => ~outcomes'[i].tainted
  <2>1. CASE i = index
    BY <1>2, <1>3, <1>4, <2>1
  <2>2. CASE i \in 1..(index - 1)
    BY <1>4, <2>2 DEF OutcomeInv
  <2> QED BY <1>3, <2>1, <2>2
<1>10. ASSUME composite.operator = "threshold", NEW i \in 1..index
       PROVE  /\ \A j \in 1..index :
                   i < j => IdentityOf(outcomes'[i].descriptor) # IdentityOf(outcomes'[j].descriptor)
              /\ (outcomes'[i].valid /\ Steady(i)) =>
                   \A j \in 1..Size : i < j => composite.children[j] # composite.children[i]
  <2>1. ASSUME NEW j \in 1..index, i < j
        PROVE  IdentityOf(outcomes'[i].descriptor) # IdentityOf(outcomes'[j].descriptor)
    <3>1. ~DuplicateIdentity /\ i \in 1..Size /\ j \in 1..Size
      BY <1>3 DEF DescriptorInv
    <3>2. IdentityOf(descriptors[i]) # IdentityOf(descriptors[j])
      BY <1>10, <2>1, <3>1 DEF DuplicateIdentity
    <3> QED BY <1>6, <3>2
  <2>2. CASE i = index
    BY <1>2, <1>3, <1>4, <1>10, <2>1, <2>2
  <2>3. CASE i \in 1..(index - 1)
    BY <1>4, <1>10, <2>1, <2>3 DEF OutcomeInv
  <2> QED BY <1>3, <2>1, <2>2, <2>3
<1> QED BY <1>1, <1>4, <1>5, <1>6, <1>7, <1>8, <1>9, <1>10, <1>3 DEF OutcomeInv

LEMMA OutcomesMove ==
  ASSUME TypeOK, PhaseInv, DraftInv, DescriptorInv, TaintInv, OutcomeInv, [Next]_vars
  PROVE  OutcomeInv'
<1>0. Moves
  BY StepMoves
<1>1. CASE DescribeForVersion \/ VersionBefore \/ VersionAfter
  <2>1. outcomes' = outcomes /\ pc' \notin {"evaluate", "recheck"}
    BY <1>1 DEF DescribeForVersion, VersionBefore, VersionAfter, LookAt
  <2> QED BY <1>0, <2>1, OutcomesStay
<1>2. CASE EvaluateBegins \/ ValidateChild \/ ValidationEnds
  <2>1. outcomes' = <<>>
    BY <1>2 DEF EvaluateBegins, ValidateChild, ValidationEnds, PhaseInv
  <2> QED BY <2>1, OutcomesEmpty
<1>3. CASE EvaluateChildFails
  BY <1>3, OutcomesAdd DEF EvaluateChildFails
<1>4. ASSUME NEW valid \in BOOLEAN, EvaluateChild(valid) PROVE OutcomeInv'
  <2>1. outcomes' = outcomes /\ descriptors' = descriptors /\ pc = "evaluate"
    BY <1>4 DEF EvaluateChild
  <2> QED BY <1>0, <2>1, OutcomesStay
<1>5. CASE RecheckChild
  <2>1. PICK d \in Described : Outcome(SameDescriptor(d) /\ result.valid)
    BY <1>5 DEF RecheckChild
  <2> DEFINE valid == SameDescriptor(d) /\ result.valid
  <2>2. valid \in BOOLEAN
    OBVIOUS
  <2>3. /\ UNCHANGED <<composite, children>>
        /\ pc = "recheck" /\ index <= Size
    BY <1>5 DEF RecheckChild, TypeOK
  <2>4. ASSUME valid, Steady(index), result.tainted PROVE FALSE
    <3>1. PICK f \in Fields : /\ descriptors[index].values[f] # identity[Child][f]
                              /\ f \in Read => descriptors[index].values[f] # draft[f]
      BY <2>3, <2>4 DEF TaintInv
    <3>2. d = descriptors[index] /\ index \in 1..Size
      BY <2>3, <2>4, ChildType DEF SameDescriptor
    <3>3. d.invalid = "nothing" /\ d \in Descriptor
      BY <2>3, <3>2, DescriptorsFit DEF DescriptorInv, Validated, TypeOK
    <3>4. (f \in Read /\ d.values[f] = draft[f]) \/ d.values[f] = identity[Child][f]
      BY <2>3, <3>3, FreshValues
    <3> QED BY <3>1, <3>2, <3>4
  <2>5. ASSUME valid, Steady(index), composite.operator = "threshold", NEW j \in 1..Size, index < j
        PROVE  composite.children[j] # Child
    BY <2>3, <2>5, PassedOnce
  <2> HIDE DEF valid
  <2>6. Outcome(valid)
    BY <2>1 DEF valid
  <2> QED BY <2>2, <2>3, <2>4, <2>5, <2>6, OutcomesAdd
<1>6. CASE Tally
  <2>1. outcomes' = outcomes /\ pc' = "after"
    BY <1>6 DEF Tally, Answer, LookAt
  <2> QED BY <1>0, <2>1, OutcomesStay
<1>7. CASE UseAgain
  BY <1>7, OutcomesEmpty DEF UseAgain
<1>8. CASE Quiet
  BY <1>0, <1>8, OutcomesStay DEF Quiet
<1> QED BY <1>1, <1>2, <1>3, <1>4, <1>5, <1>6, <1>7, <1>8, QuietSteps DEF Next
-----------------------------------------------------------------------------
(* The versions. *)

(* What holds of seq and the lists after a step. *)
Ordered(seq) ==
  /\ \A i, j \in 1..Size :
       SameSteady(i, j) =>
         /\ j \in DOMAIN descriptors' => Follows(i, seq[i], descriptors[j])'
         /\ j \in DOMAIN outcomes' => Follows(i, seq[i], outcomes[j].descriptor)'
  /\ pc' \in {"after", "compare"} =>
       \A i, j, k \in 1..Size :
         (SameSteady(i, j) /\ SameSteady(i, k) /\ j \in DOMAIN outcomes' /\ k \in DOMAIN descriptors')
           => Between(seq[i], outcomes'[j].descriptor, descriptors'[k])

LEMMA PrecedesStays ==
  ASSUME TypeOK, Moves, before' = before,
         NEW seq \in [1..Size -> Descriptor], Precedes(seq), Ordered(seq)
  PROVE  BeforeInv'
<1>1. /\ composite' = composite /\ Size' = Size
      /\ \A i, j : SameSteady(i, j)' <=> SameSteady(i, j)
  BY MovesKeepComposite DEF SameSteady
<1>2. before' = CompositeVersion(seq)'
  BY <1>1, FixedWithComposite DEF Precedes
<1>3. ASSUME NEW i \in 1..Size PROVE Past(i, seq[i])'
  BY <1>3, PastStays DEF Precedes
<1>4. ASSUME NEW i \in 1..Size, NEW j \in 1..Size, SameSteady(i, j)'
      PROVE  /\ j \in DOMAIN descriptors' => Follows(i, seq[i], descriptors[j])'
             /\ j \in DOMAIN outcomes' => Follows(i, seq[i], outcomes[j].descriptor)'
  BY <1>1, <1>4 DEF Ordered
<1>5. ASSUME pc' \in {"after", "compare"}, NEW i \in 1..Size, NEW j \in 1..Size, NEW k \in 1..Size,
             SameSteady(i, j)', SameSteady(i, k)', j \in DOMAIN outcomes', k \in DOMAIN descriptors'
      PROVE  Between(seq[i], outcomes[j].descriptor, descriptors[k])'
  BY <1>1, <1>5 DEF Ordered, Between
<1>6. Precedes(seq)'
  BY <1>1, <1>2, <1>3, <1>4, <1>5 DEF Precedes
<1> QED BY <1>1, <1>6 DEF BeforeInv

(* The descriptors of the lists stay after seq. *)
LEMMA ListedStays ==
  ASSUME TypeOK, PhaseInv, Moves, NEW seq \in [1..Size -> Descriptor], Precedes(seq),
         NEW i \in 1..Size, NEW j \in 1..Size, SameSteady(i, j)
  PROVE  /\ (j \in DOMAIN descriptors /\ j \in DOMAIN descriptors' /\ descriptors'[j] = descriptors[j])
                => Follows(i, seq[i], descriptors[j])'
         /\ (j \in DOMAIN outcomes /\ j \in DOMAIN outcomes' /\ outcomes'[j] = outcomes[j])
                => Follows(i, seq[i], outcomes[j].descriptor)'
         /\ (j \in DOMAIN descriptors /\ outcomes'[j].descriptor = descriptors[j])
                => Follows(i, seq[i], outcomes[j].descriptor)'
<1>1. seq[i] \in Descriptor /\ Past(i, seq[i])
  BY DEF Precedes
<1>2. ASSUME NEW e \in Descriptor, Follows(i, seq[i], e) PROVE Follows(i, seq[i], e)'
  BY <1>1, <1>2, FollowsStays
<1>3. j \in DOMAIN descriptors =>
        descriptors[j] \in Descriptor /\ Follows(i, seq[i], descriptors[j])
  BY DescriptorsFit DEF Precedes
<1>4. j \in DOMAIN outcomes =>
        outcomes[j].descriptor \in Descriptor /\ Follows(i, seq[i], outcomes[j].descriptor)
  BY OutcomesFit DEF Precedes
<1>5. ASSUME j \in DOMAIN descriptors, descriptors'[j] = descriptors[j]
      PROVE  Follows(i, seq[i], descriptors[j])'
  <2>1. PICK e : e = descriptors[j]
    OBVIOUS
  <2>2. Follows(i, seq[i], e)'
    BY <1>2, <1>3, <1>5, <2>1
  <2>3. descriptors'[j] = e
    BY <1>5, <2>1
  <2> QED BY <2>2, <2>3
<1>6. ASSUME NEW e, e = outcomes'[j].descriptor, e \in Descriptor, Follows(i, seq[i], e)
      PROVE  Follows(i, seq[i], outcomes[j].descriptor)'
  BY <1>2, <1>6
<1> QED BY <1>3, <1>4, <1>5, <1>6

(* Steps that keep or empty the lists, and let evaluations give outcomes    *)
(* under their descriptors.                                                 *)
LEMMA BeforeStays ==
  ASSUME TypeOK, PhaseInv, BeforeInv, Moves, before' = before, pc # "before",
         \A i \in DOMAIN descriptors' :
           i \in DOMAIN descriptors /\ descriptors'[i] = descriptors[i],
         \A i \in DOMAIN outcomes' :
           \/ i \in DOMAIN outcomes /\ outcomes'[i] = outcomes[i]
           \/ i \in DOMAIN descriptors /\ outcomes'[i].descriptor = descriptors[i],
         pc' \in {"after", "compare"} =>
           descriptors' = <<>> \/ (pc \in {"after", "compare"} /\ outcomes' = outcomes)
  PROVE  BeforeInv'
<1>1. PICK seq \in [1..Size -> Descriptor] : Precedes(seq)
  BY DEF BeforeInv
<1>2. ASSUME NEW i \in 1..Size, NEW j \in 1..Size, SameSteady(i, j)
      PROVE  /\ j \in DOMAIN descriptors' => Follows(i, seq[i], descriptors[j])'
             /\ j \in DOMAIN outcomes' => Follows(i, seq[i], outcomes[j].descriptor)'
  BY <1>1, <1>2, ListedStays
<1>3. ASSUME pc' \in {"after", "compare"}, NEW i \in 1..Size, NEW j \in 1..Size, NEW k \in 1..Size,
             SameSteady(i, j), SameSteady(i, k), j \in DOMAIN outcomes', k \in DOMAIN descriptors'
      PROVE  Between(seq[i], outcomes'[j].descriptor, descriptors'[k])
  <2>1. descriptors' # <<>>
    BY <1>3
  <2>2. pc \in {"after", "compare"} /\ outcomes' = outcomes
    BY <1>3, <2>1
  <2>3. k \in DOMAIN descriptors /\ descriptors'[k] = descriptors[k]
    BY <1>3
  <2>4. Between(seq[i], outcomes[j].descriptor, descriptors[k])
    BY <1>1, <1>3, <2>2, <2>3 DEF Precedes
  <2> QED BY <2>2, <2>3, <2>4
<1>4. Ordered(seq)
  BY <1>2, <1>3 DEF Ordered
<1> QED BY <1>1, <1>4, PrecedesStays

(* One more child is described, after the version was read. *)
LEMMA BeforeAdds ==
  ASSUME TypeOK, PhaseInv, BeforeInv, pc \in {"validate", "after"}, index <= Size,
         NEW d \in Described, descriptors' = Append(descriptors, d), LookAt(pc, index + 1),
         UNCHANGED <<composite, children, outcomes, before>>
  PROVE  BeforeInv'
<1>1. PICK seq \in [1..Size -> Descriptor] : Precedes(seq)
  BY DEF BeforeInv
<1>2. index \in 1..Size /\ Child = composite.children[index] /\ Len(descriptors) = index - 1
  BY ChildType DEF TypeOK
<1>3. Starts /\ Moves /\ pc' = pc
  BY DEF LookAt, Starts, Moves
<1>4. /\ descriptors'[index] = d
      /\ \A j \in DOMAIN descriptors' :
           j # index => j \in DOMAIN descriptors /\ descriptors'[j] = descriptors[j]
  BY <1>2 DEF TypeOK
<1>5. ASSUME NEW i \in 1..Size, NEW j \in 1..Size, SameSteady(i, j)
      PROVE  /\ j \in DOMAIN descriptors' => Follows(i, seq[i], descriptors[j])'
             /\ j \in DOMAIN outcomes' => Follows(i, seq[i], outcomes[j].descriptor)'
  <2>1. j \in DOMAIN outcomes' => Follows(i, seq[i], outcomes[j].descriptor)'
    BY <1>1, <1>3, <1>5, ListedStays
  <2>2. ASSUME j = index PROVE Follows(i, seq[i], descriptors[j])'
    <3>1. Past(i, seq[i]) /\ seq[i] \in Descriptor /\ SameSteady(i, index)
      BY <1>1, <1>5, <2>2 DEF Precedes
    <3>2. Follows(i, seq[i], d)'
      BY <1>3, <3>1, FreshFollows
    <3>3. descriptors'[j] = d
      BY <1>4, <2>2
    <3> QED BY <3>2, <3>3
  <2>3. ASSUME j # index, j \in DOMAIN descriptors' PROVE Follows(i, seq[i], descriptors[j])'
    BY <1>1, <1>3, <1>4, <1>5, <2>3, ListedStays
  <2> QED BY <2>1, <2>2, <2>3
<1>6. ASSUME pc' \in {"after", "compare"}, NEW i \in 1..Size, NEW j \in 1..Size, NEW k \in 1..Size,
             SameSteady(i, j), SameSteady(i, k), j \in DOMAIN outcomes', k \in DOMAIN descriptors'
      PROVE  Between(seq[i], outcomes'[j].descriptor, descriptors'[k])
  <2>1. pc = "after" /\ j \in DOMAIN outcomes /\ outcomes' = outcomes
    BY <1>3, <1>6
  <2>2. CASE k = index
    <3>1. Follows(i, seq[i], outcomes[j].descriptor) /\ SameSteady(i, index)
      BY <1>1, <1>6, <2>1, <2>2 DEF Precedes
    <3>2. Between(seq[i], outcomes[j].descriptor, d)
      BY <3>1, FreshConfirms
    <3> QED BY <1>4, <2>1, <2>2, <3>2
  <2>3. CASE k # index
    <3>1. k \in DOMAIN descriptors /\ descriptors'[k] = descriptors[k]
      BY <1>4, <1>6, <2>3
    <3>2. Between(seq[i], outcomes[j].descriptor, descriptors[k])
      BY <1>1, <1>6, <2>1, <3>1 DEF Precedes
    <3> QED BY <2>1, <3>1, <3>2
  <2> QED BY <2>2, <2>3
<1>7. Ordered(seq)
  BY <1>5, <1>6 DEF Ordered
<1> QED BY <1>1, <1>3, <1>7, PrecedesStays

LEMMA BeforeMoves ==
  ASSUME TypeOK, PhaseInv, DraftInv, DescriptorInv, BeforeInv, [Next]_vars
  PROVE  BeforeInv'
<1>0. Moves /\ DOMAIN <<>> = {}
  BY StepMoves
<1>1. CASE DescribeForVersion
  <2>1. PICK d \in Described : descriptors' = Append(descriptors, d)
    BY <1>1 DEF DescribeForVersion
  <2>2. /\ pc \in {"before", "after"} /\ index <= Size /\ LookAt(pc, index + 1) /\ pc' = pc
        /\ UNCHANGED <<composite, children, outcomes, before>>
    BY <1>1 DEF DescribeForVersion, answers, LookAt
  <2> QED BY <2>1, <2>2, BeforeAdds DEF BeforeInv
<1>2. CASE VersionBefore
  <2>1. /\ pc = "before" /\ index > Size /\ descriptors' = <<>> /\ outcomes' = <<>>
        /\ before' = CompositeVersion(descriptors)
        /\ composite' = composite
    BY <1>2 DEF VersionBefore, PhaseInv
  <2>2. Len(descriptors) = Size
    BY <2>1, CompositeShape DEF TypeOK
  <2>3. descriptors \in [1..Size -> Descriptor]
    BY <2>2 DEF TypeOK
  <2>4. ASSUME NEW i \in 1..Size PROVE Past(i, descriptors[i])
    BY <2>3 DEF DescriptorInv
  <2>5. PICK seq \in [1..Size -> Descriptor] : seq = descriptors
    BY <2>3
  <2>6. \A i \in 1..Size : Past(i, seq[i])
    BY <2>4, <2>5
  <2>7. ASSUME NEW i \in 1..Size PROVE Past(i, seq[i])'
    BY <1>0, <2>6, <2>7, PastStays
  <2>8. before' = CompositeVersion(seq)' /\ Size' = Size /\ pc' = "called"
    BY <1>2, <2>1, <2>5, FixedWithComposite DEF VersionBefore, LookAt
  <2>9. Precedes(seq)'
    BY <1>0, <2>1, <2>7, <2>8 DEF Precedes
  <2> QED BY <2>8, <2>9 DEF BeforeInv
<1>3. CASE VersionAfter
  BY <1>0, <1>3, BeforeStays DEF VersionAfter, LookAt
<1>4. CASE EvaluateBegins
  <2>1. /\ pc # "before" /\ before' = before /\ outcomes' = outcomes
        /\ descriptors' = <<>> \/ (descriptors' = descriptors /\ pc' = "validate")
    BY <1>4 DEF EvaluateBegins, Answer, LookAt
  <2> QED BY <1>0, <2>1, BeforeStays
<1>5. CASE ValidateChild
  <2>1. PICK d \in Described :
          \/ Answer(FALSE)
          \/ descriptors' = Append(descriptors, d) /\ LookAt(pc, index + 1)
    BY <1>5 DEF ValidateChild
  <2>2. pc = "validate" /\ index <= Size /\ UNCHANGED <<composite, children, outcomes, before>>
    BY <1>5 DEF ValidateChild
  <2>3. CASE Answer(FALSE)
    BY <1>0, <2>2, <2>3, BeforeStays DEF Answer
  <2>4. CASE descriptors' = Append(descriptors, d) /\ LookAt(pc, index + 1)
    BY <2>2, <2>4, BeforeAdds
  <2> QED BY <2>1, <2>3, <2>4
<1>6. CASE ValidationEnds
  <2>1. /\ pc # "before" /\ before' = before /\ outcomes' = outcomes
        /\ descriptors' = <<>> \/ (descriptors' = descriptors /\ pc' = "evaluate")
    BY <1>6 DEF ValidationEnds, Answer, LookAt
  <2> QED BY <1>0, <2>1, BeforeStays
<1>7. ASSUME NEW valid, Outcome(valid), pc \in {"evaluate", "recheck"}, index <= Size, before' = before
      PROVE  BeforeInv'
  <2>1. descriptors' = <<>> \/ (descriptors' = descriptors /\ pc' = "evaluate")
    BY <1>7 DEF Outcome, Answer, LookAt
  <2> DEFINE new == OutcomeOf(valid)
  <2>2. outcomes' = Append(outcomes, new) /\ new.descriptor = descriptors[index]
    BY <1>7 DEF Outcome, OutcomeOf
  <2> HIDE DEF new
  <2>3. index \in 1..Size /\ Len(outcomes) = index - 1 /\ Len(descriptors) = Size
    BY <1>7, ChildType DEF TypeOK
  <2>4. index \in DOMAIN descriptors
    BY <2>3 DEF TypeOK
  <2>5. ASSUME NEW i \in DOMAIN outcomes'
        PROVE  \/ i \in DOMAIN outcomes /\ outcomes'[i] = outcomes[i]
               \/ i \in DOMAIN descriptors /\ outcomes'[i].descriptor = descriptors[i]
    <3>1. CASE i = index
      <4>1. outcomes'[i] = new
        BY <2>2, <2>3, <3>1 DEF TypeOK
      <4> QED BY <2>2, <2>4, <3>1, <4>1
    <3>2. CASE i # index
      BY <2>2, <2>3, <2>5, <3>2 DEF TypeOK
    <3> QED BY <3>1, <3>2
  <2> QED BY <1>0, <1>7, <2>1, <2>5, BeforeStays
<1>8. CASE EvaluateChildFails \/ RecheckChild
  BY <1>7, <1>8 DEF EvaluateChildFails, RecheckChild, TypeOK
<1>9. ASSUME NEW valid \in BOOLEAN, EvaluateChild(valid) PROVE BeforeInv'
  BY <1>0, <1>9, BeforeStays DEF EvaluateChild, LookAt, answers
<1>10. CASE Tally
  BY <1>0, <1>10, BeforeStays DEF Tally, Answer
<1>11. CASE UseAgain
  BY <1>11 DEF UseAgain, LookAt, BeforeInv
<1>12. CASE Quiet
  <2>1. CASE pc = "before"
    BY <1>12, <2>1 DEF Quiet, BeforeInv
  <2>2. CASE pc # "before"
    BY <1>0, <1>12, <2>2, BeforeStays DEF Quiet
  <2> QED BY <2>1, <2>2
<1> QED BY <1>1, <1>2, <1>3, <1>4, <1>5, <1>6, <1>8, <1>9, <1>10, <1>11, <1>12, QuietSteps DEF Next

-----------------------------------------------------------------------------
(* Sequences in which every descriptor occurs equally often. *)
HeldBy(n, seq, other) == \A i \in 1..n : \E j \in 1..n : seq[i] = other[j]

LEMMA HeldByBoth ==
  ASSUME NEW n \in Nat, NEW S, NEW seq \in [1..n -> S], NEW other \in [1..n -> S],
         Occurrences(seq) = Occurrences(other)
  PROVE  HeldBy(n, other, seq)
<1> DEFINE held(s) == {s[j] : j \in DOMAIN s}
           often(s, d) == Cardinality({j \in DOMAIN s : s[j] = d})
<1>1. /\ Occurrences(seq) = [d \in held(seq) |-> often(seq, d)]
      /\ Occurrences(other) = [d \in held(other) |-> often(other, d)]
  BY DEF Occurrences
<1>2. /\ \A i \in 1..n : other[i] \in held(other)
      /\ \A d \in held(seq) : \E j \in 1..n : d = seq[j]
  OBVIOUS
<1> HIDE DEF held, often
<1>3. held(seq) = held(other)
  BY <1>1
<1> QED BY <1>2, <1>3 DEF HeldBy
-----------------------------------------------------------------------------
(* The specification. *)

LEMMA InitIInv == Init => IInv
<1> SUFFICES ASSUME Init PROVE IInv
  OBVIOUS
<1>1. TypeOK
  BY InitTypeOK
<1>2. /\ pc = "before" /\ index = 1 /\ draft = Unread /\ descriptors = <<>> /\ outcomes = <<>>
      /\ answer = FALSE
  BY DEF Init
<1>3. DOMAIN descriptors = {} /\ DOMAIN outcomes = {} /\ Size \in Nat
  BY <1>1, <1>2, CompositeShape DEF TypeOK
<1>4. PhaseInv
  BY <1>2, <1>3 DEF PhaseInv
<1>5. DraftInv
  BY DEF Init, DraftInv, Read
<1>6. DescriptorInv /\ TaintInv /\ OutcomeInv
  BY <1>2, <1>3 DEF DescriptorInv, Validated, TaintInv, OutcomeInv
<1>7. BeforeInv
  BY <1>2 DEF BeforeInv
<1> QED BY <1>1, <1>4, <1>5, <1>6, <1>7 DEF IInv

LEMMA NextIInv == IInv /\ [Next]_vars => IInv'
<1> SUFFICES ASSUME IInv, [Next]_vars PROVE IInv'
  OBVIOUS
<1> USE DEF IInv
<1>1. TypeOK'
  BY TypeMoves
<1>2. PhaseInv'
  BY PhaseMoves
<1>3. DraftInv'
  BY StepMoves, DraftStays
<1>4. DescriptorInv'
  BY DescriptorsMove
<1>5. TaintInv'
  BY TaintMoves
<1>6. OutcomeInv'
  BY OutcomesMove
<1>7. BeforeInv'
  BY BeforeMoves
<1> QED BY <1>1, <1>2, <1>3, <1>4, <1>5, <1>6, <1>7

LEMMA Inductive == Spec => []IInv
BY InitIInv, NextIInv, PTL DEF Spec

(* Every variable of a composite keeps its type, in every loop the lists    *)
(* that are built are as long as the loop has come, and an evaluation has a *)
(* descriptor of each child: Evaluate never indexes past them.              *)
THEOREM TypeCorrect == Spec => []TypeOK
<1>1. IInv => TypeOK
  BY DEF IInv
<1> QED BY <1>1, Inductive, PTL

(* What a valid answer of a composite stands on. *)
LEMMA AnsweredShape ==
  ASSUME IInv, answer
  PROVE  /\ Len(outcomes) = Size /\ DOMAIN outcomes = 1..Size /\ Size \in Nat /\ Size # 0
         /\ Enough /\ ~RefusedUndescribed
         /\ Passed \subseteq 1..Size /\ IsFiniteSet(Passed)
<1>1. Len(outcomes) = Size /\ Enough /\ Size \in Nat
  BY CompositeShape DEF IInv, PhaseInv, TypeOK
<1>2. DOMAIN outcomes = 1..Size
  BY <1>1 DEF IInv, TypeOK
<1>3. ~RefusedUndescribed
  BY DEF IInv, PhaseInv
<1>4. Size # 0
  BY <1>3 DEF RefusedUndescribed
<1>5. Passed \subseteq 1..Size
  BY <1>2 DEF Passed
<1>6. IsFiniteSet(Passed)
  <2>1. IsFiniteSet(1..Size)
    BY <1>1, FS_Interval
  <2> QED BY <1>5, <2>1, FS_Subset
<1> QED BY <1>1, <1>2, <1>3, <1>4, <1>5, <1>6

(* A composite answers valid only over an outcome of every child, in the    *)
(* order of its children and with a pass among them, and an AND only when   *)
(* all passed: no sequence of failing, changing or panicking children makes *)
(* it leave one out.                                                        *)
THEOREM ValidAnswersAreEarned == Spec => []ValidIsEarned
<1>1. ASSUME IInv, answer
      PROVE  /\ Passed # {}
             /\ Len(outcomes) = Size
             /\ \A i \in DOMAIN outcomes : outcomes[i].child = composite.children[i]
             /\ composite.operator # "threshold" => Passed = 1..Size
  <2>1. /\ Len(outcomes) = Size /\ DOMAIN outcomes = 1..Size /\ Size \in Nat /\ Size # 0
        /\ Enough /\ ~RefusedUndescribed
    BY <1>1, AnsweredShape
  <2>2. \A i \in DOMAIN outcomes : outcomes[i].child = composite.children[i]
    BY <1>1 DEF IInv, OutcomeInv
  <2>3. composite.operator # "threshold" => Passed = 1..Size
    BY <2>1 DEF Enough
  <2>4. Passed # {}
    <3>1. CASE composite.operator = "threshold"
      <4>1. Cardinality(Passed) >= composite.threshold /\ composite.threshold # 0
        BY <2>1, <3>1 DEF Enough, RefusedUndescribed
      <4>2. composite.threshold \in Nat /\ Cardinality({}) = 0
        BY <1>1, CompositeShape, FS_EmptySet DEF IInv, TypeOK
      <4> QED BY <4>1, <4>2
    <3>2. CASE composite.operator # "threshold"
      BY <2>1, <2>3, <3>2
    <3> QED BY <3>1, <3>2
  <2> QED BY <2>1, <2>2, <2>3, <2>4
<1>2. IInv => ValidIsEarned
  BY <1>1 DEF ValidIsEarned
<1> QED BY <1>2, Inductive, PTL

(* SequentialAnd evaluates nothing after a failed child.                    *)
THEOREM SequencesStop == Spec => []SequentialStops
<1>1. IInv => SequentialStops
  BY DEF IInv, PhaseInv, SequentialStops
<1> QED BY <1>1, Inductive, PTL

(* A vote that counts was cast under the descriptor that is reported with   *)
(* it, by any child that does not go back to what it was: the recheck after *)
(* Evaluate sees every change, however the callbacks interleave with it.    *)
THEOREM VotesAreUntainted == Spec => []VotesUntainted
<1>1. ASSUME IInv, NEW i \in Passed, outcomes[i].child \notin Fickle
      PROVE  ~outcomes[i].tainted
  <2>1. i \in DOMAIN outcomes /\ outcomes[i].valid
    BY DEF Passed
  <2>2. outcomes[i].child = composite.children[i] /\ outcomes[i].descriptor.invalid = "nothing"
        /\ Past(i, outcomes[i].descriptor)
    BY <1>1, <2>1 DEF IInv, OutcomeInv
  <2>3. i \in 1..Size
    BY <1>1, <2>1, OutcomesFit DEF IInv
  <2>4. Steady(i)
    BY <1>1, <2>2, <2>3, CompositeShape DEF Past, Steady, IInv, TypeOK
  <2> QED BY <1>1, <2>1, <2>4 DEF IInv, OutcomeInv
<1>2. IInv => VotesUntainted
  BY <1>1 DEF VotesUntainted
<1> QED BY <1>2, Inductive, PTL

(* A threshold that answers valid has as many different primitives, under   *)
(* as many different identities, among its valid outcomes as it asks for,   *)
(* although names are read one after the other and change in between.       *)
(* Children that may go back must be of a pointer-like kind: a value that   *)
(* does can be counted twice, as the run on value votes shows.              *)
THEOREM ThresholdsAreUnique ==
  ASSUME Fickle \subseteq References
  PROVE  Spec => []ThresholdIsUnique
<1>1. ASSUME IInv, answer, composite.operator = "threshold"
      PROVE  /\ Cardinality({outcomes[i].child : i \in Passed}) >= composite.threshold
             /\ Cardinality({IdentityOf(outcomes[i].descriptor) : i \in Passed})
                  >= composite.threshold
  <2>1. /\ DOMAIN outcomes = 1..Size /\ Size \in Nat /\ Enough /\ ~RefusedUndescribed
        /\ Passed \subseteq 1..Size /\ IsFiniteSet(Passed)
    BY <1>1, AnsweredShape
  <2>2. Cardinality(Passed) >= composite.threshold /\ Cardinality(Passed) \in Nat
    BY <1>1, <2>1, FS_CardinalityType DEF Enough
  <2>3. ~RepeatsReference
    BY <1>1, <2>1 DEF RefusedUndescribed
  <2>4. ASSUME NEW i \in Passed, NEW j \in Passed, i < j
        PROVE  /\ outcomes[i].child # outcomes[j].child
               /\ IdentityOf(outcomes[i].descriptor) # IdentityOf(outcomes[j].descriptor)
    <3>1. i \in 1..Size /\ j \in 1..Size /\ outcomes[i].valid
      BY <2>1 DEF Passed
    <3>2. /\ outcomes[i].child = composite.children[i] /\ outcomes[j].child = composite.children[j]
          /\ Past(i, outcomes[i].descriptor) /\ outcomes[i].descriptor.invalid = "nothing"
          /\ IdentityOf(outcomes[i].descriptor) # IdentityOf(outcomes[j].descriptor)
          /\ Steady(i) => composite.children[j] # composite.children[i]
      BY <1>1, <2>1, <2>4, <3>1 DEF IInv, OutcomeInv
    <3>3. composite.children[i] \in Children
      BY <1>1, <3>1, <3>2, CompositeShape DEF Past, IInv, TypeOK
    <3>4. CASE composite.children[i] \in References
      BY <2>3, <2>4, <3>1, <3>2, <3>4 DEF RepeatsReference
    <3>5. CASE composite.children[i] \notin References
      BY <3>2, <3>3, <3>5 DEF Steady
    <3> QED BY <3>2, <3>4, <3>5
  <2>5. \A i, j \in Passed : i # j => i < j \/ j < i
    BY <2>1
  <2> DEFINE child == [i \in Passed |-> outcomes[i].child]
             name == [i \in Passed |-> IdentityOf(outcomes[i].descriptor)]
  <2>6. IsInjective(child) /\ IsInjective(name)
    BY <2>4, <2>5 DEF IsInjective
  <2>7. /\ child \in Bijection(Passed, {outcomes[i].child : i \in Passed})
        /\ name \in Bijection(Passed, {IdentityOf(outcomes[i].descriptor) : i \in Passed})
    BY <2>6 DEF Bijection, Injection, Surjection
  <2>8. /\ ExistsBijection(Passed, {outcomes[i].child : i \in Passed})
        /\ ExistsBijection(Passed, {IdentityOf(outcomes[i].descriptor) : i \in Passed})
    BY <2>7 DEF ExistsBijection
  <2> HIDE DEF child, name
  <2> DEFINE primitives == {outcomes[i].child : i \in Passed}
             identities == {IdentityOf(outcomes[i].descriptor) : i \in Passed}
  <2> HIDE DEF primitives, identities
  <2>9. /\ ExistsBijection(Passed, primitives) /\ ExistsBijection(Passed, identities)
    BY <2>8 DEF primitives, identities
  <2>10. Cardinality(primitives) = Cardinality(Passed) /\ Cardinality(identities) = Cardinality(Passed)
    BY <2>1, <2>9, FS_Bijection
  <2> QED BY <2>2, <2>10 DEF primitives, identities
<1>2. IInv => ThresholdIsUnique
  BY <1>1 DEF ThresholdIsUnique
<1> QED BY <1>2, Inductive, PTL

(* A valid answer between two equal versions, of children that do not go    *)
(* back: which descriptor the first version had of the child at a position, *)
(* its outcome follows it, and lies between it and the descriptor of now.   *)
LEMMA ConfirmedShape ==
  ASSUME IInv, Confirmed, NEW seq \in [1..Size -> Descriptor], Precedes(seq)
  PROVE  /\ Size \in Nat /\ DOMAIN composite.children = 1..Size
         /\ DOMAIN outcomes = 1..Size /\ descriptors \in [1..Size -> Descriptor]
         /\ CompositeVersion(seq) = CompositeVersion(descriptors)
         /\ \A i \in 1..Size :
              /\ Steady(i)
              /\ descriptors[i].invalid = "nothing" /\ Past(i, descriptors[i])
              /\ outcomes[i].descriptor \in Descriptor
              /\ outcomes[i].descriptor.invalid = "nothing" /\ Past(i, outcomes[i].descriptor)
<1>1. /\ Size \in Nat /\ DOMAIN composite.children = 1..Size
      /\ \A i \in 1..Size : composite.children[i] \in Children \cup {Nil}
  BY CompositeShape DEF IInv, TypeOK
<1>2. DOMAIN outcomes = 1..Size
  BY AnsweredShape DEF Confirmed
<1>3. /\ Len(descriptors) = Size /\ after = CompositeVersion(descriptors)
      /\ descriptors \in Seq(Descriptor)
  BY DEF IInv, PhaseInv, TypeOK, Confirmed
<1>4. descriptors \in [1..Size -> Descriptor] /\ DOMAIN descriptors = 1..Size
  BY <1>1, <1>3
<1>5. CompositeVersion(seq) = CompositeVersion(descriptors)
  BY <1>3 DEF Precedes, Confirmed
<1>6. ASSUME NEW i \in 1..Size
      PROVE  /\ Steady(i)
             /\ descriptors[i].invalid = "nothing" /\ Past(i, descriptors[i])
             /\ outcomes[i].descriptor \in Descriptor
             /\ outcomes[i].descriptor.invalid = "nothing" /\ Past(i, outcomes[i].descriptor)
  <2>1. descriptors[i].invalid = "nothing" /\ Past(i, descriptors[i])
    BY <1>4 DEF IInv, DescriptorInv, Confirmed
  <2>2. /\ outcomes[i].descriptor.invalid = "nothing" /\ Past(i, outcomes[i].descriptor)
        /\ outcomes[i].descriptor \in Descriptor
    BY <1>2, OutcomesFit DEF IInv, OutcomeInv
  <2>3. Steady(i)
    BY <1>1, <2>1 DEF Past, Steady, Confirmed
  <2> QED BY <2>1, <2>2, <2>3
<1> QED BY <1>1, <1>2, <1>4, <1>5, <1>6

(* Where children are told apart, the first version had the descriptor of   *)
(* now from the same child.                                                 *)
LEMMA FromTheSameChild ==
  ASSUME IInv, Confirmed, NEW seq \in [1..Size -> Descriptor], Precedes(seq),
         OrderIndependent =>
           \A i, j \in DOMAIN composite.children :
             ToldApart(composite.children[i], composite.children[j]),
         NEW k \in 1..Size
  PROVE  \E i \in 1..Size : seq[i] = descriptors[k] /\ composite.children[i] = composite.children[k]
<1>1. /\ DOMAIN composite.children = 1..Size /\ Size \in Nat
      /\ descriptors \in [1..Size -> Descriptor]
      /\ CompositeVersion(seq) = CompositeVersion(descriptors)
      /\ \A i \in 1..Size :
           Steady(i) /\ descriptors[i].invalid = "nothing" /\ Past(i, descriptors[i])
  BY ConfirmedShape
<1>2. CASE ~OrderIndependent
  BY <1>1, <1>2 DEF CompositeVersion
<1>3. CASE OrderIndependent
  <2>1. Occurrences(seq) = Occurrences(descriptors)
    BY <1>1, <1>3 DEF CompositeVersion
  <2>2. PICK i \in 1..Size : descriptors[k] = seq[i]
    <3>1. HeldBy(Size, descriptors, seq)
      BY <1>1, <2>1, HeldByBoth
    <3> QED BY <3>1 DEF HeldBy
  <2>3. Past(i, seq[i]) /\ seq[i].invalid = "nothing" /\ Steady(i) /\ Steady(k)
    BY <1>1, <2>2 DEF Precedes
  <2>4. /\ seq[i].type = Type[composite.children[i]]
        /\ seq[i].values["name"] \in Had(composite.children[i], "name")
    BY <2>3 DEF Past, Fields
  <2>5. /\ descriptors[k].type = Type[composite.children[k]]
        /\ descriptors[k].values["name"] \in Had(composite.children[k], "name")
    BY <1>1 DEF Past, Fields
  <2>6. ToldApart(composite.children[i], composite.children[k])
    BY <1>1, <1>3
  <2>7. composite.children[i] = composite.children[k]
    BY <2>2, <2>4, <2>5, <2>6 DEF ToldApart, NamesOf, Had
  <2> QED BY <2>2, <2>7
<1> QED BY <1>2, <1>3

(* The version of a composite of children that do not go back covers the    *)
(* evaluation between two readings of it: if it is the same and every child *)
(* could be described, each outcome came from the child as it is described. *)
(* So it is for a sequence of any children, and where their order does not  *)
(* count for children that are told apart by their types or names; the run  *)
(* on exchanged configurations shows that it is not so for all others.      *)
THEOREM VersionsCover == Spec => []VersionCovers
<1>1. ASSUME IInv, Confirmed,
             OrderIndependent =>
               \A i, j \in DOMAIN composite.children :
                 ToldApart(composite.children[i], composite.children[j])
      PROVE  AnsweredAsDescribed
  <2>1. PICK seq \in [1..Size -> Descriptor] : Precedes(seq)
    BY <1>1 DEF IInv, BeforeInv, Confirmed
  <2>2. /\ DOMAIN outcomes = 1..Size /\ descriptors \in [1..Size -> Descriptor]
        /\ \A i \in 1..Size :
             /\ Steady(i)
             /\ descriptors[i].invalid = "nothing" /\ Past(i, descriptors[i])
             /\ outcomes[i].descriptor \in Descriptor
             /\ outcomes[i].descriptor.invalid = "nothing" /\ Past(i, outcomes[i].descriptor)
    BY <1>1, <2>1, ConfirmedShape
  <2>3. ASSUME NEW k \in 1..Size PROVE outcomes[k].descriptor = descriptors[k]
    <3> DEFINE d == outcomes[k].descriptor
               x == descriptors[k]
    <3>1. PICK i \in 1..Size : seq[i] = x /\ composite.children[i] = composite.children[k]
      BY <1>1, <2>1, FromTheSameChild
    <3>2. SameSteady(i, k)
      BY <2>2, <3>1 DEF SameSteady
    <3>3. Between(seq[i], d, x)
      BY <1>1, <2>1, <2>2, <3>2 DEF Precedes, Confirmed
    <3>4. /\ d \in Descriptor /\ x \in Descriptor
          /\ d.invalid = "nothing" /\ x.invalid = "nothing"
          /\ d.invalid = x.invalid /\ d.type = x.type
      BY <2>2 DEF Past
    <3> HIDE DEF d, x
    <3>5. \A f \in Fields : d.values[f] = x.values[f]
      BY <3>1, <3>3, <3>4 DEF Between
    <3>6. d.values \in [Fields -> Nat] /\ x.values \in [Fields -> Nat]
      BY <3>4 DEF Descriptor
    <3>7. d.values = x.values
      BY <3>5, <3>6
    <3>8. d.type = x.type /\ d.invalid = x.invalid /\ d \in Descriptor /\ x \in Descriptor
      BY <3>4
    <3>9. d = x
      BY <3>7, <3>8 DEF Descriptor
    <3> QED BY <3>9 DEF d, x
  <2> QED BY <2>2, <2>3 DEF AnsweredAsDescribed
<1>2. IInv => VersionCovers
  BY <1>1 DEF VersionCovers
<1> QED BY <1>2, Inductive, PTL
=============================================================================
