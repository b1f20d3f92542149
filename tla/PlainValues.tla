----------------------------- MODULE PlainValues -----------------------------
(***************************************************************************)
(* The plain Go values that contexts, evaluation results and proofs carry, *)
(* and the four walks over them: the context cloner and the canonical      *)
(* commitment of core/deterministic_context.go, the result snapshot of     *)
(* core/primitive_contracts.go, and the stored form of core/proof_theory.go.*)
(*                                                                         *)
(* Maps and slices are objects of a heap, so that values can share them    *)
(* and form cycles.  A value is a record [type, val, addr]: a scalar has a *)
(* val, a map or slice the address of its object, which is NoAddress for a *)
(* nil one.  Slices have the keys "0", "1", ...; an interface around a     *)
(* value shows only in what it adds to the nesting depth.  Unfolded, a     *)
(* value is a tree: a function from paths of keys to [type, val].          *)
(***************************************************************************)
EXTENDS SequencesExt

CONSTANTS
  ContextDepth,    \* maxContextDepth
  PrimitiveDepth,  \* the depth limit of clonePrimitiveValue
  ProofDepth,      \* proofValueDepthLimit
  Scalars          \* the values that are not maps or slices

(* map[string]interface{}, map[string]map[string]interface{}; []interface{} *)
(* and []float64.                                                           *)
MapTypes == {"object", "table"}
SliceTypes == {"list", "floats"}
Containers == MapTypes \cup SliceTypes

ElementType(type) ==
  CASE type \in {"object", "list"} -> "any"
    [] type = "table" -> "object"
    [] type = "floats" -> "float"

(* Keys in the order of sort.Slice, and of the indexes of a slice. *)
KeyOrder == <<"0", "1", "2", "a", "b", "c">>
Keys == {"0", "1", "2", "a", "b", "c"}
Sorted(keys) ==
  LET sorted[i \in 0..Len(KeyOrder)] ==
        IF i = 0 THEN <<>>
        ELSE IF KeyOrder[i] \in keys THEN Append(sorted[i - 1], KeyOrder[i])
        ELSE sorted[i - 1]
  IN  sorted[Len(KeyOrder)]
Indexes == {{}, {"0"}, {"0", "1"}, {"0", "1", "2"}}

(* An object lies at an address: the host program, or one of the copies     *)
(* made, and the path of keys to it from the first object of that copy.     *)
Addresses == [owner : {"host", "stored", "export"}, n : Nat, path : Seq(Keys)]
NoAddress == [owner |-> "none", n |-> 0, path |-> <<>>]
Below(at, key) == [at EXCEPT !.path = Append(@, key)]

Scalar(type, val) == [type |-> type, val |-> val, addr |-> NoAddress]
Ref(type, addr) == [type |-> type, val |-> "", addr |-> addr]
Nil == Scalar("nil", "")

(* NaN stands for every value without a deterministic form: non-finite      *)
(* floats, malformed JSON numbers, pointers, channels, functions, structs.  *)
Unsupported == {Scalar("float", "NaN")}

Zero(type) ==
  CASE type = "any" -> Nil
    [] type = "object" -> Ref("object", NoAddress)
    [] type = "float" -> Scalar("float", "0")

ASSUME DepthConstants ==
  ContextDepth \in Nat /\ PrimitiveDepth \in Nat /\ ProofDepth \in Nat

ASSUME ScalarValues ==
  /\ {Nil, Zero("float")} \subseteq Scalars
  /\ \A v \in Scalars : v = Scalar(v.type, v.val) /\ v.type \notin Containers \cup {"missing"}
  /\ \A v \in Scalars : v.type = "nil" => v = Nil

(* The values there can be: scalars, nil containers and references to the   *)
(* objects of a heap.                                                       *)
PlainNils == {Ref(type, NoAddress) : type \in Containers}
Values(heap) == Scalars \cup PlainNils \cup {Ref(heap[a].type, a) : a \in DOMAIN heap}

IsObject(v) == v.type \in Containers /\ v.addr # NoAddress
Items(heap, v) == IF IsObject(v) THEN heap[v.addr].items ELSE <<>>

(* Go keeps the elements of a map or slice to its type. *)
Fits(type, value) == ElementType(type) \in {"any", value.type}

(* The items of a slice have the indexes from the first one on. *)
Packed(type, items) == type \in SliceTypes => DOMAIN items \in Indexes

(* Objects as Go makes them: of their type, and with no dangling reference. *)
WellFormed(objects) ==
  \A a \in DOMAIN objects :
    /\ a \in Addresses
    /\ objects[a] = [type |-> objects[a].type, items |-> objects[a].items]
    /\ objects[a].type \in Containers
    /\ objects[a].items = [k \in DOMAIN objects[a].items |-> objects[a].items[k]]
    /\ DOMAIN objects[a].items \subseteq Keys
    /\ Packed(objects[a].type, objects[a].items)
    /\ \A k \in DOMAIN objects[a].items :
         objects[a].items[k] \in Values(objects) /\ Fits(objects[a].type, objects[a].items[k])

(* The heap with the objects of a copy in addition. *)
Extended(objects, more) ==
  [a \in DOMAIN objects \cup DOMAIN more |-> IF a \in DOMAIN more THEN more[a] ELSE objects[a]]

(* The levels from a container to an element: one, and another one for the  *)
(* interface around it.                                                     *)
Levels(type, element) == IF ElementType(type) = "any" /\ element.type # "nil" THEN 2 ELSE 1
-----------------------------------------------------------------------------
(* Walks over the heap.  A walk is at a place: a value, the address its copy *)
(* would have, its depth, and the objects the walk is inside of.  It answers *)
(* whether the value is kept, its copy, the objects of the copy and the      *)
(* issues.                                                                   *)

Places(heap) ==
  [value : Values(heap), at : Addresses, depth : Nat, active : SUBSET DOMAIN heap]

Start(value, at, depth) == [value |-> value, at |-> at, depth |-> depth, active |-> {}]

Down(heap, place, key) ==
  LET item == heap[place.value.addr].items[key]
  IN  [value  |-> item,
       at     |-> Below(place.at, key),
       depth  |-> place.depth + Levels(place.value.type, item),
       active |-> place.active \cup {place.value.addr}]

Refused(at, reason) ==
  [keep |-> FALSE, value |-> Nil, objects |-> <<>>, issues |-> {<<at, reason>>}]

Kept(value) == [keep |-> TRUE, value |-> value, objects |-> <<>>, issues |-> {}]

(* A new object at an address, with the objects its elements' copies made. *)
Allocated(at, type, items, children) ==
  [keep    |-> TRUE,
   value   |-> Ref(type, at),
   objects |-> [a \in {at} \cup UNION {DOMAIN children[k].objects : k \in DOMAIN children} |->
                  IF a = at THEN [type |-> type, items |-> items]
                  ELSE children[a.path[Len(at.path) + 1]].objects[a]],
   issues  |-> UNION {children[k].issues : k \in DOMAIN children}]

(* Mutations: a refused item of a slice is dropped, or becomes nil. *)
ClonedItemsDropped(type, children) ==
  [k \in {c \in DOMAIN children : children[c].keep} |-> children[k].value]

ClonedItemsNil(type, children) ==
  LET kept == {k \in DOMAIN children : children[k].keep}
  IN  IF type \in MapTypes
      THEN [k \in kept |-> children[k].value]
      ELSE [k \in DOMAIN children |-> IF k \in kept THEN children[k].value ELSE Nil]

(* cloneMap drops an entry that is not kept, cloneSlice leaves a zero value. *)
ClonedItems(type, children) ==
  LET kept == {k \in DOMAIN children : children[k].keep}
  IN  IF type \in MapTypes
      THEN [k \in kept |-> children[k].value]
      ELSE [k \in DOMAIN children |->
              IF k \in kept THEN children[k].value ELSE Zero(ElementType(type))]

(* contextCloner.cloneValue at a place, clone being what it answers below. *)
CloneValue(heap, clone, place) ==
  LET v == place.value
      children == [k \in DOMAIN Items(heap, v) |-> clone[Down(heap, place, k)]]
  IN  IF place.depth > ContextDepth THEN Refused(place.at, "maximum nesting depth exceeded")
      ELSE IF v \in Unsupported THEN Refused(place.at, "unsupported value")
      ELSE IF ~IsObject(v) THEN Kept(v)
      ELSE IF v.addr \in place.active THEN Refused(place.at, "cycle detected")
      ELSE Allocated(place.at, v.type, ClonedItems(v.type, children), children)

Clone(heap, value, at, depth) ==
  LET clone[place \in Places(heap)] == CloneValue(heap, clone, place)
  IN  clone[Start(value, at, depth)]

(* Mutation: the type of a container is kept. *)
PlainTypeKept(type) == type

(* The type of the copy clonePrimitiveValue makes. *)
PlainType(type) == IF type \in MapTypes THEN "object" ELSE "list"

(* clonePrimitiveValue: all or nothing; every map becomes a                 *)
(* map[string]interface{} and every slice an []interface{}, a nil one an    *)
(* empty one.                                                               *)
SnapshotValue(heap, snapshot, place) ==
  LET v == place.value
      children == [k \in DOMAIN Items(heap, v) |-> snapshot[Down(heap, place, k)]]
  IN  IF place.depth > PrimitiveDepth \/ v \in Unsupported THEN Refused(place.at, "invalid value")
      ELSE IF v.type \notin Containers THEN Kept(v)
      ELSE IF \E k \in DOMAIN children : ~children[k].keep THEN Refused(place.at, "invalid value")
      ELSE Allocated(place.at, PlainType(v.type), [k \in DOMAIN children |-> children[k].value],
                     children)

Snapshot(heap, value, at) ==
  LET snapshot[place \in Places(heap)] == SnapshotValue(heap, snapshot, place)
  IN  snapshot[Start(value, at, 0)]
-----------------------------------------------------------------------------
(* Paths into the heap. *)

(* What is found at a path of keys, and on the way to it. *)
Missing == Scalar("missing", "")
ItemAt(heap, v, key) ==
  IF key \in DOMAIN Items(heap, v) THEN Items(heap, v)[key] ELSE Missing

Trail(heap, v, path) ==
  LET trail[i \in 0..Len(path)] == IF i = 0 THEN v ELSE ItemAt(heap, trail[i - 1], path[i])
  IN  trail

ValueAt(heap, v, path) == Trail(heap, v, path)[Len(path)]

(* The paths to something, of at most n keys. *)
PathsOf(heap, v, n) ==
  LET below(path) == {Append(path, k) : k \in DOMAIN Items(heap, ValueAt(heap, v, path))}
      paths[i \in 0..n] ==
        IF i = 0 THEN {<<>>}
        ELSE LET known == paths[i - 1]
             IN  known \cup UNION {below(path) : path \in {p \in known : Len(p) = i - 1}}
  IN  paths[n]

(* How deep the value at a path is: a level for each container on the way,   *)
(* and one for each interface.                                              *)
DepthAt(heap, v, path) ==
  LET trail == Trail(heap, v, path)
      depth[i \in 0..Len(path)] ==
        IF i = 0 THEN 0 ELSE depth[i - 1] + Levels(trail[i - 1].type, trail[i])
  IN  depth[Len(path)]

(* A path leads to something a context can hold: nothing unsupported, no    *)
(* object inside itself, not too deep.                                      *)
Sound(heap, v, path) ==
  LET trail == Trail(heap, v, path)
  IN  /\ \A i \in 0..Len(path) : trail[i] # Missing /\ trail[i] \notin Unsupported
      /\ \A i, j \in 0..Len(path) :
           (i < j /\ IsObject(trail[i])) => trail[i].addr # trail[j].addr
      /\ DepthAt(heap, v, path) <= ContextDepth

(* Equal but for the address. *)
Alike(v, w) == v.type = w.type /\ v.val = w.val /\ ((v.addr = NoAddress) <=> (w.addr = NoAddress))

(* What a context should hold at a path of the data it was made of. *)
Retained(heap, v, path) ==
  IF Sound(heap, v, path) THEN ValueAt(heap, v, path)
  ELSE LET parent == ValueAt(heap, v, Front(path))
       IN  IF /\ ValueAt(heap, v, path) # Missing
              /\ Sound(heap, v, Front(path))
              /\ parent.type \in SliceTypes
           THEN Zero(ElementType(parent.type))
           ELSE Missing
-----------------------------------------------------------------------------
(* Trees. *)

Node(type, val) == [type |-> type, val |-> val]
Leaf(type, val) == [path \in {<<>>} |-> Node(type, val)]
Tree(type, val, items) ==
  [path \in {<<>>} \cup UNION {{<<k>> \o p : p \in DOMAIN items[k]} : k \in DOMAIN items} |->
     IF path = <<>> THEN Node(type, val) ELSE items[Head(path)][Tail(path)]]
NoTree == Leaf("refused", "")

NextKeys(tree, path) ==
  {p[Len(p)] : p \in {q \in DOMAIN tree : q # <<>> /\ Front(q) = path}}
Subtree(tree, key) ==
  [path \in {Tail(p) : p \in {q \in DOMAIN tree : q # <<>> /\ Head(q) = key}} |->
     tree[<<key>> \o path]]

(* What a value says, whatever objects it is spread over; the copies of a    *)
(* context and of a result are nowhere deeper than that.                     *)
Deepest == ContextDepth + PrimitiveDepth + 1
Label(v) == Node(v.type, IF v.type \in Containers /\ ~IsObject(v) THEN "nil" ELSE v.val)
Unfold(heap, v) == [path \in PathsOf(heap, v, Deepest) |-> Label(ValueAt(heap, v, path))]

(* The kind of a type; as a mutation, all that is written of it. *)
KindOf(type) ==
  CASE type \in MapTypes -> "map"
    [] type \in SliceTypes -> "slice"
    [] OTHER -> type

(* canonicalTypeID tells the modelled types apart. *)
CanonicalTypeID(type) == type

(* What is hashed is a sequence of marks (single bytes), lengths, and frames *)
(* around texts.  writeFrame writes the length of a text before it, so that  *)
(* no frame begins like a mark, and none like a different frame.             *)
Mark(text) == [what |-> "mark", text |-> text, n |-> 0]
Frame(text) == [what |-> "frame", text |-> text, n |-> 0]
Length(n) == [what |-> "length", text |-> "", n |-> n]
Decimal(n) == [what |-> "decimal", text |-> "", n |-> n]

(* writeCanonicalValue at a node, given what it writes for the elements. *)
WriteNode(node, keys, written) ==
  LET element(k) == IF node.type \in MapTypes THEN <<Frame(k)>> \o written[k] ELSE written[k]
  IN  IF node.type = "nil" THEN <<Mark("n")>>
      ELSE IF node.type \notin Containers
           THEN <<Frame(CanonicalTypeID(node.type)), Frame(node.val)>>
      ELSE IF node.val = "nil" THEN <<Frame(CanonicalTypeID(node.type)), Mark("0")>>
      ELSE <<Frame(CanonicalTypeID(node.type)), Mark("1"), Length(Len(keys))>>
             \o FlattenSeq([i \in 1..Len(keys) |-> element(keys[i])])

WriteCanonicalValue(tree) ==
  LET write[path \in DOMAIN tree] ==
        WriteNode(tree[path], Sorted(NextKeys(tree, path)),
                  [k \in NextKeys(tree, path) |-> write[Append(path, k)]])
  IN  write[<<>>]

(* computeContextCommitment, SHA-256 being collision free. *)
ContextCommitment(tree, time) == <<Decimal(time)>> \o WriteCanonicalValue(tree)

(* Mutation: the type is left out. *)
TaggedValueUntyped(kind, type, value) ==
  Tree("object", "", [field \in {"$gsas_kind", "$gsas_value"} |->
                        IF field = "$gsas_kind" THEN Leaf("string", kind) ELSE value])

TaggedValue(kind, type, value) ==
  Tree("object", "", [field \in {"$gsas_kind", "$gsas_type", "$gsas_value"} |->
                        IF field = "$gsas_kind" THEN Leaf("string", kind)
                        ELSE IF field = "$gsas_type" THEN Leaf("string", CanonicalTypeID(type))
                        ELSE value])

(* The depth encodeProofValue is at: the root is not counted, and an element *)
(* of it is at depth 0, its interface included.                              *)
EncodingDepth(tree) ==
  LET depth[path \in DOMAIN tree] ==
        IF path = <<>> THEN -1
        ELSE depth[Front(path)] + Levels(tree[Front(path)].type, tree[path])
  IN  depth

(* encodeProofValue: booleans, strings and nil stay, the rest is tagged with *)
(* its kind and its type.                                                    *)
EncodeProofValue(node, items) ==
  LET kind == KindOf(node.type)
  IN  IF node.type \in {"nil", "bool", "string"} THEN Leaf(node.type, node.val)
      ELSE IF node.type \notin Containers
           THEN TaggedValue(kind, node.type, Leaf("string", node.val))
      ELSE IF node.val = "nil" THEN TaggedValue(kind, node.type, Leaf("nil", ""))
      ELSE IF \E k \in DOMAIN items : items[k] = NoTree THEN NoTree
      ELSE TaggedValue(kind, node.type, Tree(PlainType(node.type), "", items))

(* encodeProofRootObject and encodeProofRootArray: the root is not tagged. *)
EncodeProofRoot(tree) ==
  LET depth == EncodingDepth(tree)
      elements(encode, path) == [k \in NextKeys(tree, path) |-> encode[Append(path, k)]]
      encode[path \in DOMAIN tree] ==
        IF depth[path] > ProofDepth THEN NoTree
        ELSE EncodeProofValue(tree[path], elements(encode, path))
      items == elements(encode, <<>>)
  IN  IF \E k \in DOMAIN items : items[k] = NoTree THEN NoTree
      ELSE Tree(PlainType(tree[<<>>].type), "", items)

(* cloneStoredRootObject, cloneStoredRootArray and cloneStoredValue: plain   *)
(* values only.  The walk into a container starts again at depth 0, so the  *)
(* depth limit is never reached.                                            *)
CloneStored(tree) ==
  LET clone[path \in DOMAIN tree] ==
        LET node == tree[path]
            items == [k \in NextKeys(tree, path) |-> clone[Append(path, k)]]
        IN  IF node.type \in {"nil", "bool", "string"} THEN Leaf(node.type, node.val)
            ELSE IF node.type \notin {"object", "list"} THEN NoTree
            ELSE IF \E k \in DOMAIN items : items[k] = NoTree THEN NoTree
            ELSE Tree(node.type, "", items)
  IN  clone[<<>>]
=============================================================================
