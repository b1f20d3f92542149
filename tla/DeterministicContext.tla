------------------------- MODULE DeterministicContext -------------------------
(***************************************************************************)
(* Contexts (core/deterministic_context.go) and the snapshots of results   *)
(* (normalizeEvaluationResult in core/primitive_contracts.go), next to the *)
(* memory of the host program.  The host builds its data as it likes, with *)
(* shared and cyclic references, hands it to the constructors, gets copies *)
(* out of contexts, and goes on writing to everything it can reach.        *)
(***************************************************************************)
EXTENDS PlainValues, FiniteSets

CONSTANTS
  Heaps,       \* the objects of the host program at the beginning
  Written,     \* the scalars and nil containers it writes
  Times,       \* logical times
  MaxStored,   \* bound: contexts and snapshots made
  MaxExports,  \* bound: copies got out of contexts
  MaxWrites,   \* bound: writes of the host program
  MaxSteps     \* bound: all of these together

ASSUME HeapsAssumption ==
  \A objects \in Heaps :
    /\ objects = [a \in DOMAIN objects |-> objects[a]]
    /\ IsFiniteSet(DOMAIN objects)
    /\ WellFormed(objects)
    /\ \A a \in DOMAIN objects : a.owner = "host"

ASSUME WrittenAssumption == Written \subseteq Scalars \cup PlainNils

VARIABLES
  heap,     \* all objects, by address
  held,     \* the values the host program holds
  stored,   \* the contexts and snapshots made, in order
  exports,  \* how many copies were handed out
  writes    \* how many writes were made

vars == <<heap, held, stored, exports, writes>>

Init ==
  /\ heap \in Heaps
  /\ held = {Ref(heap[a].type, a) : a \in DOMAIN heap}
  /\ stored = <<>>
  /\ exports = 0
  /\ writes = 0

(* The addresses that can be reached from some values. *)
Addressed(values) == {v.addr : v \in {w \in values : IsObject(w)}}
Contents(objects, a) == {objects[a].items[k] : k \in DOMAIN objects[a].items}

Onward(objects, known) == known \cup Addressed(UNION {Contents(objects, a) : a \in known})

Reach(objects, values) ==
  LET reach[known \in SUBSET DOMAIN objects] ==
        LET next == Onward(objects, known)
        IN  IF next = known THEN known ELSE reach[next]
  IN  reach[Addressed(values)]

MayStep == Len(stored) + exports + writes < MaxSteps

HostAddresses == Reach(heap, held)
HostValues == Written \cup {Ref(heap[a].type, a) : a \in HostAddresses}
-----------------------------------------------------------------------------
(* Construction. *)

(* Mutation: valid data is checked, and then only the map itself is copied. *)
CloneContextDataShallow(objects, data, at) ==
  IF ~IsObject(data) THEN Allocated(at, "object", <<>>, <<>>)
  ELSE LET clone == Clone(objects, data, at, 0)
       IN  IF clone.issues = {} THEN Allocated(at, "object", objects[data.addr].items, <<>>)
           ELSE clone

(* cloneContextData: nil data becomes an empty map; data that is refused as *)
(* a whole would, too.                                                      *)
CloneContextData(objects, data, at) ==
  IF ~IsObject(data) THEN Allocated(at, "object", <<>>, <<>>)
  ELSE Clone(objects, data, at, 0)

(* buildDeterministicContext; source and given are ghosts, the data it was  *)
(* called with and what that said, if the context is valid.                 *)
(* NewDeterministicContextChecked answers such a context, or an error when  *)
(* it has issues.                                                           *)
BuildDeterministicContext(objects, data, time, at) ==
  LET clone == CloneContextData(objects, data, at)
  IN  [kind       |-> "context",
       data       |-> clone.value,
       time       |-> time,
       issues     |-> clone.issues,
       commitment |-> IF clone.issues = {}
                      THEN ContextCommitment(Unfold(Extended(objects, clone.objects), clone.value), time)
                      ELSE <<>>,
       source     |-> data,
       given      |-> IF clone.issues # {} THEN NoTree
                      ELSE IF IsObject(data) THEN Unfold(objects, data)
                      ELSE Leaf("object", "")]

StoredAddress(n) == [owner |-> "stored", n |-> n, path |-> <<>>]
ExportAddress(n) == [owner |-> "export", n |-> n, path |-> <<>>]

NewDeterministicContext(data, time) ==
  LET at == StoredAddress(Len(stored) + 1)
  IN  /\ MayStep /\ Len(stored) < MaxStored
      /\ data.type = "object"
      /\ stored' = Append(stored, BuildDeterministicContext(heap, data, time, at))
      /\ heap' = Extended(heap, CloneContextData(heap, data, at).objects)
      /\ UNCHANGED <<held, exports, writes>>

(* normalizeEvaluationResult keeps a snapshot of the metadata, which must   *)
(* come out as an object, and of the evidence, which must be an array.      *)
NormalizeEvaluationResult(value, plain) ==
  LET at == StoredAddress(Len(stored) + 1)
      snapshot == Snapshot(heap, value, at)
  IN  /\ MayStep /\ Len(stored) < MaxStored
      /\ snapshot.keep
      /\ snapshot.value.type = plain
      /\ stored' = Append(stored, [kind |-> "result", data |-> snapshot.value, time |-> 0,
                                   issues |-> {}, commitment |-> <<>>, source |-> value,
                                   given |-> NoTree])
      /\ heap' = Extended(heap, snapshot.objects)
      /\ UNCHANGED <<held, exports, writes>>
-----------------------------------------------------------------------------
(* Access. *)

(* Mutations: the value itself is handed out, or copied from where it is. *)
DeepCopyShared(objects, value, at) == Kept(value)
DeepCopyDeeper(objects, value, at) == Clone(objects, value, at, 1)

(* deepCopy and deepCopyValue: the errors of the cloner are dropped. *)
DeepCopy(objects, value, at) == Clone(objects, value, at, 0)

Contexts == {n \in DOMAIN stored : stored[n].kind = "context"}

(* Data answers a copy of the whole, Get and GetItem a copy of one value. *)
Exportable(n) ==
  {stored[n].data} \cup {heap[stored[n].data.addr].items[key] :
                           key \in DOMAIN heap[stored[n].data.addr].items}

Export(value) ==
  LET copy == DeepCopy(heap, value, ExportAddress(exports + 1))
  IN  /\ MayStep /\ exports < MaxExports
      /\ exports' = exports + 1
      /\ held' = held \cup {copy.value}
      /\ heap' = Extended(heap, copy.objects)
      /\ UNCHANGED <<stored, writes>>

(* Get and GetItem: a copy of the value of a key, or that there is none. *)
Absent == Leaf("absent", "")

Get(n, key) ==
  LET data == heap[stored[n].data.addr].items
      copy == DeepCopy(heap, data[key], ExportAddress(exports + 1))
  IN  IF key \in DOMAIN data THEN Unfold(Extended(heap, copy.objects), copy.value) ELSE Absent

(* DeterministicContextSpec, the specification of a context in              *)
(* core/formal_semantics.go: its data and time are what it was made of.     *)
SpecGet(given, key) == IF <<key>> \in DOMAIN given THEN Subtree(given, key) ELSE Absent
-----------------------------------------------------------------------------
(* The host program. *)

(* It sets an entry of a map or an item of a slice it can reach, *)
HostWrites(addr, key, value) ==
  /\ MayStep /\ writes < MaxWrites
  /\ heap[addr].type \in SliceTypes => key \in DOMAIN heap[addr].items
  /\ Fits(heap[addr].type, value)
  /\ heap' = [heap EXCEPT ![addr].items =
                [k \in DOMAIN @ \cup {key} |-> IF k = key THEN value ELSE @[k]]]
  /\ writes' = writes + 1
  /\ UNCHANGED <<held, stored, exports>>

(* or deletes an entry of a map. *)
HostDeletes(addr, key) ==
  /\ MayStep /\ writes < MaxWrites
  /\ heap[addr].type \in MapTypes
  /\ heap' = [heap EXCEPT ![addr].items = [k \in (DOMAIN @) \ {key} |-> @[k]]]
  /\ writes' = writes + 1
  /\ UNCHANGED <<held, stored, exports>>

WrittenKeys(type) == IF type \in MapTypes THEN {"a", "b"} ELSE {"0", "1"}

Next ==
  \/ \E data \in HostValues, time \in Times : NewDeterministicContext(data, time)
  \/ \E value \in HostValues, plain \in {"object", "list"} : NormalizeEvaluationResult(value, plain)
  \/ \E n \in Contexts : \E value \in Exportable(n) : Export(value)
  \/ \E addr \in HostAddresses : \E key \in WrittenKeys(heap[addr].type) :
       \/ \E value \in HostValues : HostWrites(addr, key, value)
       \/ key \in DOMAIN heap[addr].items /\ HostDeletes(addr, key)

Spec == Init /\ [][Next]_vars
-----------------------------------------------------------------------------
(* Type invariant: no reference dangles, elements have their type, and what *)
(* a context or a kept result consists of starts with a map or slice.       *)
TypeOK ==
  /\ WellFormed(heap)
  /\ held \subseteq Values(heap)
  /\ \A n \in DOMAIN stored : IsObject(stored[n].data) /\ stored[n].data \in Values(heap)

(* No object is shared: nothing that a context or a kept result consists of *)
(* can be reached by the host program, through its own data or through the  *)
(* copies it was given, nor from another context or result.                 *)
Isolated ==
  \A n \in DOMAIN stored :
    LET own == Reach(heap, {stored[n].data})
    IN  /\ own \cap HostAddresses = {}
        /\ \A m \in DOMAIN stored \ {n} : own \cap Reach(heap, {stored[m].data}) = {}

(* A context, and a kept result, never changes again: neither its verdict   *)
(* and commitment nor one of the objects it consists of, whatever the host  *)
(* program writes to what it handed in or got out.                          *)
ContextsImmutable ==
  [][\A n \in DOMAIN stored :
       /\ stored'[n] = stored[n]
       /\ \A a \in Reach(heap, {stored[n].data}) : heap'[a] = heap[a]]_vars

(* The copies that Data, Get and GetItem answer say what the context says.  *)
(* deepCopy drops the errors of the cloner: of a valid context there are    *)
(* none, and with issues what was put in the place of a value that is too   *)
(* deep may be too deep again, and is replaced by the same.                 *)
ExportsFaithful ==
  \A n \in Contexts : \A value \in Exportable(n) :
    LET copy == DeepCopy(heap, value, ExportAddress(exports + 1))
    IN  /\ Unfold(copy.objects, copy.value) = Unfold(heap, value)
        /\ stored[n].issues = {} => copy.issues = {}

(* A valid context is, for ever, what core/formal_semantics.go specifies: at *)
(* every key it answers what the data said when the context was made,       *)
(* although the host program shares, changes and deletes that data.         *)
MeetsSpecification ==
  \A n \in Contexts : \A key \in ToSet(KeyOrder) :
    stored[n].issues = {} => Get(n, key) = SpecGet(stored[n].given, key)

(* "invalid values are excluded, valid siblings are retained, and the error *)
(* is never silently discarded": a context has issues exactly when some     *)
(* path of its data is not sound, and at every path it holds what was there *)
(* at that moment, nothing for an unsound entry and a zero for an unsound   *)
(* item, with references that are merely shared copied like all others.     *)
ConstructionExact ==
  [][\A n \in DOMAIN stored' \ DOMAIN stored :
       (stored'[n].kind = "context" /\ IsObject(stored'[n].source)) =>
         LET source == stored'[n].source
             data   == stored'[n].data
             paths  == PathsOf(heap, source, ContextDepth + 1)
         IN  /\ stored'[n].issues = {} <=> \A path \in paths : Sound(heap, source, path)
             /\ \A path \in paths \cup PathsOf(heap', data, ContextDepth + 1) :
                  Alike(ValueAt(heap', data, path), Retained(heap, source, path))]_vars

(* What the snapshot of a result has in the place of a value. *)
PlainForm(v) ==
  IF v.type \notin Containers THEN v
  ELSE Ref(IF v.type \in MapTypes THEN "object" ELSE "list", StoredAddress(0))

(* A kept result has the shape of what the primitive answered, at every     *)
(* path, in plain maps and slices; nothing of it is lost.                   *)
SnapshotExact ==
  [][\A n \in DOMAIN stored' \ DOMAIN stored :
       stored'[n].kind = "result" =>
         LET source == stored'[n].source
             data   == stored'[n].data
         IN  \A path \in PathsOf(heap, source, PrimitiveDepth + 1)
                           \cup PathsOf(heap', data, PrimitiveDepth + 1) :
               Alike(ValueAt(heap', data, path), PlainForm(ValueAt(heap, source, path)))]_vars

TreeOf(n) == Unfold(heap, stored[n].data)

(* The canonical form tells everything apart: contexts with one commitment  *)
(* have one logical time and the same content, type by type, and results    *)
(* that the engine takes for repeated are the same.                         *)
CanonicalFormBinds ==
  \A m \in DOMAIN stored : \A n \in DOMAIN stored \ {m} :
    LET same == TreeOf(m) = TreeOf(n)
    IN  /\ WriteCanonicalValue(TreeOf(m)) = WriteCanonicalValue(TreeOf(n)) => same
        /\ ({m, n} \subseteq Contexts /\ stored[m].issues = {} /\ stored[n].issues = {})
             => (stored[m].commitment = stored[n].commitment
                  <=> stored[m].time = stored[n].time /\ same)

(* The stored form of a proof is faithful: the generator's encoding is what *)
(* the verifier accepts and clones unchanged, and no two contents have the  *)
(* same.                                                                    *)
EncodingBinds ==
  \A m \in DOMAIN stored :
    LET encoded == EncodeProofRoot(TreeOf(m))
    IN  encoded # NoTree =>
          /\ CloneStored(encoded) = encoded
          /\ \A n \in DOMAIN stored \ {m} :
               encoded = EncodeProofRoot(TreeOf(n)) => TreeOf(m) = TreeOf(n)

(* What the README says of the proof generator, "Produces structured,       *)
(* tamper-evident proof envelopes for every evaluation": a context that is  *)
(* valid can be stored in the proof of an evaluation.                       *)
ContextProvable ==
  \A n \in Contexts : stored[n].issues = {} => EncodeProofRoot(TreeOf(n)) # NoTree
=============================================================================
