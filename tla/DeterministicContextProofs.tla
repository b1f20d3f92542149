---------------------- MODULE DeterministicContextProofs ----------------------
(***************************************************************************)
(* Contexts and kept results, for every heap the host program builds and   *)
(* every depth: no object of theirs is shared, they never change, they are *)
(* what their data was, and what is handed out of them says the same.      *)
(***************************************************************************)
EXTENDS DeterministicContext, PlainValuesProofs

-----------------------------------------------------------------------------
(* Reach is the least set of addresses that holds what the values refer to   *)
(* and everything its objects refer to.                                      *)

LEMMA OnwardFacts ==
  ASSUME NEW h, WellFormed(h), NEW K \in SUBSET DOMAIN h
  PROVE  /\ K \subseteq Onward(h, K)
         /\ Onward(h, K) \subseteq DOMAIN h
         /\ Onward(h, K) = K => Closed(h, K)
         /\ \A C : Closed(h, C) /\ K \subseteq C => Onward(h, K) \subseteq C
<1>1. \A b : b \in Onward(h, K) <=>
        b \in K \/ (\E a \in K : \E k \in DOMAIN h[a].items :
                      IsObject(h[a].items[k]) /\ b = h[a].items[k].addr)
  BY DEF Onward, Addressed, Contents
<1>2. \A a \in DOMAIN h : \A k \in DOMAIN h[a].items :
        IsObject(h[a].items[k]) => h[a].items[k].addr \in DOMAIN h
  BY ObjectsOfValues DEF WellFormed
<1> QED BY <1>1, <1>2 DEF Closed

ReachEquation(h, f, sets) ==
  f = [K \in sets |-> IF Onward(h, K) = K THEN K ELSE f[Onward(h, K)]]
ReachFunction(h) == CHOOSE f : ReachEquation(h, f, SUBSET DOMAIN h)

(* The sets that leave at most n addresses out. *)
Rest(h, n) == {K \in SUBSET DOMAIN h : Cardinality(DOMAIN h \ K) <= n}

LEMMA RestShrinks ==
  ASSUME NEW h, WellFormed(h), IsFiniteSet(DOMAIN h), NEW n \in Nat,
         NEW K \in Rest(h, n + 1), Onward(h, K) # K
  PROVE  Onward(h, K) \in Rest(h, n)
<1>1. K \in SUBSET DOMAIN h /\ K \subseteq Onward(h, K) /\ Onward(h, K) \subseteq DOMAIN h
  BY OnwardFacts DEF Rest
<1> DEFINE A == DOMAIN h \ K
           B == DOMAIN h \ Onward(h, K)
<1>2. IsFiniteSet(A) /\ B \subseteq A /\ B # A
  <2>1. IsFiniteSet(A)
    BY FS_Subset
  <2> QED BY <1>1, <2>1
<1>3. Cardinality(B) < Cardinality(A) /\ Cardinality(A) \in Nat /\ Cardinality(B) \in Nat
  <2> HIDE DEF A, B
  <2> QED BY <1>2, FS_Subset, FS_CardinalityType
<1>4. Cardinality(A) <= n + 1
  BY DEF Rest
<1> QED BY <1>1, <1>3, <1>4 DEF Rest

LEMMA RestOfNothing ==
  ASSUME NEW h, WellFormed(h), IsFiniteSet(DOMAIN h), NEW K \in Rest(h, 0)
  PROVE  Onward(h, K) = K
<1>1. K \in SUBSET DOMAIN h /\ K \subseteq Onward(h, K) /\ Onward(h, K) \subseteq DOMAIN h
  BY OnwardFacts DEF Rest
<1>2. IsFiniteSet(DOMAIN h \ K) /\ Cardinality(DOMAIN h \ K) <= 0
  BY FS_Subset DEF Rest
<1>3. Cardinality(DOMAIN h \ K) = 0
  BY <1>2, FS_CardinalityType
<1>4. DOMAIN h \ K = {}
  BY <1>2, <1>3, FS_EmptySet
<1> QED BY <1>1, <1>4

LEMMA RestIsAll ==
  ASSUME NEW h, IsFiniteSet(DOMAIN h)
  PROVE  \E n \in Nat : Rest(h, n) = SUBSET DOMAIN h
<1>1. Cardinality(DOMAIN h) \in Nat
  BY FS_CardinalityType
<1>2. ASSUME NEW K \in SUBSET DOMAIN h PROVE Cardinality(DOMAIN h \ K) <= Cardinality(DOMAIN h)
  BY FS_Subset
<1> QED BY <1>1, <1>2 DEF Rest

LEMMA ReachExists ==
  ASSUME NEW h, WellFormed(h), IsFiniteSet(DOMAIN h)
  PROVE  \E f : ReachEquation(h, f, SUBSET DOMAIN h)
<1> DEFINE S == {n \in Nat : \E f : ReachEquation(h, f, Rest(h, n))}
<1>1. 0 \in S
  <2> DEFINE f == [K \in Rest(h, 0) |-> K]
  <2>1. ReachEquation(h, f, Rest(h, 0))
    BY RestOfNothing DEF ReachEquation
  <2> HIDE DEF f
  <2> QED BY <2>1
<1>2. ASSUME NEW n \in Nat, n \in S PROVE n + 1 \in S
  <2>1. PICK f : ReachEquation(h, f, Rest(h, n))
    BY <1>2
  <2> DEFINE g == [K \in Rest(h, n + 1) |-> IF Onward(h, K) = K THEN K ELSE f[Onward(h, K)]]
  <2>2. \A K \in Rest(h, n) : K \in Rest(h, n + 1) /\ g[K] = f[K]
    <3>1. ASSUME NEW K \in Rest(h, n) PROVE K \in Rest(h, n + 1)
      <4>1. IsFiniteSet(DOMAIN h \ K)
        BY FS_Subset
      <4>2. Cardinality(DOMAIN h \ K) \in Nat
        BY <4>1, FS_CardinalityType
      <4> QED BY <4>2 DEF Rest
    <3> QED BY <2>1, <3>1 DEF ReachEquation
  <2>3. ASSUME NEW K \in Rest(h, n + 1), Onward(h, K) # K
        PROVE  g[Onward(h, K)] = f[Onward(h, K)]
    <3>1. Onward(h, K) \in Rest(h, n)
      BY <2>3, RestShrinks
    <3> QED BY <2>2, <3>1
  <2>4. ReachEquation(h, g, Rest(h, n + 1))
    BY <2>3 DEF ReachEquation
  <2> HIDE DEF g
  <2> QED BY <2>4
<1>3. Nat \subseteq S
  <2> HIDE DEF S
  <2> QED BY <1>1, <1>2, Induction
<1>4. PICK n \in Nat : Rest(h, n) = SUBSET DOMAIN h
  BY RestIsAll
<1>5. n \in S
  BY <1>3
<1> QED BY <1>4, <1>5

Reached(h, f, K) ==
  /\ K \subseteq f[K]
  /\ Closed(h, f[K])
  /\ \A C : Closed(h, C) /\ K \subseteq C => f[K] \subseteq C

LEMMA ReachedByAll ==
  ASSUME NEW h, WellFormed(h), IsFiniteSet(DOMAIN h), NEW K \in SUBSET DOMAIN h
  PROVE  Reached(h, ReachFunction(h), K)
<1> DEFINE f == ReachFunction(h)
           S == {n \in Nat : \A L \in Rest(h, n) : Reached(h, f, L)}
<1>1. \A L \in SUBSET DOMAIN h : f[L] = IF Onward(h, L) = L THEN L ELSE f[Onward(h, L)]
  <2>1. f = [L \in SUBSET DOMAIN h |-> IF Onward(h, L) = L THEN L ELSE f[Onward(h, L)]]
    BY ReachExists DEF ReachFunction, ReachEquation
  <2> HIDE DEF f
  <2> QED BY <2>1
<1> HIDE DEF f
<1>2. ASSUME NEW L \in SUBSET DOMAIN h, Onward(h, L) = L PROVE Reached(h, f, L)
  BY <1>1, <1>2, OnwardFacts DEF Reached
<1>3. ASSUME NEW L \in SUBSET DOMAIN h, Onward(h, L) # L, Reached(h, f, Onward(h, L))
      PROVE  Reached(h, f, L)
  <2>1. f[L] = f[Onward(h, L)]
    BY <1>1, <1>3
  <2>2. L \subseteq Onward(h, L) /\ \A C : Closed(h, C) /\ L \subseteq C => Onward(h, L) \subseteq C
    BY OnwardFacts
  <2> QED BY <1>3, <2>1, <2>2 DEF Reached
<1>4. 0 \in S
  BY <1>2, RestOfNothing DEF Rest
<1>5. ASSUME NEW n \in Nat, n \in S PROVE n + 1 \in S
  <2> SUFFICES ASSUME NEW L \in Rest(h, n + 1) PROVE Reached(h, f, L)
    OBVIOUS
  <2>1. L \in SUBSET DOMAIN h
    BY DEF Rest
  <2>2. CASE Onward(h, L) = L
    BY <1>2, <2>1, <2>2
  <2>3. CASE Onward(h, L) # L
    <3>1. Reached(h, f, Onward(h, L))
      BY <1>5, <2>3, RestShrinks
    <3> QED BY <1>3, <2>1, <2>3, <3>1
  <2> QED BY <2>2, <2>3
<1>6. Nat \subseteq S
  <2> HIDE DEF S
  <2> QED BY <1>4, <1>5, Induction
<1> QED BY <1>6, RestIsAll DEF f

LEMMA ReachIsLeast ==
  ASSUME NEW h, WellFormed(h), IsFiniteSet(DOMAIN h), NEW values \in SUBSET Values(h)
  PROVE  /\ Addressed(values) \subseteq Reach(h, values)
         /\ Closed(h, Reach(h, values))
         /\ \A C : Closed(h, C) /\ Addressed(values) \subseteq C => Reach(h, values) \subseteq C
<1>1. Addressed(values) \in SUBSET DOMAIN h
  BY ObjectsOfValues DEF Addressed
<1>2. Reach(h, values) = ReachFunction(h)[Addressed(values)]
  BY DEF Reach, ReachFunction, ReachEquation
<1>3. Reached(h, ReachFunction(h), Addressed(values))
  BY <1>1, ReachedByAll
<1> QED BY <1>2, <1>3 DEF Reached

-----------------------------------------------------------------------------
(* Growing sequences. *)

IsSeq(s) == \E S : s \in Seq(S)

LEMMA AppendFacts ==
  ASSUME NEW s, IsSeq(s), NEW e
  PROVE  /\ IsSeq(Append(s, e))
         /\ Len(s) \in Nat /\ Len(Append(s, e)) = Len(s) + 1
         /\ DOMAIN s = 1..Len(s) /\ DOMAIN Append(s, e) = 1..(Len(s) + 1)
         /\ \A i \in DOMAIN s : Append(s, e)[i] = s[i]
         /\ Append(s, e)[Len(s) + 1] = e
<1>1. PICK S : s \in Seq(S)
  BY DEF IsSeq
<1>2. s \in Seq(S \cup {e}) /\ e \in S \cup {e}
  BY <1>1
<1>3. Append(s, e) \in Seq(S \cup {e})
  BY <1>2
<1> QED BY <1>2, <1>3 DEF IsSeq

-----------------------------------------------------------------------------
(* The inductive invariant.  The heap falls apart into sides: that of the    *)
(* host program, which has its own data and the copies it was given, and one *)
(* for each context and kept result.  No object refers to one of another     *)
(* side, and the host program holds nothing of any side but its own.         *)

Side(a) == IF a.owner = "stored" THEN a.n ELSE 0

Known ==
  /\ IsFiniteSet(DOMAIN heap)
  /\ IsSeq(stored)
  /\ exports \in Nat
  /\ \A a \in DOMAIN heap :
       /\ a.owner = "stored" => a.n \in DOMAIN stored
       /\ a.owner = "export" => a.n \in 1..exports

Partitioned ==
  \A a \in DOMAIN heap : \A k \in DOMAIN heap[a].items :
    IsObject(heap[a].items[k]) => Side(heap[a].items[k].addr) = Side(a)

HeldByHost == \A v \in held : IsObject(v) => Side(v.addr) = 0

StoredApart == \A n \in DOMAIN stored : Side(stored[n].data.addr) = n

SidesInv == TypeOK /\ Known /\ Partitioned /\ HeldByHost /\ StoredApart

Region(n) == {a \in DOMAIN heap : Side(a) = n}

LEMMA RegionsAreClosed ==
  ASSUME SidesInv, NEW n
  PROVE  Closed(heap, Region(n))
<1>1. \A a \in DOMAIN heap : \A k \in DOMAIN heap[a].items :
        IsObject(heap[a].items[k]) => heap[a].items[k].addr \in DOMAIN heap
  BY ObjectsOfValues DEF SidesInv, TypeOK, WellFormed
<1> QED BY <1>1 DEF Closed, Region, SidesInv, Partitioned

LEMMA HostReachesItsSide ==
  ASSUME SidesInv
  PROVE  /\ HostAddresses \subseteq Region(0)
         /\ HostValues \subseteq Values(heap)
         /\ \A v \in HostValues : IsObject(v) => Side(v.addr) = 0
<1>1. WellFormed(heap) /\ IsFiniteSet(DOMAIN heap) /\ held \in SUBSET Values(heap)
  BY DEF SidesInv, TypeOK, Known
<1>2. Addressed(held) \subseteq Region(0)
  BY <1>1, ObjectsOfValues DEF Addressed, Region, SidesInv, HeldByHost
<1>3. HostAddresses \subseteq Region(0)
  BY <1>1, <1>2, RegionsAreClosed, ReachIsLeast DEF HostAddresses
<1>4. \A a \in HostAddresses : Ref(heap[a].type, a) \in Values(heap)
  BY <1>3 DEF Region, Values
<1>5. \A v \in Written : v \in Values(heap) /\ ~IsObject(v)
  <2>1. \A v \in Scalars : ~IsObject(v)
    BY ScalarValues DEF IsObject
  <2>2. \A v \in PlainNils : ~IsObject(v)
    <3> SUFFICES ASSUME NEW t \in Containers PROVE ~IsObject(Ref(t, NoAddress))
      BY DEF PlainNils
    <3> QED BY DEF Ref, IsObject
  <2> QED BY <2>1, <2>2, WrittenAssumption DEF Values
<1>6. \A a \in HostAddresses : Side(Ref(heap[a].type, a).addr) = 0
  <2> SUFFICES ASSUME NEW a \in HostAddresses PROVE Side(Ref(heap[a].type, a).addr) = 0
    OBVIOUS
  <2>1. Ref(heap[a].type, a).addr = a
    BY DEF Ref
  <2> QED BY <1>3, <2>1 DEF Region
<1> QED BY <1>3, <1>4, <1>5, <1>6 DEF HostValues

LEMMA StoredReachesItsSide ==
  ASSUME SidesInv, NEW n \in DOMAIN stored
  PROVE  Reach(heap, {stored[n].data}) \subseteq Region(n)
<1>1. WellFormed(heap) /\ IsFiniteSet(DOMAIN heap) /\ {stored[n].data} \in SUBSET Values(heap)
  BY DEF SidesInv, TypeOK, Known
<1>2. Addressed({stored[n].data}) \subseteq Region(n)
  BY <1>1, ObjectsOfValues DEF Addressed, Region, SidesInv, StoredApart
<1> QED BY <1>1, <1>2, RegionsAreClosed, ReachIsLeast

LEMMA SidesGiveIsolation ==
  SidesInv => Isolated
<1> SUFFICES ASSUME SidesInv PROVE Isolated
  OBVIOUS
<1>1. \A n \in DOMAIN stored : n # 0
  <2>1. DOMAIN stored = 1..Len(stored) /\ Len(stored) \in Nat
    BY AppendFacts DEF SidesInv, Known
  <2> QED BY <2>1
<1> QED BY <1>1, HostReachesItsSide, StoredReachesItsSide DEF Isolated, Region

-----------------------------------------------------------------------------
(* What the constructors and the accessors make of a value. *)

LEMMA DeepCopyIsACopy ==
  ASSUME NEW h, WellFormed(h), NEW v \in Values(h), NEW at \in Addresses
  PROVE  Copy(at, DeepCopy(h, v, at))
<1>1. ClonedCopy(h, Start(v, at, 0), CloneFunction(h)[Start(v, at, 0)]) /\ Start(v, at, 0).at = at
  BY StartIsPlace, ClonesAreCopies
<1> QED BY <1>1, CloneWalks DEF DeepCopy, ClonedCopy

LEMMA NewMapIsACopy ==
  ASSUME NEW at \in Addresses
  PROVE  NewObject(at, "object", <<>>, <<>>, Allocated(at, "object", <<>>, <<>>))
<1>1. ItemsOf("object", <<>>, <<>>)
  BY DEF ItemsOf, Packed, SliceTypes
<1>2. "object" \in Containers
  BY DEF Containers, MapTypes
<1> QED BY <1>1, <1>2, AllocatedIsACopy

LEMMA ContextDataIsACopy ==
  ASSUME NEW h, WellFormed(h), NEW v \in Values(h), v.type = "object", NEW at \in Addresses
  PROVE  LET c == CloneContextData(h, v, at)
         IN  Copy(at, c) /\ IsObject(c.value) /\ c.value.type = "object"
<1> DEFINE c == CloneContextData(h, v, at)
           p == Start(v, at, 0)
           f == CloneFunction(h)
<1>1. CASE ~IsObject(v)
  <2>1. c = Allocated(at, "object", <<>>, <<>>)
    BY <1>1 DEF CloneContextData
  <2>2. Copy(at, c) /\ c.value = Ref("object", at)
    BY <2>1, NewMapIsACopy DEF NewObject
  <2>3. IsObject(Ref("object", at)) /\ Ref("object", at).type = "object"
    BY AddressesAreReal DEF Ref, IsObject, Containers, MapTypes
  <2> QED BY <2>2, <2>3
<1>2. CASE IsObject(v)
  <2>1. p \in Places(h) /\ p.value = v /\ p.at = at /\ p.depth = 0 /\ p.active = {}
    BY StartIsPlace
  <2>2. c = f[p] /\ f[p] = CloneValue(h, f, p)
    BY <1>2, <2>1, CloneWalks DEF CloneContextData
  <2>3. Copy(at, c)
    BY <2>1, <2>2, ClonesAreCopies DEF ClonedCopy
  <2>4. c.value = Ref("object", at)
    <3>1. ~(p.depth > ContextDepth) /\ v \notin Unsupported /\ v.addr \notin p.active
      BY <2>1, DepthConstants DEF Unsupported, Scalar
    <3> DEFINE children == [k \in DOMAIN Items(h, v) |-> f[Down(h, p, k)]]
    <3>2. c = Allocated(at, "object", ClonedItems("object", children), children)
      BY <1>2, <2>1, <2>2, <3>1 DEF CloneValue
    <3> HIDE DEF children, c
    <3> QED BY <3>2 DEF Allocated
  <2>5. IsObject(Ref("object", at)) /\ Ref("object", at).type = "object"
    BY AddressesAreReal DEF Ref, IsObject, Containers, MapTypes
  <2> QED BY <2>3, <2>4, <2>5
<1> QED BY <1>1, <1>2

LEMMA ResultDataIsACopy ==
  ASSUME NEW h, WellFormed(h), NEW v \in Values(h), NEW at \in Addresses
  PROVE  LET c == Snapshot(h, v, at)
         IN  Copy(at, c) /\ (c.keep /\ c.value.type \in {"object", "list"} => IsObject(c.value))
<1>1. SnapshotCopy(Start(v, at, 0), SnapshotFunction(h)[Start(v, at, 0)]) /\ Start(v, at, 0).at = at
  BY StartIsPlace, SnapshotsAreCopies
<1>2. "object" \in Containers /\ "list" \in Containers
  BY DEF Containers, MapTypes, SliceTypes
<1> QED BY <1>1, <1>2, SnapshotWalks DEF SnapshotCopy

-----------------------------------------------------------------------------
(* The invariant is kept. *)

LEMMA SidesOfACopy ==
  ASSUME NEW at \in Addresses, NEW c, Copy(at, c)
  PROVE  /\ \A a \in DOMAIN c.objects : Side(a) = Side(at) /\ a.owner = at.owner /\ a.n = at.n
         /\ \A a \in DOMAIN c.objects : \A k \in DOMAIN c.objects[a].items :
              IsObject(c.objects[a].items[k]) => Side(c.objects[a].items[k].addr) = Side(at)
         /\ IsObject(c.value) => Side(c.value.addr) = Side(at)
<1>1. \A a \in DOMAIN c.objects : Side(a) = Side(at) /\ a.owner = at.owner /\ a.n = at.n
  BY DEF Copy, Inside, Side
<1>2. ASSUME NEW a \in DOMAIN c.objects, NEW k \in DOMAIN c.objects[a].items, IsObject(c.objects[a].items[k])
      PROVE  c.objects[a].items[k].addr \in DOMAIN c.objects
  <2>1. WellFormed(c.objects) /\ c.objects[a].items[k] \in Values(c.objects)
    BY DEF Copy, WellFormed
  <2> QED BY <1>2, <2>1, ObjectsOfValues
<1>3. IsObject(c.value) => c.value.addr = at
  BY DEF Copy
<1> QED BY <1>1, <1>2, <1>3

(* A copy comes to the heap. *)
CopyMade(at, c) == Copy(at, c) /\ heap' = Extended(heap, c.objects)

LEMMA CopyKeepsHeap ==
  ASSUME SidesInv, NEW at \in Addresses, Fresh(heap, at), NEW c, CopyMade(at, c)
  PROVE  /\ WellFormed(heap')
         /\ IsFiniteSet(DOMAIN heap')
         /\ Values(heap) \subseteq Values(heap') /\ c.value \in Values(heap')
         /\ \A a \in DOMAIN heap : a \in DOMAIN heap' /\ heap'[a] = heap[a]
         /\ \A a \in DOMAIN heap' : a \in DOMAIN heap \/ (a.owner = at.owner /\ a.n = at.n)
         /\ \A a \in DOMAIN heap' : \A k \in DOMAIN heap'[a].items :
              IsObject(heap'[a].items[k]) => Side(heap'[a].items[k].addr) = Side(a)
<1> DEFINE E == Extended(heap, c.objects)
<1>0. WellFormed(heap) /\ Copy(at, c) /\ heap' = E /\ IsFiniteSet(DOMAIN heap)
  BY DEF SidesInv, TypeOK, Known, CopyMade
<1>1. /\ WellFormed(E)
      /\ DOMAIN E = DOMAIN heap \cup DOMAIN c.objects
      /\ \A a \in DOMAIN heap : E[a] = heap[a]
      /\ \A a \in DOMAIN c.objects : E[a] = c.objects[a]
      /\ Values(heap) \subseteq Values(E)
      /\ Values(c.objects) \subseteq Values(E)
      /\ IsFiniteSet(DOMAIN E)
  <2>1. Grown(heap, c, E)
    BY <1>0, ExtendedHeap
  <2> QED BY <1>0, <2>1 DEF Grown
<1>2. c.value \in Values(E)
  BY <1>0, <1>1 DEF Copy
<1>3. \A a \in DOMAIN E : a \in DOMAIN heap \/ (a.owner = at.owner /\ a.n = at.n)
  BY <1>0, <1>1, SidesOfACopy
<1>4. ASSUME NEW a \in DOMAIN E, NEW k \in DOMAIN E[a].items, IsObject(E[a].items[k])
      PROVE  Side(E[a].items[k].addr) = Side(a)
  <2>1. CASE a \in DOMAIN heap
    BY <1>1, <1>4, <2>1 DEF SidesInv, Partitioned
  <2>2. CASE a \in DOMAIN c.objects
    BY <1>0, <1>1, <1>4, <2>2, SidesOfACopy
  <2> QED BY <1>1, <2>1, <2>2
<1> HIDE DEF E
<1> QED BY <1>0, <1>1, <1>2, <1>3, <1>4

LEMMA StoreKeepsInv ==
  ASSUME SidesInv, NEW r, NEW c, CopyMade(StoredAddress(Len(stored) + 1), c),
         IsObject(c.value), r.data = c.value,
         stored' = Append(stored, r), UNCHANGED <<held, exports>>
  PROVE  /\ SidesInv'
         /\ \A a \in DOMAIN heap : heap'[a] = heap[a]
         /\ \A n \in DOMAIN stored : stored'[n] = stored[n]
<1> DEFINE at == StoredAddress(Len(stored) + 1)
<1>1. /\ IsSeq(stored') /\ Len(stored) \in Nat
      /\ DOMAIN stored = 1..Len(stored) /\ DOMAIN stored' = 1..(Len(stored) + 1)
      /\ \A i \in DOMAIN stored : stored'[i] = stored[i]
      /\ stored'[Len(stored) + 1] = r
  BY AppendFacts DEF SidesInv, Known
<1>2. at \in Addresses /\ at.owner = "stored" /\ at.n = Len(stored) + 1
  BY <1>1 DEF StoredAddress, Addresses
<1>3. Fresh(heap, at)
  BY <1>1, <1>2 DEF Fresh, SidesInv, Known
<1>4. /\ WellFormed(heap')
      /\ IsFiniteSet(DOMAIN heap')
      /\ Values(heap) \subseteq Values(heap') /\ c.value \in Values(heap')
      /\ \A a \in DOMAIN heap : a \in DOMAIN heap' /\ heap'[a] = heap[a]
      /\ \A a \in DOMAIN heap' : a \in DOMAIN heap \/ (a.owner = at.owner /\ a.n = at.n)
      /\ \A a \in DOMAIN heap' : \A k \in DOMAIN heap'[a].items :
           IsObject(heap'[a].items[k]) => Side(heap'[a].items[k].addr) = Side(a)
  BY <1>2, <1>3, CopyKeepsHeap
<1>5. Side(c.value.addr) = Len(stored) + 1
  <2>1. Side(at) = Len(stored) + 1
    BY <1>2 DEF Side
  <2> QED BY <1>2, <2>1, SidesOfACopy DEF CopyMade
<1> HIDE DEF at
<1>6. \A n \in DOMAIN stored' : n \in DOMAIN stored \/ n = Len(stored) + 1
  BY <1>1
<1>7. TypeOK'
  <2>1. \A n \in DOMAIN stored : IsObject(stored[n].data) /\ stored[n].data \in Values(heap)
    BY DEF SidesInv, TypeOK
  <2>2. held \subseteq Values(heap)
    BY DEF SidesInv, TypeOK
  <2> QED BY <1>1, <1>4, <1>6, <2>1, <2>2 DEF TypeOK
<1>8. Known'
  BY <1>1, <1>2, <1>4 DEF SidesInv, Known
<1>9. Partitioned'
  BY <1>4 DEF Partitioned
<1>10. HeldByHost'
  BY DEF SidesInv, HeldByHost
<1>11. StoredApart'
  BY <1>1, <1>5, <1>6 DEF SidesInv, StoredApart
<1> QED BY <1>1, <1>4, <1>7, <1>8, <1>9, <1>10, <1>11 DEF SidesInv

LEMMA InitHasSides ==
  Init => SidesInv
<1> SUFFICES ASSUME Init PROVE SidesInv
  OBVIOUS
<1>1. /\ IsFiniteSet(DOMAIN heap) /\ WellFormed(heap)
      /\ \A a \in DOMAIN heap : a.owner = "host"
  BY HeapsAssumption DEF Init
<1>2. held \subseteq Values(heap)
  BY DEF Init, Values
<1>3. stored = <<>> /\ DOMAIN stored = {} /\ exports = 0
  BY DEF Init
<1>4. \A a \in DOMAIN heap : Side(a) = 0
  BY <1>1 DEF Side
<1>5. TypeOK
  BY <1>1, <1>2, <1>3 DEF TypeOK
<1>6. Known
  <2>1. IsSeq(stored)
    BY <1>3 DEF IsSeq
  <2> QED BY <1>1, <1>3, <2>1 DEF Known
<1>7. Partitioned
  <2> SUFFICES ASSUME NEW a \in DOMAIN heap, NEW k \in DOMAIN heap[a].items, IsObject(heap[a].items[k])
               PROVE  Side(heap[a].items[k].addr) = Side(a)
    BY DEF Partitioned
  <2>1. heap[a].items[k] \in Values(heap)
    BY <1>1 DEF WellFormed
  <2> QED BY <1>1, <1>4, <2>1, ObjectsOfValues
<1>8. HeldByHost
  BY <1>1, <1>2, <1>4, ObjectsOfValues DEF HeldByHost
<1>9. StoredApart
  BY <1>3 DEF StoredApart
<1> QED BY <1>5, <1>6, <1>7, <1>8, <1>9 DEF SidesInv

(* What every step keeps of the contexts and the kept results: their record, *)
(* and the objects of their side.                                            *)
SidesStay ==
  \A n \in DOMAIN stored :
    stored'[n] = stored[n] /\ \A a \in Region(n) : heap'[a] = heap[a]

LEMMA NewContextKeepsInv ==
  ASSUME SidesInv, NEW data \in HostValues, NEW time, NewDeterministicContext(data, time)
  PROVE  SidesInv' /\ SidesStay
<1> DEFINE at == StoredAddress(Len(stored) + 1)
           c == CloneContextData(heap, data, at)
           r == BuildDeterministicContext(heap, data, time, at)
<1>1. WellFormed(heap) /\ data \in Values(heap) /\ data.type = "object"
  BY HostReachesItsSide DEF SidesInv, TypeOK, NewDeterministicContext
<1>2. at \in Addresses
  BY AppendFacts DEF SidesInv, Known, StoredAddress, Addresses
<1>3. Copy(at, c) /\ IsObject(c.value)
  BY <1>1, <1>2, ContextDataIsACopy
<1>4. r.data = c.value
  BY DEF BuildDeterministicContext
<1>5. stored' = Append(stored, r) /\ heap' = Extended(heap, c.objects) /\ UNCHANGED <<held, exports>>
  BY DEF NewDeterministicContext
<1> HIDE DEF c, r
<1>6. CopyMade(at, c)
  BY <1>3, <1>5 DEF CopyMade
<1>7. /\ SidesInv'
      /\ \A a \in DOMAIN heap : heap'[a] = heap[a]
      /\ \A n \in DOMAIN stored : stored'[n] = stored[n]
  BY <1>3, <1>4, <1>5, <1>6, StoreKeepsInv
<1> QED BY <1>7 DEF SidesStay, Region

LEMMA ResultKeepsInv ==
  ASSUME SidesInv, NEW value \in HostValues, NEW plain \in {"object", "list"},
         NormalizeEvaluationResult(value, plain)
  PROVE  SidesInv' /\ SidesStay
<1> DEFINE at == StoredAddress(Len(stored) + 1)
           c == Snapshot(heap, value, at)
           r == [kind |-> "result", data |-> c.value, time |-> 0, issues |-> {},
                 commitment |-> <<>>, source |-> value, given |-> NoTree]
<1>1. WellFormed(heap) /\ value \in Values(heap)
  BY HostReachesItsSide DEF SidesInv, TypeOK
<1>2. at \in Addresses
  BY AppendFacts DEF SidesInv, Known, StoredAddress, Addresses
<1>3. Copy(at, c) /\ (c.keep /\ c.value.type \in {"object", "list"} => IsObject(c.value))
  BY <1>1, <1>2, ResultDataIsACopy
<1>4. r.data = c.value
  OBVIOUS
<1>5. /\ stored' = Append(stored, r) /\ heap' = Extended(heap, c.objects)
      /\ UNCHANGED <<held, exports>> /\ c.keep /\ c.value.type = plain
  BY DEF NormalizeEvaluationResult
<1> HIDE DEF c, r
<1>6. CopyMade(at, c) /\ IsObject(c.value)
  BY <1>3, <1>5 DEF CopyMade
<1>7. /\ SidesInv'
      /\ \A a \in DOMAIN heap : heap'[a] = heap[a]
      /\ \A n \in DOMAIN stored : stored'[n] = stored[n]
  BY <1>4, <1>5, <1>6, StoreKeepsInv
<1> QED BY <1>7 DEF SidesStay, Region

LEMMA ExportableIsThere ==
  ASSUME SidesInv, NEW n \in DOMAIN stored, NEW value \in Exportable(n)
  PROVE  value \in Values(heap)
<1>1. WellFormed(heap) /\ stored[n].data \in Values(heap) /\ IsObject(stored[n].data)
  BY DEF SidesInv, TypeOK
<1>2. stored[n].data.addr \in DOMAIN heap
  BY <1>1, ObjectsOfValues
<1> QED BY <1>1, <1>2 DEF Exportable, WellFormed

LEMMA ExportKeepsInv ==
  ASSUME SidesInv, NEW n \in Contexts, NEW value \in Exportable(n), Export(value)
  PROVE  SidesInv' /\ SidesStay
<1> DEFINE at == ExportAddress(exports + 1)
           c == DeepCopy(heap, value, at)
<1>1. WellFormed(heap) /\ value \in Values(heap) /\ exports \in Nat
  BY ExportableIsThere DEF SidesInv, TypeOK, Known, Contexts
<1>2. at \in Addresses /\ at.owner = "export" /\ at.n = exports + 1 /\ Side(at) = 0
  BY <1>1 DEF ExportAddress, Addresses, Side
<1>3. Copy(at, c)
  BY <1>1, <1>2, DeepCopyIsACopy
<1>4. /\ heap' = Extended(heap, c.objects) /\ held' = held \cup {c.value}
      /\ exports' = exports + 1 /\ stored' = stored
  BY DEF Export
<1> HIDE DEF c
<1>5. Fresh(heap, at)
  BY <1>1, <1>2 DEF Fresh, SidesInv, Known
<1>6. CopyMade(at, c)
  BY <1>3, <1>4 DEF CopyMade
<1>7. /\ WellFormed(heap')
      /\ IsFiniteSet(DOMAIN heap')
      /\ Values(heap) \subseteq Values(heap') /\ c.value \in Values(heap')
      /\ \A a \in DOMAIN heap : a \in DOMAIN heap' /\ heap'[a] = heap[a]
      /\ \A a \in DOMAIN heap' : a \in DOMAIN heap \/ (a.owner = at.owner /\ a.n = at.n)
      /\ \A a \in DOMAIN heap' : \A k \in DOMAIN heap'[a].items :
           IsObject(heap'[a].items[k]) => Side(heap'[a].items[k].addr) = Side(a)
  BY <1>2, <1>5, <1>6, CopyKeepsHeap
<1>8. IsObject(c.value) => Side(c.value.addr) = 0
  BY <1>2, <1>3, SidesOfACopy
<1> HIDE DEF at
<1>9. TypeOK'
  <2>1. held \subseteq Values(heap)
    BY DEF SidesInv, TypeOK
  <2>2. \A m \in DOMAIN stored : IsObject(stored[m].data) /\ stored[m].data \in Values(heap)
    BY DEF SidesInv, TypeOK
  <2> QED BY <1>4, <1>7, <2>1, <2>2 DEF TypeOK
<1>10. Known'
  <2>1. exports' \in Nat /\ 1..exports \subseteq 1..exports' /\ exports + 1 \in 1..exports'
    BY <1>1, <1>4
  <2> QED BY <1>2, <1>4, <1>7, <2>1 DEF SidesInv, Known
<1>11. Partitioned'
  BY <1>7 DEF Partitioned
<1>12. HeldByHost'
  BY <1>4, <1>8 DEF SidesInv, HeldByHost
<1>13. StoredApart'
  BY <1>4 DEF SidesInv, StoredApart
<1>14. SidesStay
  BY <1>4, <1>7 DEF SidesStay, Region
<1> QED BY <1>9, <1>10, <1>11, <1>12, <1>13, <1>14 DEF SidesInv

(* A map or slice of the host program gets other items, out of what it can   *)
(* reach.                                                                    *)
ItemsChanged(addr, items) ==
  /\ heap' = [heap EXCEPT ![addr].items = items]
  /\ items = [k \in DOMAIN items |-> items[k]]
  /\ DOMAIN items \subseteq Keys
  /\ Packed(heap[addr].type, items)
  /\ \A k \in DOMAIN items :
       /\ items[k] \in Values(heap) /\ Fits(heap[addr].type, items[k])
       /\ IsObject(items[k]) => Side(items[k].addr) = 0

LEMMA HostKeepsInv ==
  ASSUME SidesInv, NEW addr \in HostAddresses, NEW items, ItemsChanged(addr, items),
         UNCHANGED <<held, stored, exports>>
  PROVE  SidesInv' /\ SidesStay
<1>1. WellFormed(heap) /\ addr \in DOMAIN heap /\ Side(addr) = 0
  BY HostReachesItsSide DEF SidesInv, TypeOK, Region
<1>3. /\ DOMAIN heap' = DOMAIN heap
      /\ \A a \in DOMAIN heap : a # addr => heap'[a] = heap[a]
      /\ heap'[addr] = [type |-> heap[addr].type, items |-> items]
  <2>1. heap[addr] = [type |-> heap[addr].type, items |-> heap[addr].items]
    BY <1>1 DEF WellFormed
  <2>2. [heap[addr] EXCEPT !.items = items] = [type |-> heap[addr].type, items |-> items]
    BY <2>1
  <2> QED BY <1>1, <2>2 DEF ItemsChanged
<1>4. \A a \in DOMAIN heap : heap'[a].type = heap[a].type
  BY <1>3
<1>5. Values(heap') = Values(heap)
  <2>1. \A a \in DOMAIN heap : Ref(heap'[a].type, a) = Ref(heap[a].type, a)
    BY <1>4
  <2> QED BY <1>3, <2>1 DEF Values
<1>6. heap'[addr].items = items /\ heap'[addr].type = heap[addr].type
  BY <1>3
<1>7. WellFormed(heap')
  <2>1. ASSUME NEW a \in DOMAIN heap, a # addr
        PROVE  /\ a \in Addresses
               /\ heap'[a] = [type |-> heap'[a].type, items |-> heap'[a].items]
               /\ heap'[a].type \in Containers
               /\ heap'[a].items = [k \in DOMAIN heap'[a].items |-> heap'[a].items[k]]
               /\ DOMAIN heap'[a].items \subseteq Keys /\ Packed(heap'[a].type, heap'[a].items)
               /\ \A k \in DOMAIN heap'[a].items :
                    heap'[a].items[k] \in Values(heap') /\ Fits(heap'[a].type, heap'[a].items[k])
    BY <1>1, <1>3, <1>5, <2>1 DEF WellFormed
  <2>2. /\ addr \in Addresses
        /\ heap'[addr] = [type |-> heap'[addr].type, items |-> heap'[addr].items]
        /\ heap'[addr].type \in Containers
    BY <1>1, <1>3, <1>6 DEF WellFormed
  <2>3. /\ heap'[addr].items = [k \in DOMAIN heap'[addr].items |-> heap'[addr].items[k]]
        /\ DOMAIN heap'[addr].items \subseteq Keys /\ Packed(heap'[addr].type, heap'[addr].items)
        /\ \A k \in DOMAIN heap'[addr].items :
             heap'[addr].items[k] \in Values(heap') /\ Fits(heap'[addr].type, heap'[addr].items[k])
    BY <1>5, <1>6 DEF ItemsChanged
  <2> QED BY <1>3, <2>1, <2>2, <2>3 DEF WellFormed
<1>8. TypeOK'
  BY <1>5, <1>7 DEF SidesInv, TypeOK
<1>9. Known'
  BY <1>3 DEF SidesInv, Known
<1>10. Partitioned'
  <2> SUFFICES ASSUME NEW a \in DOMAIN heap, NEW k \in DOMAIN heap'[a].items, IsObject(heap'[a].items[k])
               PROVE  Side(heap'[a].items[k].addr) = Side(a)
    BY <1>3 DEF Partitioned
  <2>1. CASE a = addr
    BY <1>1, <1>6, <2>1 DEF ItemsChanged
  <2>2. CASE a # addr
    BY <1>3, <2>2 DEF SidesInv, Partitioned
  <2> QED BY <2>1, <2>2
<1>11. HeldByHost' /\ StoredApart'
  BY DEF SidesInv, HeldByHost, StoredApart
<1>12. SidesStay
  <2>1. \A n \in DOMAIN stored : n # 0
    BY AppendFacts DEF SidesInv, Known
  <2> QED BY <1>1, <1>3, <2>1 DEF SidesStay, Region
<1> QED BY <1>8, <1>9, <1>10, <1>11, <1>12 DEF SidesInv

LEMMA WriteKeepsInv ==
  ASSUME SidesInv, NEW addr \in HostAddresses, NEW key \in WrittenKeys(heap[addr].type),
         NEW value \in HostValues, HostWrites(addr, key, value)
  PROVE  SidesInv' /\ SidesStay
<1> DEFINE old == heap[addr].items
           items == [k \in DOMAIN old \cup {key} |-> IF k = key THEN value ELSE old[k]]
<1>1. WellFormed(heap) /\ addr \in DOMAIN heap /\ Side(addr) = 0
  BY HostReachesItsSide DEF SidesInv, TypeOK, Region
<1>2. heap' = [heap EXCEPT ![addr].items = items] /\ UNCHANGED <<held, stored, exports>>
  BY DEF HostWrites
<1>3. /\ DOMAIN old \subseteq Keys
      /\ \A k \in DOMAIN old : /\ old[k] \in Values(heap) /\ Fits(heap[addr].type, old[k])
                               /\ IsObject(old[k]) => Side(old[k].addr) = 0
  BY <1>1 DEF WellFormed, SidesInv, Partitioned
<1>4. key \in Keys
  BY DEF WrittenKeys, Keys
<1>5. /\ value \in Values(heap) /\ Fits(heap[addr].type, value)
      /\ IsObject(value) => Side(value.addr) = 0
  BY HostReachesItsSide DEF HostWrites
<1>8. Packed(heap[addr].type, old) /\ (heap[addr].type \in SliceTypes => key \in DOMAIN old)
  BY <1>1 DEF WellFormed, HostWrites
<1> HIDE DEF old
<1>6. /\ DOMAIN items = DOMAIN old \cup {key} /\ items = [k \in DOMAIN items |-> items[k]]
      /\ \A k \in DOMAIN items : items[k] = value \/ (k \in DOMAIN old /\ items[k] = old[k])
  OBVIOUS
<1> HIDE DEF items
<1>7. ItemsChanged(addr, items)
  <2>1. DOMAIN items \subseteq Keys
    BY <1>3, <1>4, <1>6
  <2>2. ASSUME NEW k \in DOMAIN items
        PROVE  /\ items[k] \in Values(heap) /\ Fits(heap[addr].type, items[k])
               /\ IsObject(items[k]) => Side(items[k].addr) = 0
    BY <1>3, <1>5, <1>6
  <2>3. Packed(heap[addr].type, items)
    <3>1. heap[addr].type \in SliceTypes => DOMAIN items = DOMAIN old
      BY <1>6, <1>8
    <3> QED BY <1>8, <3>1 DEF Packed
  <2> QED BY <1>2, <1>6, <2>1, <2>2, <2>3 DEF ItemsChanged
<1> QED BY <1>2, <1>7, HostKeepsInv

LEMMA DeleteKeepsInv ==
  ASSUME SidesInv, NEW addr \in HostAddresses, NEW key, HostDeletes(addr, key)
  PROVE  SidesInv' /\ SidesStay
<1> DEFINE old == heap[addr].items
           items == [k \in DOMAIN old \ {key} |-> old[k]]
<1>1. WellFormed(heap) /\ addr \in DOMAIN heap /\ Side(addr) = 0
  BY HostReachesItsSide DEF SidesInv, TypeOK, Region
<1>2. heap' = [heap EXCEPT ![addr].items = items] /\ UNCHANGED <<held, stored, exports>>
  BY DEF HostDeletes
<1>3. /\ DOMAIN old \subseteq Keys
      /\ \A k \in DOMAIN old : /\ old[k] \in Values(heap) /\ Fits(heap[addr].type, old[k])
                               /\ IsObject(old[k]) => Side(old[k].addr) = 0
  BY <1>1 DEF WellFormed, SidesInv, Partitioned
<1>6. Packed(heap[addr].type, items)
  BY MapsAreNoSlices DEF HostDeletes, Packed
<1> HIDE DEF old
<1>4. /\ DOMAIN items \subseteq DOMAIN old /\ items = [k \in DOMAIN items |-> items[k]]
      /\ \A k \in DOMAIN items : items[k] = old[k]
  OBVIOUS
<1> HIDE DEF items
<1>5. ItemsChanged(addr, items)
  <2>1. DOMAIN items \subseteq Keys
    BY <1>3, <1>4
  <2>2. ASSUME NEW k \in DOMAIN items
        PROVE  /\ items[k] \in Values(heap) /\ Fits(heap[addr].type, items[k])
               /\ IsObject(items[k]) => Side(items[k].addr) = 0
    BY <1>3, <1>4
  <2> QED BY <1>2, <1>4, <1>6, <2>1, <2>2 DEF ItemsChanged
<1> QED BY <1>2, <1>5, HostKeepsInv

LEMMA StepKeepsSides ==
  ASSUME SidesInv, [Next]_vars
  PROVE  SidesInv' /\ SidesStay
<1>1. CASE UNCHANGED vars
  <2>1. SidesInv'
    BY <1>1 DEF vars, SidesInv, TypeOK, Known, Partitioned, HeldByHost, StoredApart
  <2>2. SidesStay
    BY <1>1 DEF vars, SidesStay
  <2> QED BY <2>1, <2>2
<1>2. ASSUME NEW data \in HostValues, NEW time \in Times, NewDeterministicContext(data, time)
      PROVE  SidesInv' /\ SidesStay
  BY <1>2, NewContextKeepsInv
<1>3. ASSUME NEW value \in HostValues, NEW plain \in {"object", "list"},
             NormalizeEvaluationResult(value, plain)
      PROVE  SidesInv' /\ SidesStay
  BY <1>3, ResultKeepsInv
<1>4. ASSUME NEW n \in Contexts, NEW value \in Exportable(n), Export(value)
      PROVE  SidesInv' /\ SidesStay
  BY <1>4, ExportKeepsInv
<1>5. ASSUME NEW addr \in HostAddresses, NEW key \in WrittenKeys(heap[addr].type),
             NEW value \in HostValues, HostWrites(addr, key, value)
      PROVE  SidesInv' /\ SidesStay
  BY <1>5, WriteKeepsInv
<1>6. ASSUME NEW addr \in HostAddresses, NEW key \in WrittenKeys(heap[addr].type),
             HostDeletes(addr, key)
      PROVE  SidesInv' /\ SidesStay
  BY <1>6, DeleteKeepsInv
<1> QED BY <1>1, <1>2, <1>3, <1>4, <1>5, <1>6 DEF Next

LEMMA SidesAreKept ==
  Spec => []SidesInv
<1>1. Init => SidesInv
  BY InitHasSides
<1>2. SidesInv /\ [Next]_vars => SidesInv'
  BY StepKeepsSides
<1> QED BY <1>1, <1>2, PTL DEF Spec

-----------------------------------------------------------------------------
(* Whatever the host program shares, closes into a cycle, changes or deletes, *)
(* no reference dangles, the elements of maps and slices keep their type,     *)
(* and what the constructors keep is a map or slice of the heap: the copies   *)
(* of cloneMap, cloneSlice and clonePrimitiveValue are complete.              *)
THEOREM ContextsAreWellFormed ==
  Spec => []TypeOK
<1>1. SidesInv => TypeOK
  BY DEF SidesInv
<1> QED BY <1>1, SidesAreKept, PTL

(* Nothing a context or a kept result consists of can be reached from the    *)
(* data of the host program, from the copies Data, Get and GetItem answered, *)
(* or from another context or result: the cloners share no object, at any    *)
(* depth and for any graph of references.                                    *)
THEOREM ContextsAreIsolated ==
  Spec => []Isolated
<1>1. SidesInv => Isolated
  BY SidesGiveIsolation
<1> QED BY <1>1, SidesAreKept, PTL

(* No step, neither of the host program nor of a constructor or accessor,    *)
(* changes the record of a context or kept result or an object it consists   *)
(* of.                                                                       *)
THEOREM ContextsStayAsMade ==
  Spec => ContextsImmutable
<1>1. SidesInv /\ [Next]_vars =>
        [\A n \in DOMAIN stored :
           /\ stored'[n] = stored[n]
           /\ \A a \in Reach(heap, {stored[n].data}) : heap'[a] = heap[a]]_vars
  <2> SUFFICES ASSUME SidesInv, [Next]_vars, NEW n \in DOMAIN stored
               PROVE  /\ stored'[n] = stored[n]
                      /\ \A a \in Reach(heap, {stored[n].data}) : heap'[a] = heap[a]
    OBVIOUS
  <2>1. SidesStay
    BY StepKeepsSides
  <2> QED BY <2>1, StoredReachesItsSide DEF SidesStay
<1> QED BY <1>1, SidesAreKept, PTL DEF Spec, ContextsImmutable

-----------------------------------------------------------------------------
(* What a construction step makes. *)

LEMMA CopyIsEmbedded ==
  ASSUME SidesInv, NEW at \in Addresses, Fresh(heap, at), NEW c, CopyMade(at, c)
  PROVE  WellFormed(heap') /\ Embedded(c, heap') /\ c.value \in Values(heap')
<1>1. WellFormed(heap') /\ c.value \in Values(heap')
  BY CopyKeepsHeap
<1>2. Grown(heap, c, Extended(heap, c.objects))
  BY ExtendedHeap DEF CopyMade, SidesInv, TypeOK
<1>3. Embedded(c, heap')
  BY <1>2 DEF Grown, CopyMade, Embedded
<1> QED BY <1>1, <1>3

LEMMA StoredAddressIsFresh ==
  ASSUME SidesInv
  PROVE  /\ StoredAddress(Len(stored) + 1) \in Addresses
         /\ Fresh(heap, StoredAddress(Len(stored) + 1))
<1> DEFINE at == StoredAddress(Len(stored) + 1)
<1>1. Len(stored) \in Nat /\ DOMAIN stored = 1..Len(stored)
  BY AppendFacts DEF SidesInv, Known
<1>2. at \in Addresses /\ at.owner = "stored" /\ at.n = Len(stored) + 1
  BY <1>1 DEF StoredAddress, Addresses
<1>3. Fresh(heap, at)
  BY <1>1, <1>2 DEF Fresh, SidesInv, Known
<1> QED BY <1>2, <1>3

(* The record a step adds is the one it appends. *)
LEMMA OneIsAdded ==
  ASSUME SidesInv, NEW r, stored' = Append(stored, r), NEW n \in DOMAIN stored' \ DOMAIN stored
  PROVE  n = Len(stored) + 1 /\ stored'[n] = r
<1>1. /\ DOMAIN stored = 1..Len(stored) /\ DOMAIN stored' = 1..(Len(stored) + 1)
      /\ stored'[Len(stored) + 1] = r /\ Len(stored) \in Nat
  BY AppendFacts DEF SidesInv, Known
<1>2. n = Len(stored) + 1
  BY <1>1
<1> QED BY <1>1, <1>2

LEMMA NothingIsAdded ==
  ASSUME UNCHANGED stored, NEW n \in DOMAIN stored' \ DOMAIN stored
  PROVE  FALSE
OBVIOUS

(* A copy of the cloner is exact. *)
ExactClone(h, v, issues, g, w) ==
  /\ issues = {} <=> \A path \in PathsOf(h, v, ContextDepth + 1) : Sound(h, v, path)
  /\ \A path \in PathsOf(h, v, ContextDepth + 1) \cup PathsOf(g, w, ContextDepth + 1) :
       Alike(ValueAt(g, w, path), Retained(h, v, path))

LEMMA ClonesAreExact ==
  ASSUME NEW h, WellFormed(h), NEW v \in Values(h), v \notin Unsupported, NEW at \in Addresses,
         NEW c, c = CloneFunction(h)[Start(v, at, 0)],
         NEW g, WellFormed(g), Embedded(c, g), c.value \in Values(g)
  PROVE  ExactClone(h, v, c.issues, g, c.value)
<1>1. ContextDepth + 1 \in Nat
  BY DepthConstants
<1>2. /\ PathsOf(h, v, ContextDepth + 1) = Led(h, v, ContextDepth + 1)
      /\ PathsOf(g, c.value, ContextDepth + 1) = Led(g, c.value, ContextDepth + 1)
  BY <1>1, PathsAreLed DEF Found
<1>3. ASSUME c.issues = {}, NEW path \in PathsOf(h, v, ContextDepth + 1)
      PROVE  Sound(h, v, path)
  BY <1>2, <1>3, NoIssuesIsSound DEF Led
<1>4. ASSUME \A path \in PathsOf(h, v, ContextDepth + 1) : Sound(h, v, path)
      PROVE  c.issues = {}
  BY <1>4, SoundHasNoIssues DEF Reported
<1>5. ASSUME NEW path \in PathsOf(h, v, ContextDepth + 1) \cup PathsOf(g, c.value, ContextDepth + 1)
      PROVE  Alike(ValueAt(g, c.value, path), Retained(h, v, path))
  <2>1. path \in Seq(Keys)
    BY <1>2 DEF Led
  <2>2. RetainedAs(h, v, at, path, g, ValueAt(g, c.value, path))
    BY <2>1, ClonesRetain
  <2> QED BY <2>2, RetainedIsAlike
<1> QED BY <1>3, <1>4, <1>5 DEF ExactClone

ContextExact(n) ==
  (stored'[n].kind = "context" /\ IsObject(stored'[n].source)) =>
    ExactClone(heap, stored'[n].source, stored'[n].issues, heap', stored'[n].data)

LEMMA NewContextIsExact ==
  ASSUME SidesInv, NEW data \in HostValues, NEW time, NewDeterministicContext(data, time),
         NEW n \in DOMAIN stored' \ DOMAIN stored
  PROVE  ContextExact(n)
<1> DEFINE at == StoredAddress(Len(stored) + 1)
           c == CloneContextData(heap, data, at)
           r == BuildDeterministicContext(heap, data, time, at)
<1>1. WellFormed(heap) /\ data \in Values(heap) /\ data.type = "object"
  BY HostReachesItsSide DEF SidesInv, TypeOK, NewDeterministicContext
<1>2. at \in Addresses /\ Fresh(heap, at)
  BY StoredAddressIsFresh
<1>3. Copy(at, c)
  BY <1>1, <1>2, ContextDataIsACopy
<1>4. r.data = c.value /\ r.issues = c.issues /\ r.source = data
  BY DEF BuildDeterministicContext
<1>5. stored' = Append(stored, r) /\ heap' = Extended(heap, c.objects)
  BY DEF NewDeterministicContext
<1>6. stored'[n] = r
  BY <1>5, OneIsAdded
<1> SUFFICES ASSUME IsObject(data)
             PROVE  ExactClone(heap, data, c.issues, heap', c.value)
  <2> HIDE DEF r, c
  <2> QED BY <1>4, <1>6 DEF ContextExact
<1>7. c = CloneFunction(heap)[Start(data, at, 0)]
  BY <1>1, <1>2, StartIsPlace, CloneWalks DEF CloneContextData
<1> HIDE DEF c, r, at
<1>8. CopyMade(at, c)
  BY <1>3, <1>5 DEF CopyMade
<1>9. WellFormed(heap') /\ Embedded(c, heap') /\ c.value \in Values(heap')
  BY <1>2, <1>8, CopyIsEmbedded
<1>10. data \notin Unsupported
  BY UnsupportedIsScalar
<1> QED BY <1>1, <1>2, <1>7, <1>9, <1>10, ClonesAreExact

(* A snapshot is exact. *)
ExactSnapshot(h, v, g, w) ==
  \A path \in PathsOf(h, v, PrimitiveDepth + 1) \cup PathsOf(g, w, PrimitiveDepth + 1) :
    Alike(ValueAt(g, w, path), PlainForm(ValueAt(h, v, path)))

LEMMA TakenIsPlainForm ==
  ASSUME NEW h, WellFormed(h), NEW p, NEW g, NEW u, TakenAs(h, p, g, u)
  PROVE  Alike(u, PlainForm(p.value))
<1>1. CASE p.value.type \notin Containers
  <2>1. u = p.value /\ PlainForm(p.value) = p.value
    BY <1>1, TakenIsPlain DEF PlainForm
  <2> QED BY <2>1 DEF Alike
<1>2. CASE p.value.type \in Containers
  <2>1. u = Ref(PlainType(p.value.type), p.at) /\ p.at \in Addresses
    BY <1>2, TakenIsPlain
  <2>2. PlainForm(p.value) = Ref(PlainType(p.value.type), StoredAddress(0))
    BY <1>2 DEF PlainForm, PlainType
  <2>3. p.at # NoAddress
    BY <2>1, AddressesAreReal
  <2>4. StoredAddress(0) # NoAddress
    <3>1. StoredAddress(0).owner = "stored" /\ NoAddress.owner = "none"
      BY DEF StoredAddress, NoAddress
    <3> QED BY <3>1
  <2> DEFINE x == Ref(PlainType(p.value.type), p.at)
             y == Ref(PlainType(p.value.type), StoredAddress(0))
  <2>5. /\ x.type = y.type /\ x.val = y.val /\ x.addr = p.at /\ y.addr = StoredAddress(0)
    BY DEF Ref
  <2> HIDE DEF x, y
  <2>6. Alike(x, y)
    BY <2>3, <2>4, <2>5 DEF Alike
  <2> QED BY <2>1, <2>2, <2>6 DEF x, y
<1> QED BY <1>1, <1>2

LEMMA SnapshotsAreExact ==
  ASSUME NEW h, WellFormed(h), NEW v \in Values(h), NEW at \in Addresses,
         NEW c, c = SnapshotFunction(h)[Start(v, at, 0)], c.keep,
         NEW g, WellFormed(g), Embedded(c, g), c.value \in Values(g)
  PROVE  ExactSnapshot(h, v, g, c.value)
<1> SUFFICES ASSUME NEW path \in PathsOf(h, v, PrimitiveDepth + 1)
                                   \cup PathsOf(g, c.value, PrimitiveDepth + 1)
             PROVE  Alike(ValueAt(g, c.value, path), PlainForm(ValueAt(h, v, path)))
  BY DEF ExactSnapshot
<1>1. PrimitiveDepth + 1 \in Nat
  BY DepthConstants
<1>2. path \in Seq(Keys)
  BY <1>1, PathsAreLed DEF Found, Led
<1>3. TakenAt(h, v, path, g, ValueAt(g, c.value, path))
  BY <1>2, SnapshotsTake
<1>4. CASE Leads(h, v, path)
  <2>1. PICK p : p.value = ValueAt(h, v, path) /\ TakenAs(h, p, g, ValueAt(g, c.value, path))
    BY <1>3, <1>4 DEF TakenAt
  <2> QED BY <2>1, TakenIsPlainForm
<1>5. CASE ~Leads(h, v, path)
  <2>1. ValueAt(h, v, path) = Missing /\ ValueAt(g, c.value, path) = Missing
    BY <1>2, <1>3, <1>5, LeadsOrMisses DEF TakenAt
  <2>2. Missing.type \notin Containers
    BY DEF Missing, Scalar, Containers, MapTypes, SliceTypes
  <2>3. PlainForm(Missing) = Missing
    BY <2>2 DEF PlainForm
  <2> QED BY <2>1, <2>3 DEF Alike
<1> QED BY <1>4, <1>5

ResultExact(n) ==
  stored'[n].kind = "result" =>
    ExactSnapshot(heap, stored'[n].source, heap', stored'[n].data)

LEMMA NewResultIsExact ==
  ASSUME SidesInv, NEW value \in HostValues, NEW plain \in {"object", "list"},
         NormalizeEvaluationResult(value, plain), NEW n \in DOMAIN stored' \ DOMAIN stored
  PROVE  ResultExact(n)
<1> DEFINE at == StoredAddress(Len(stored) + 1)
           c == Snapshot(heap, value, at)
           r == [kind |-> "result", data |-> c.value, time |-> 0, issues |-> {},
                 commitment |-> <<>>, source |-> value, given |-> NoTree]
<1>1. WellFormed(heap) /\ value \in Values(heap)
  BY HostReachesItsSide DEF SidesInv, TypeOK
<1>2. at \in Addresses /\ Fresh(heap, at)
  BY StoredAddressIsFresh
<1>3. Copy(at, c)
  BY <1>1, <1>2, ResultDataIsACopy
<1>4. r.data = c.value /\ r.source = value
  OBVIOUS
<1>5. stored' = Append(stored, r) /\ heap' = Extended(heap, c.objects) /\ c.keep
  BY DEF NormalizeEvaluationResult
<1>6. stored'[n] = r
  BY <1>5, OneIsAdded
<1>7. c = SnapshotFunction(heap)[Start(value, at, 0)]
  BY <1>1, <1>2, StartIsPlace, SnapshotWalks
<1> HIDE DEF c, r, at
<1>8. CopyMade(at, c)
  BY <1>3, <1>5 DEF CopyMade
<1>9. WellFormed(heap') /\ Embedded(c, heap') /\ c.value \in Values(heap')
  BY <1>2, <1>8, CopyIsEmbedded
<1>10. ExactSnapshot(heap, value, heap', c.value)
  BY <1>1, <1>2, <1>5, <1>7, <1>9, SnapshotsAreExact
<1> QED BY <1>4, <1>6, <1>10 DEF ResultExact

LEMMA StepsAreExact ==
  ASSUME SidesInv, Next, NEW n \in DOMAIN stored' \ DOMAIN stored
  PROVE  ContextExact(n) /\ ResultExact(n)
<1>1. ASSUME NEW data \in HostValues, NEW time \in Times, NewDeterministicContext(data, time)
      PROVE  ContextExact(n) /\ ResultExact(n)
  <2>1. stored'[n].kind = "context"
    <3>1. \E r : stored' = Append(stored, r) /\ r.kind = "context"
      <4> DEFINE r == BuildDeterministicContext(heap, data, time, StoredAddress(Len(stored) + 1))
      <4>1. r.kind = "context"
        BY DEF BuildDeterministicContext
      <4>2. stored' = Append(stored, r)
        BY <1>1 DEF NewDeterministicContext
      <4> HIDE DEF r
      <4> QED BY <4>1, <4>2
    <3> QED BY <3>1, OneIsAdded
  <2> QED BY <1>1, <2>1, NewContextIsExact DEF ResultExact
<1>2. ASSUME NEW value \in HostValues, NEW plain \in {"object", "list"},
             NormalizeEvaluationResult(value, plain)
      PROVE  ContextExact(n) /\ ResultExact(n)
  <2>1. stored'[n].kind = "result"
    <3>1. \E r : stored' = Append(stored, r) /\ r.kind = "result"
      BY <1>2 DEF NormalizeEvaluationResult
    <3> QED BY <3>1, OneIsAdded
  <2> QED BY <1>2, <2>1, NewResultIsExact DEF ContextExact
<1>3. ASSUME UNCHANGED stored PROVE FALSE
  BY <1>3, NothingIsAdded
<1>4. ASSUME NEW m \in Contexts, NEW value \in Exportable(m), Export(value) PROVE FALSE
  BY <1>3, <1>4 DEF Export
<1>5. ASSUME NEW addr \in HostAddresses, NEW key \in WrittenKeys(heap[addr].type),
             \/ \E value \in HostValues : HostWrites(addr, key, value)
             \/ HostDeletes(addr, key)
      PROVE  FALSE
  BY <1>3, <1>5 DEF HostWrites, HostDeletes
<1> QED BY <1>1, <1>2, <1>4, <1>5 DEF Next

(* "invalid values are excluded, valid siblings are retained, and the error  *)
(* is never silently discarded", for data of any shape and any limit: the    *)
(* constructor reports an issue exactly if some path of the data is not      *)
(* sound, and the context has at every path of the data, and at every path   *)
(* of its own, what should be retained there.                                *)
THEOREM ConstructionIsExact ==
  Spec => ConstructionExact
<1>1. SidesInv /\ [Next]_vars =>
        [\A n \in DOMAIN stored' \ DOMAIN stored :
           (stored'[n].kind = "context" /\ IsObject(stored'[n].source)) =>
             LET source == stored'[n].source
                 data   == stored'[n].data
                 paths  == PathsOf(heap, source, ContextDepth + 1)
             IN  /\ stored'[n].issues = {} <=> \A path \in paths : Sound(heap, source, path)
                 /\ \A path \in paths \cup PathsOf(heap', data, ContextDepth + 1) :
                      Alike(ValueAt(heap', data, path), Retained(heap, source, path))]_vars
  BY StepsAreExact DEF ContextExact, ExactClone
<1> QED BY <1>1, SidesAreKept, PTL DEF Spec, ConstructionExact

(* What the engine keeps of a result has the shape of what the primitive     *)
(* answered, at every path, in plain maps and slices, and nothing else:      *)
(* clonePrimitiveValue is all or nothing for values of any shape.            *)
THEOREM SnapshotsKeepAll ==
  Spec => SnapshotExact
<1>1. SidesInv /\ [Next]_vars =>
        [\A n \in DOMAIN stored' \ DOMAIN stored :
           stored'[n].kind = "result" =>
             LET source == stored'[n].source
                 data   == stored'[n].data
             IN  \A path \in PathsOf(heap, source, PrimitiveDepth + 1)
                               \cup PathsOf(heap', data, PrimitiveDepth + 1) :
                   Alike(ValueAt(heap', data, path), PlainForm(ValueAt(heap, source, path)))]_vars
  BY StepsAreExact DEF ResultExact, ExactSnapshot
<1> QED BY <1>1, SidesAreKept, PTL DEF Spec, SnapshotExact

-----------------------------------------------------------------------------
(* What a context holds: data that later copies keep whole; if it is valid,  *)
(* only what a context can hold, and what it was given.                      *)

ContextWhole(h, r) ==
  /\ SelfRetained(h, r.data)
  /\ r.issues = {} => AllSound(h, r.data) /\ r.given = Unfold(h, r.data)

WholeInv == \A n \in DOMAIN stored : stored[n].kind = "context" => ContextWhole(heap, stored[n])


LEMMA ClonesAreCopiesOf ==
  ASSUME NEW h, WellFormed(h), NEW v \in Values(h), v \notin Unsupported, NEW at \in Addresses,
         NEW c, c = CloneFunction(h)[Start(v, at, 0)],
         NEW g, WellFormed(g), Embedded(c, g), c.value \in Values(g)
  PROVE  CopyOf(h, v, at, g, c.value)
BY ClonesRetain DEF CopyOf

(* The part of the cloner. *)
LEMMA CopiesAreWhole ==
  ASSUME NEW h, WellFormed(h), NEW v \in Values(h), v \notin Unsupported, NEW at \in Addresses,
         NEW c, c = CloneFunction(h)[Start(v, at, 0)],
         NEW g, WellFormed(g), Embedded(c, g), c.value \in Values(g),
         NEW r, r.data = c.value, r.issues = c.issues, c.issues = {} => r.given = Unfold(h, v)
  PROVE  ContextWhole(g, r)
<1>1. CopyOf(h, v, at, g, c.value)
  BY ClonesAreCopiesOf
<1>2. SelfRetained(g, c.value)
  BY <1>1, CopiesAreSelfRetained
<1>3. ASSUME c.issues = {}
      PROVE  AllSound(g, c.value) /\ r.given = Unfold(g, c.value)
  <2>1. AllSound(h, v)
    BY <1>3, NoIssuesIsSound DEF AllSound
  <2>2. Twins(h, v, g, c.value) /\ AllSound(g, c.value)
    BY <1>1, <2>1, CopiesOfSound
  <2>3. Unfold(h, v) = Unfold(g, c.value)
    BY <2>2, TwinsUnfold
  <2> QED BY <1>3, <2>2, <2>3
<1> QED BY <1>2, <1>3 DEF ContextWhole

LEMMA NoItems == DOMAIN <<>> = {}
<1>1. <<>> \in Seq({}) /\ Len(<<>>) = 0
  OBVIOUS
<1>2. DOMAIN <<>> = 1..0
  BY <1>1
<1>3. 1..0 = {}
  OBVIOUS
<1> QED BY <1>2, <1>3, Zenon

(* The part of nil data. *)
LEMMA NewMapIsWhole ==
  ASSUME NEW at \in Addresses, NEW c, c = Allocated(at, "object", <<>>, <<>>),
         NEW g, WellFormed(g), Embedded(c, g), c.value \in Values(g),
         NEW r, r.data = c.value, r.given = Leaf("object", "")
  PROVE  ContextWhole(g, r)
<1>1. NewObject(at, "object", <<>>, <<>>, c)
  BY NewMapIsACopy
<1>2. c.value = Ref("object", at) /\ g[at] = [type |-> "object", items |-> <<>>]
  BY <1>1 DEF NewObject, Embedded
<1>3. c.value.type = "object" /\ c.value.val = "" /\ c.value.addr = at
  <2>1. Ref("object", at).type = "object" /\ Ref("object", at).val = "" /\ Ref("object", at).addr = at
    BY DEF Ref
  <2> QED BY <1>2, <2>1, Zenon
<1>4. IsObject(c.value)
  BY <1>3, AddressesAreReal DEF IsObject, Containers, MapTypes
<1>5. DOMAIN Items(g, c.value) = {}
  <2>1. g[at].items = <<>>
    <3>1. [type |-> "object", items |-> <<>>].items = <<>>
      OBVIOUS
    <3> QED BY <1>2, <3>1, Zenon
  <2>2. Items(g, c.value) = g[c.value.addr].items
    BY <1>4 DEF Items
  <2>3. Items(g, c.value) = <<>>
    BY <2>1, <2>2, <1>3, Zenon
  <2>4. DOMAIN <<>> = {}
    BY NoItems
  <2> QED BY <2>3, <2>4, Zenon
<1>6. SelfRetained(g, c.value) /\ AllSound(g, c.value) /\ Unfold(g, c.value) = Leaf("object", "")
  BY <1>3, <1>4, <1>5, EmptyMap
<1> QED BY <1>6 DEF ContextWhole

LEMMA NewContextIsWhole ==
  ASSUME SidesInv, NEW data \in HostValues, NEW time, NewDeterministicContext(data, time),
         NEW n \in DOMAIN stored' \ DOMAIN stored
  PROVE  ContextWhole(heap', stored'[n])
<1> DEFINE at == StoredAddress(Len(stored) + 1)
           c == CloneContextData(heap, data, at)
           r == BuildDeterministicContext(heap, data, time, at)
<1>1. WellFormed(heap) /\ data \in Values(heap) /\ data.type = "object"
  BY HostReachesItsSide DEF SidesInv, TypeOK, NewDeterministicContext
<1>2. at \in Addresses /\ Fresh(heap, at)
  BY StoredAddressIsFresh
<1>3. Copy(at, c)
  BY <1>1, <1>2, ContextDataIsACopy
<1>4. /\ r.data = c.value /\ r.issues = c.issues
      /\ c.issues = {} /\ IsObject(data) => r.given = Unfold(heap, data)
      /\ c.issues = {} /\ ~IsObject(data) => r.given = Leaf("object", "")
  BY DEF BuildDeterministicContext
<1>5. stored' = Append(stored, r) /\ heap' = Extended(heap, c.objects)
  BY DEF NewDeterministicContext
<1>6. stored'[n] = r
  BY <1>5, OneIsAdded
<1>7. /\ IsObject(data) => c = CloneFunction(heap)[Start(data, at, 0)]
      /\ ~IsObject(data) => c = Allocated(at, "object", <<>>, <<>>)
  BY <1>1, <1>2, StartIsPlace, CloneWalks DEF CloneContextData
<1> HIDE DEF c, r, at
<1>8. CopyMade(at, c)
  BY <1>3, <1>5 DEF CopyMade
<1>9. WellFormed(heap') /\ Embedded(c, heap') /\ c.value \in Values(heap')
  BY <1>2, <1>8, CopyIsEmbedded
<1>10. CASE IsObject(data)
  <2>1. data \notin Unsupported
    BY <1>10, UnsupportedIsScalar
  <2>2. ContextWhole(heap', r)
    BY <1>1, <1>2, <1>4, <1>7, <1>9, <1>10, <2>1, CopiesAreWhole
  <2> QED BY <1>6, <2>2
<1>11. CASE ~IsObject(data)
  <2>1. c.issues = {}
    <3>1. c = Allocated(at, "object", <<>>, <<>>)
      BY <1>7, <1>11
    <3> QED BY <3>1 DEF Allocated
  <2>2. ContextWhole(heap', r)
    BY <1>2, <1>4, <1>7, <1>9, <1>11, <2>1, NewMapIsWhole
  <2> QED BY <1>6, <2>2
<1> QED BY <1>10, <1>11

LEMMA HeapGrows ==
  ASSUME [Next]_vars
  PROVE  DOMAIN heap \subseteq DOMAIN heap'
<1>1. ASSUME NEW more, heap' = Extended(heap, more) PROVE DOMAIN heap \subseteq DOMAIN heap'
  BY <1>1 DEF Extended
<1>2. ASSUME NEW addr, NEW items, heap' = [heap EXCEPT ![addr].items = items]
      PROVE  DOMAIN heap \subseteq DOMAIN heap'
  BY <1>2
<1>3. CASE UNCHANGED vars
  BY <1>3 DEF vars
<1>4. ASSUME NEW data, NEW time, NewDeterministicContext(data, time)
      PROVE  DOMAIN heap \subseteq DOMAIN heap'
  BY <1>1, <1>4 DEF NewDeterministicContext
<1>5. ASSUME NEW value, NEW plain, NormalizeEvaluationResult(value, plain)
      PROVE  DOMAIN heap \subseteq DOMAIN heap'
  BY <1>1, <1>5 DEF NormalizeEvaluationResult
<1>6. ASSUME NEW value, Export(value) PROVE DOMAIN heap \subseteq DOMAIN heap'
  BY <1>1, <1>6 DEF Export
<1>7. ASSUME NEW addr, NEW key, NEW value, HostWrites(addr, key, value)
      PROVE  DOMAIN heap \subseteq DOMAIN heap'
  BY <1>7 DEF HostWrites
<1>8. ASSUME NEW addr, NEW key, HostDeletes(addr, key) PROVE DOMAIN heap \subseteq DOMAIN heap'
  BY <1>8 DEF HostDeletes
<1> QED BY <1>3, <1>4, <1>5, <1>6, <1>7, <1>8 DEF Next

(* What is stored keeps what it says, as its side of the heap stays.         *)
StoredStays(n) ==
  /\ stored'[n] = stored[n]
  /\ SelfRetained(heap, stored[n].data) => SelfRetained(heap', stored[n].data)
  /\ AllSound(heap, stored[n].data) => AllSound(heap', stored[n].data)
  /\ Unfold(heap, stored[n].data) = Unfold(heap', stored[n].data)

LEMMA AllStoredStays ==
  ASSUME SidesInv, SidesStay, WellFormed(heap'), DOMAIN heap \subseteq DOMAIN heap',
         NEW n \in DOMAIN stored
  PROVE  StoredStays(n)
<1> DEFINE v == stored[n].data
           g == heap'
<1>1. WellFormed(heap) /\ IsObject(v) /\ v \in Values(heap) /\ Side(v.addr) = n
  BY DEF SidesInv, TypeOK, StoredApart
<1>2. stored'[n] = stored[n] /\ \A a \in Region(n) : g[a] = heap[a]
  BY DEF SidesStay
<1>3. v.addr \in Region(n) /\ v = Ref(heap[v.addr].type, v.addr)
  BY <1>1, ObjectsOfValues DEF Region
<1>4. Common(heap, g, Region(n))
  BY <1>2, RegionsAreClosed DEF Common, Closed
<1>5. v \in Values(g)
  <2>1. v.addr \in DOMAIN g /\ v = Ref(g[v.addr].type, v.addr)
    BY <1>2, <1>3 DEF Region
  <2> QED BY <2>1 DEF Values
<1> HIDE DEF v, g
<1>6. SameWalks(heap, g, v)
  BY <1>1, <1>3, <1>4, <1>5, CommonWalks DEF g
<1>7. /\ SelfRetained(heap, v) => SelfRetained(g, v)
      /\ AllSound(heap, v) => AllSound(g, v)
      /\ Unfold(heap, v) = Unfold(g, v)
  BY <1>1, <1>5, <1>6, SameWalksKeep DEF g
<1> QED BY <1>2, <1>7 DEF StoredStays, v, g

LEMMA ContextsStayWhole ==
  ASSUME NEW n \in DOMAIN stored, StoredStays(n), ContextWhole(heap, stored[n])
  PROVE  ContextWhole(heap', stored'[n])
BY DEF StoredStays, ContextWhole

(* The commitment of a valid context is that of what it holds.               *)
Committed(h, r) == r.issues = {} => r.commitment = ContextCommitment(Unfold(h, r.data), r.time)

LEMMA ContextsStayCommitted ==
  ASSUME NEW n \in DOMAIN stored, StoredStays(n), Committed(heap, stored[n])
  PROVE  Committed(heap', stored'[n])
BY DEF StoredStays, Committed

LEMMA NewContextIsCommitted ==
  ASSUME SidesInv, NEW data, NEW time, NewDeterministicContext(data, time),
         NEW n \in DOMAIN stored' \ DOMAIN stored
  PROVE  Committed(heap', stored'[n])
<1> DEFINE at == StoredAddress(Len(stored) + 1)
           c == CloneContextData(heap, data, at)
           r == BuildDeterministicContext(heap, data, time, at)
<1>1. stored' = Append(stored, r) /\ heap' = Extended(heap, c.objects)
  BY DEF NewDeterministicContext
<1>2. stored'[n] = r
  BY <1>1, OneIsAdded
<1>3. /\ r.data = c.value /\ r.time = time /\ r.issues = c.issues
      /\ c.issues = {} => r.commitment = ContextCommitment(Unfold(Extended(heap, c.objects), c.value), time)
  BY DEF BuildDeterministicContext
<1> HIDE DEF c, r, at
<1> QED BY <1>1, <1>2, <1>3 DEF Committed

CommittedInv == \A n \in DOMAIN stored : stored[n].kind = "context" => Committed(heap, stored[n])

(* What is stored begins with a map[string]interface{} or []interface{}.     *)
RootsInv == \A n \in DOMAIN stored : stored[n].data.type \in {"object", "list"}

LEMMA NewRootIsPlain ==
  ASSUME SidesInv, [Next]_vars, NEW n \in DOMAIN stored' \ DOMAIN stored
  PROVE  stored'[n].data.type \in {"object", "list"}
<1>1. CASE UNCHANGED stored
  BY <1>1, NothingIsAdded
<1>2. ASSUME NEW data \in HostValues, NEW time, NewDeterministicContext(data, time)
      PROVE  stored'[n].data.type \in {"object", "list"}
  <2> DEFINE at == StoredAddress(Len(stored) + 1)
             c == CloneContextData(heap, data, at)
             r == BuildDeterministicContext(heap, data, time, at)
  <2>1. WellFormed(heap) /\ data \in Values(heap) /\ data.type = "object" /\ at \in Addresses
    BY <1>2, HostReachesItsSide, StoredAddressIsFresh DEF SidesInv, TypeOK, NewDeterministicContext
  <2>2. c.value.type = "object"
    BY <2>1, ContextDataIsACopy
  <2>3. r.data = c.value
    BY DEF BuildDeterministicContext
  <2>4. stored' = Append(stored, r)
    BY <1>2 DEF NewDeterministicContext
  <2> HIDE DEF c, r
  <2>5. stored'[n] = r
    BY <2>4, OneIsAdded
  <2> QED BY <2>2, <2>3, <2>5
<1>3. ASSUME NEW value, NEW plain \in {"object", "list"}, NormalizeEvaluationResult(value, plain)
      PROVE  stored'[n].data.type \in {"object", "list"}
  <2>1. \E r : stored' = Append(stored, r) /\ r.data.type = plain
    BY <1>3 DEF NormalizeEvaluationResult
  <2> QED BY <2>1, OneIsAdded
<1>4. ASSUME NEW value, Export(value) PROVE UNCHANGED stored
  BY <1>4 DEF Export
<1>5. ASSUME NEW addr, NEW key,
             \/ \E value \in HostValues : HostWrites(addr, key, value)
             \/ HostDeletes(addr, key)
      PROVE  UNCHANGED stored
  BY <1>5 DEF HostWrites, HostDeletes
<1>6. CASE UNCHANGED vars
  BY <1>1, <1>6 DEF vars
<1> QED BY <1>1, <1>2, <1>3, <1>4, <1>5, <1>6 DEF Next

LEMMA StepKeepsStored ==
  ASSUME SidesInv, [Next]_vars
  PROVE  \A n \in DOMAIN stored : StoredStays(n)
<1>1. SidesInv' /\ SidesStay
  BY StepKeepsSides
<1>2. WellFormed(heap') /\ DOMAIN heap \subseteq DOMAIN heap'
  BY <1>1, HeapGrows DEF SidesInv, TypeOK
<1> QED BY <1>1, <1>2, AllStoredStays

LEMMA StepKeepsWhole ==
  ASSUME SidesInv, WholeInv, CommittedInv, [Next]_vars
  PROVE  WholeInv' /\ CommittedInv'
<1>1. \A n \in DOMAIN stored : StoredStays(n)
  BY StepKeepsStored
<1>2. ASSUME NEW n \in DOMAIN stored, stored'[n].kind = "context"
      PROVE  ContextWhole(heap', stored'[n]) /\ Committed(heap', stored'[n])
  <2>1. StoredStays(n) /\ stored'[n] = stored[n]
    BY <1>1 DEF StoredStays
  <2>2. ContextWhole(heap, stored[n]) /\ Committed(heap, stored[n])
    BY <1>2, <2>1 DEF WholeInv, CommittedInv
  <2> QED BY <2>1, <2>2, ContextsStayWhole, ContextsStayCommitted
<1>3. ASSUME NEW n \in DOMAIN stored' \ DOMAIN stored, stored'[n].kind = "context"
      PROVE  ContextWhole(heap', stored'[n]) /\ Committed(heap', stored'[n])
  <2>1. CASE UNCHANGED stored
    BY <2>1, NothingIsAdded
  <2>2. ASSUME NEW data \in HostValues, NEW time, NewDeterministicContext(data, time)
        PROVE  ContextWhole(heap', stored'[n]) /\ Committed(heap', stored'[n])
    BY <2>2, NewContextIsWhole, NewContextIsCommitted
  <2>3. ASSUME NEW value, NEW plain, NormalizeEvaluationResult(value, plain) PROVE FALSE
    <3>1. \E r : stored' = Append(stored, r) /\ r.kind = "result"
      BY <2>3 DEF NormalizeEvaluationResult
    <3> QED BY <1>3, <3>1, OneIsAdded
  <2>4. ASSUME NEW value, Export(value) PROVE UNCHANGED stored
    BY <2>4 DEF Export
  <2>5. ASSUME NEW addr, NEW key,
               \/ \E value \in HostValues : HostWrites(addr, key, value)
               \/ HostDeletes(addr, key)
        PROVE  UNCHANGED stored
    BY <2>5 DEF HostWrites, HostDeletes
  <2>6. CASE UNCHANGED vars
    BY <2>1, <2>6 DEF vars
  <2> QED BY <2>1, <2>2, <2>3, <2>4, <2>5, <2>6 DEF Next
<1> QED BY <1>2, <1>3 DEF WholeInv, CommittedInv

LEMMA StepKeepsRoots ==
  ASSUME SidesInv, RootsInv, [Next]_vars
  PROVE  RootsInv'
<1>1. \A n \in DOMAIN stored : stored'[n].data.type \in {"object", "list"}
  BY StepKeepsStored DEF StoredStays, RootsInv
<1>2. \A n \in DOMAIN stored' \ DOMAIN stored : stored'[n].data.type \in {"object", "list"}
  BY NewRootIsPlain
<1> QED BY <1>1, <1>2 DEF RootsInv

FaithfulInv == SidesInv /\ WholeInv /\ CommittedInv /\ RootsInv

LEMMA ContextsAreWhole ==
  Spec => []FaithfulInv
<1>1. Init => FaithfulInv
  <2>1. Init => DOMAIN stored = {}
    BY DEF Init
  <2> QED BY <2>1, InitHasSides DEF FaithfulInv, WholeInv, CommittedInv, RootsInv
<1>2. FaithfulInv /\ [Next]_vars => FaithfulInv'
  BY StepKeepsSides, StepKeepsWhole, StepKeepsRoots DEF FaithfulInv
<1> QED BY <1>1, <1>2, PTL DEF Spec

(* What Data, Get and GetItem copy. *)
LEMMA ExportableIsWhole ==
  ASSUME FaithfulInv, NEW n \in Contexts, NEW value \in Exportable(n)
  PROVE  /\ value \in Values(heap) /\ SelfRetained(heap, value)
         /\ stored[n].issues = {} => AllSound(heap, value)
<1> DEFINE v == stored[n].data
<1>1. /\ WellFormed(heap) /\ IsObject(v) /\ v \in Values(heap)
      /\ SelfRetained(heap, v) /\ (stored[n].issues = {} => AllSound(heap, v))
  BY DEF FaithfulInv, SidesInv, TypeOK, WholeInv, ContextWhole, Contexts
<1>2. Items(heap, v) = heap[v.addr].items
  BY <1>1 DEF Items
<1>3. value \in Values(heap)
  BY ExportableIsThere DEF FaithfulInv, Contexts
<1>4. CASE value = v
  BY <1>1, <1>4
<1>5. CASE value # v
  <2>1. PICK key \in DOMAIN Items(heap, v) : value = Items(heap, v)[key]
    BY <1>2, <1>5 DEF Exportable
  <2>2. SelfRetained(heap, value)
    BY <1>1, <2>1, ElementsAreSelfRetained
  <2>3. stored[n].issues = {} => AllSound(heap, value)
    BY <1>1, <2>1, ElementsAreSound
  <2> QED BY <1>3, <2>2, <2>3
<1> QED BY <1>4, <1>5

(* A copy of the cloner says the same, in its own heap and in any other.     *)
LEMMA DeepCopySays ==
  ASSUME NEW h, WellFormed(h), NEW v \in Values(h), SelfRetained(h, v), NEW at \in Addresses,
         NEW c, c = DeepCopy(h, v, at), NEW g, WellFormed(g), Embedded(c, g), c.value \in Values(g)
  PROVE  /\ Unfold(g, c.value) = Unfold(h, v)
         /\ AllSound(h, v) => c.issues = {}
<1>1. v \notin Unsupported
  BY RetainedIsSupported
<1>2. c = CloneFunction(h)[Start(v, at, 0)]
  BY CloneWalks DEF DeepCopy
<1>3. CopyOf(h, v, at, g, c.value)
  BY <1>1, <1>2, ClonesAreCopiesOf
<1>4. Unfold(h, v) = Unfold(g, c.value)
  BY <1>3, CopiesOfRetained, TwinsUnfold
<1>5. ASSUME AllSound(h, v) PROVE c.issues = {}
  <2>1. PathsOf(h, v, Reported) = Led(h, v, Reported)
    <3>1. Reported \in Nat
      BY DepthConstants DEF Reported
    <3> QED BY <3>1, PathsAreLed DEF Found
  <2> QED BY <1>2, <1>5, <2>1, SoundHasNoIssues DEF AllSound, Led
<1> QED BY <1>4, <1>5

LEMMA WholeExportsFaithfully ==
  FaithfulInv => ExportsFaithful
<1> SUFFICES ASSUME FaithfulInv, NEW n \in Contexts, NEW value \in Exportable(n)
             PROVE  LET copy == DeepCopy(heap, value, ExportAddress(exports + 1))
                    IN  /\ Unfold(copy.objects, copy.value) = Unfold(heap, value)
                        /\ stored[n].issues = {} => copy.issues = {}
  BY DEF ExportsFaithful
<1> DEFINE at == ExportAddress(exports + 1)
           copy == DeepCopy(heap, value, at)
<1>1. WellFormed(heap) /\ exports \in Nat
  BY DEF FaithfulInv, SidesInv, TypeOK, Known
<1>2. at \in Addresses
  BY <1>1 DEF ExportAddress, Addresses
<1>3. /\ value \in Values(heap) /\ SelfRetained(heap, value)
      /\ stored[n].issues = {} => AllSound(heap, value)
  BY ExportableIsWhole
<1>4. Copy(at, copy)
  BY <1>1, <1>2, <1>3, DeepCopyIsACopy
<1>5. WellFormed(copy.objects) /\ copy.value \in Values(copy.objects) /\ Embedded(copy, copy.objects)
  BY <1>4 DEF Copy, Embedded
<1> HIDE DEF at
<1>6. Unfold(copy.objects, copy.value) = Unfold(heap, value) /\ (AllSound(heap, value) => copy.issues = {})
  <2>1. copy = DeepCopy(heap, value, at)
    OBVIOUS
  <2> HIDE DEF copy
  <2> QED BY <1>1, <1>2, <1>3, <1>5, <2>1, DeepCopySays
<1> QED BY <1>3, <1>6 DEF at

LEMMA WholeMeetsSpecification ==
  FaithfulInv => MeetsSpecification
<1> SUFFICES ASSUME FaithfulInv, NEW n \in Contexts, NEW key \in ToSet(KeyOrder), stored[n].issues = {}
             PROVE  Get(n, key) = SpecGet(stored[n].given, key)
  BY DEF MeetsSpecification
<1> DEFINE v == stored[n].data
           at == ExportAddress(exports + 1)
           copy == DeepCopy(heap, Items(heap, v)[key], at)
           E == Extended(heap, copy.objects)
<1>0. key \in Keys
  BY DEF ToSet, KeyOrder, Keys
<1>1. /\ WellFormed(heap) /\ exports \in Nat /\ IsObject(v) /\ v \in Values(heap)
      /\ AllSound(heap, v) /\ stored[n].given = Unfold(heap, v)
  BY DEF FaithfulInv, SidesInv, TypeOK, Known, WholeInv, ContextWhole, Contexts
<1>2. Items(heap, v) = heap[v.addr].items
  BY <1>1 DEF Items
<1>3. Get(n, key) = IF key \in DOMAIN Items(heap, v) THEN Unfold(E, copy.value) ELSE Absent
  BY <1>2 DEF Get
<1>4. SpecGet(stored[n].given, key)
        = IF key \in DOMAIN Items(heap, v) THEN Subtree(Unfold(heap, v), key) ELSE Absent
  BY <1>0, <1>1, KeysOfUnfold DEF SpecGet
<1>5. CASE key \notin DOMAIN Items(heap, v)
  BY <1>3, <1>4, <1>5
<1>6. CASE key \in DOMAIN Items(heap, v)
  <2> DEFINE e == Items(heap, v)[key]
  <2>1. Subtree(Unfold(heap, v), key) = Unfold(heap, e)
    BY <1>1, <1>6, SubtreeOfUnfold
  <2>2. at \in Addresses /\ at.owner = "export" /\ at.n = exports + 1
    BY <1>1 DEF ExportAddress, Addresses
  <2>3. Fresh(heap, at)
    BY <1>1, <2>2 DEF Fresh, FaithfulInv, SidesInv, Known
  <2>4. e \in Exportable(n)
    BY <1>2, <1>6 DEF Exportable
  <2>5. e \in Values(heap) /\ SelfRetained(heap, e)
    BY <2>4, ExportableIsWhole
  <2>6. copy = DeepCopy(heap, e, at)
    OBVIOUS
  <2> HIDE DEF e, at
  <2>7. Copy(at, copy)
    BY <1>1, <2>2, <2>5, <2>6, DeepCopyIsACopy
  <2> HIDE DEF copy
  <2>8. Grown(heap, copy, E)
    BY <1>1, <2>2, <2>3, <2>7, ExtendedHeap
  <2> HIDE DEF E
  <2>9. WellFormed(E) /\ Embedded(copy, E) /\ copy.value \in Values(E)
    BY <2>7, <2>8 DEF Grown, Embedded, Copy
  <2>10. Unfold(E, copy.value) = Unfold(heap, e)
    BY <1>1, <2>2, <2>5, <2>6, <2>9, DeepCopySays
  <2> QED BY <1>3, <1>4, <1>6, <2>1, <2>10
<1> QED BY <1>5, <1>6

(* What is stored is a tree, and the canonical form tells all of it.         *)
LEMMA CommittedBinds ==
  FaithfulInv => CanonicalFormBinds
<1> SUFFICES ASSUME FaithfulInv, NEW m \in DOMAIN stored, NEW n \in DOMAIN stored \ {m}
             PROVE  /\ WriteCanonicalValue(TreeOf(m)) = WriteCanonicalValue(TreeOf(n)) => TreeOf(m) = TreeOf(n)
                    /\ ({m, n} \subseteq Contexts /\ stored[m].issues = {} /\ stored[n].issues = {})
                         => (stored[m].commitment = stored[n].commitment
                              <=> stored[m].time = stored[n].time /\ TreeOf(m) = TreeOf(n))
  BY DEF CanonicalFormBinds
<1>1. IsTree(TreeOf(m)) /\ IsTree(TreeOf(n))
  BY UnfoldIsTree DEF FaithfulInv, SidesInv, TypeOK, TreeOf
<1>2. WriteCanonicalValue(TreeOf(m)) = WriteCanonicalValue(TreeOf(n)) => TreeOf(m) = TreeOf(n)
  BY <1>1, CanonicalFormTells
<1>3. ASSUME {m, n} \subseteq Contexts, stored[m].issues = {}, stored[n].issues = {}
      PROVE  stored[m].commitment = stored[n].commitment
               <=> stored[m].time = stored[n].time /\ TreeOf(m) = TreeOf(n)
  <2>1. stored[m].commitment = ContextCommitment(TreeOf(m), stored[m].time)
    BY <1>3 DEF FaithfulInv, CommittedInv, Committed, Contexts, TreeOf
  <2>2. stored[n].commitment = ContextCommitment(TreeOf(n), stored[n].time)
    BY <1>3 DEF FaithfulInv, CommittedInv, Committed, Contexts, TreeOf
  <2> DEFINE s == TreeOf(m)
             t == TreeOf(n)
             x == stored[m].time
             y == stored[n].time
  <2>3. IsTree(s) /\ IsTree(t)
    BY <1>1
  <2> HIDE DEF s, t, x, y
  <2>4. ContextCommitment(s, x) = ContextCommitment(t, y) => x = y /\ s = t
    BY <2>3, CommitmentTells
  <2>5. x = y /\ s = t => ContextCommitment(s, x) = ContextCommitment(t, y)
    OBVIOUS
  <2> QED BY <2>1, <2>2, <2>4, <2>5 DEF s, t, x, y
<1> QED BY <1>2, <1>3

(* The stored form of what is stored is copied as it is, and tells all of it. *)
LEMMA StoredBinds ==
  FaithfulInv => EncodingBinds
<1> SUFFICES ASSUME FaithfulInv, NEW m \in DOMAIN stored, EncodeProofRoot(TreeOf(m)) # NoTree
             PROVE  LET encoded == EncodeProofRoot(TreeOf(m))
                    IN  /\ CloneStored(encoded) = encoded
                        /\ \A n \in DOMAIN stored \ {m} :
                             encoded = EncodeProofRoot(TreeOf(n)) => TreeOf(m) = TreeOf(n)
  BY DEF EncodingBinds
<1>1. \A n \in DOMAIN stored : IsTree(TreeOf(n)) /\ IsRoot(TreeOf(n))
  BY UnfoldIsTree, ObjectsAreRoots DEF FaithfulInv, SidesInv, TypeOK, RootsInv, TreeOf
<1>2. CloneStored(EncodeProofRoot(TreeOf(m))) = EncodeProofRoot(TreeOf(m))
  BY <1>1, EncodingIsStored
<1>3. ASSUME NEW n \in DOMAIN stored \ {m}, EncodeProofRoot(TreeOf(m)) = EncodeProofRoot(TreeOf(n))
      PROVE  TreeOf(m) = TreeOf(n)
  BY <1>1, <1>3, EncodingTells
<1> QED BY <1>2, <1>3

(* The copies that Data, Get and GetItem answer say what the context says,   *)
(* although deepCopy drops the errors of the cloner and begins again at      *)
(* depth 0: what the context holds is what a second copy keeps.              *)
THEOREM CopiesAreFaithful ==
  Spec => []ExportsFaithful
BY WholeExportsFaithfully, ContextsAreWhole, PTL

(* A valid context implements DeterministicContextSpec: at every key, for    *)
(* ever, it answers what the data said when it was made, whatever the host   *)
(* program does to that data and to the answers.                             *)
THEOREM ContextsMeetSpecification ==
  Spec => []MeetsSpecification
BY WholeMeetsSpecification, ContextsAreWhole, PTL

(* Two valid contexts have one commitment exactly when they were made at one *)
(* logical time and say the same, type by type, and no two contents have one *)
(* canonical form: writeFrame, the lengths and the sorted keys leave no two  *)
(* readings of what is hashed.                                               *)
THEOREM CommitmentsBind ==
  Spec => []CanonicalFormBinds
BY CommittedBinds, ContextsAreWhole, PTL

(* What the generator makes of a context or a result is what the verifier    *)
(* accepts and clones unchanged, and no two of them have one stored form:    *)
(* the tags keep the types that PlainType forgets, and nothing that is in a  *)
(* value can be taken for a tag, since every map is put inside of one.       *)
THEOREM StoredFormsBind ==
  Spec => []EncodingBinds
BY StoredBinds, ContextsAreWhole, PTL
=============================================================================
