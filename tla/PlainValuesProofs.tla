-------------------------- MODULE PlainValuesProofs --------------------------
(***************************************************************************)
(* What the walks over plain values answer, for every heap, with whatever  *)
(* sharing and cycles, and every depth.  The walks are recursive functions *)
(* over places of the heap; that they are what their equations say, and    *)
(* what they answer, is proved by induction on the depth that is left.     *)
(***************************************************************************)
EXTENDS PlainValues, WellFoundedInduction, FiniteSetTheorems, TLAPS

-----------------------------------------------------------------------------
(* Induction, for sets of numbers. *)

LEMMA Least ==
  ASSUME NEW T, T \subseteq Nat, T # {}
  PROVE  \E x \in T : \A y \in T : x <= y
<1>1. IsWellFoundedOn(OpToRel(<, Nat), Nat)
  BY NatLessThanWellFounded
<1>2. PICK x \in T : \A y \in T : ~(<<y, x>> \in OpToRel(<, Nat))
  BY <1>1, WFMin
<1>3. \A y \in T : <<y, x>> \in OpToRel(<, Nat) <=> y < x
  BY SMT DEF OpToRel
<1>4. ASSUME NEW y \in T PROVE x <= y
  <2>1. x \in Nat /\ y \in Nat /\ ~(y < x)
    BY <1>2, <1>3
  <2> QED BY <2>1
<1> QED BY <1>4

LEMMA Induction ==
  ASSUME NEW S, 0 \in S, \A n \in Nat : n \in S => n + 1 \in S
  PROVE  Nat \subseteq S
<1> DEFINE T == Nat \ S
<1> SUFFICES ASSUME T # {} PROVE FALSE
  OBVIOUS
<1>1. PICK x \in T : \A y \in T : x <= y
  BY Least
<1>2. x # 0 /\ x - 1 \in Nat /\ x - 1 \notin T
  BY <1>1
<1> QED BY <1>1, <1>2

-----------------------------------------------------------------------------
(* Values and places. *)

LEMMA RefFields ==
  ASSUME NEW type, NEW addr
  PROVE  /\ Ref(type, addr).type = type
         /\ Ref(type, addr).addr = addr
         /\ Ref(type, addr).val = ""
BY DEF Ref

LEMMA AddressesAreReal ==
  NoAddress \notin Addresses
BY DEF NoAddress, Addresses

LEMMA ObjectsOfValues ==
  ASSUME NEW h, WellFormed(h), NEW v \in Values(h)
  PROVE  /\ IsObject(v) => v.addr \in DOMAIN h /\ v = Ref(h[v.addr].type, v.addr)
         /\ IsObject(v) => v.type = h[v.addr].type /\ v.type \in Containers
         /\ v.type \in Containers /\ ~IsObject(v) => v = Ref(v.type, NoAddress)
         /\ v.type \notin Containers => v \in Scalars
<1>1. CASE v \in Scalars
  BY <1>1, ScalarValues DEF IsObject
<1>2. CASE v \in PlainNils
  <2>1. PICK t \in Containers : v = Ref(t, NoAddress)
    BY <1>2 DEF PlainNils
  <2>2. v.type = t /\ v.addr = NoAddress
    BY <2>1 DEF Ref
  <2> QED BY <2>1, <2>2 DEF IsObject
<1>3. CASE v \in {Ref(h[a].type, a) : a \in DOMAIN h}
  <2>1. PICK a \in DOMAIN h : v = Ref(h[a].type, a)
    BY <1>3
  <2>2. v.type = h[a].type /\ v.addr = a
    BY <2>1 DEF Ref
  <2>3. h[a].type \in Containers /\ a # NoAddress
    BY AddressesAreReal DEF WellFormed
  <2> QED BY <2>1, <2>2, <2>3 DEF IsObject
<1> QED BY <1>1, <1>2, <1>3 DEF Values

LEMMA BelowIsAddress ==
  ASSUME NEW at \in Addresses, NEW k \in Keys
  PROVE  /\ Below(at, k) \in Addresses
         /\ Below(at, k).owner = at.owner /\ Below(at, k).n = at.n
         /\ Below(at, k).path = Append(at.path, k)
BY DEF Below, Addresses

LEMMA DownIsPlace ==
  ASSUME NEW h, WellFormed(h), NEW p \in Places(h), IsObject(p.value),
         NEW k \in DOMAIN Items(h, p.value)
  PROVE  /\ Down(h, p, k) \in Places(h)
         /\ k \in Keys
         /\ Down(h, p, k).depth > p.depth
         /\ Down(h, p, k).at = Below(p.at, k)
         /\ Down(h, p, k).value = Items(h, p.value)[k]
<1>1. p.value \in Values(h) /\ p.at \in Addresses /\ p.depth \in Nat /\ p.active \in SUBSET DOMAIN h
  BY DEF Places
<1>2. p.value.addr \in DOMAIN h
  BY <1>1, ObjectsOfValues
<1>3. k \in Keys /\ h[p.value.addr].items[k] \in Values(h)
  BY <1>2 DEF Items, WellFormed
<1>4. Below(p.at, k) \in Addresses
  BY <1>1, <1>3, BelowIsAddress
<1>5. Levels(p.value.type, h[p.value.addr].items[k]) \in {1, 2}
  BY DEF Levels
<1> QED BY <1>1, <1>2, <1>3, <1>4, <1>5 DEF Down, Places, Items

-----------------------------------------------------------------------------
(* The walks are defined: they answer what their equations say at every      *)
(* place, by induction on the depth that is left.                            *)

Near(h, limit, n) == {p \in Places(h) : p.depth + n > limit}

LEMMA NearGrows ==
  ASSUME NEW h, WellFormed(h), NEW limit \in Nat, NEW n \in Nat, NEW p \in Near(h, limit, n + 1),
         IsObject(p.value), NEW k \in DOMAIN Items(h, p.value)
  PROVE  Down(h, p, k) \in Near(h, limit, n)
<1>1. p \in Places(h) /\ p.depth \in Nat
  BY DEF Near, Places
<1>2. Down(h, p, k) \in Places(h) /\ Down(h, p, k).depth > p.depth
  BY <1>1, DownIsPlace
<1>3. Down(h, p, k).depth \in Nat
  BY <1>2 DEF Places
<1> QED BY <1>1, <1>2, <1>3 DEF Near

LEMMA NearIsAll ==
  ASSUME NEW h, NEW limit \in Nat
  PROVE  Near(h, limit, limit + 1) = Places(h)
<1>1. \A p \in Places(h) : p.depth \in Nat
  BY DEF Places
<1> QED BY <1>1 DEF Near

CloneEquation(h, f, places) == f = [p \in places |-> CloneValue(h, f, p)]
CloneFunction(h) == CHOOSE f : CloneEquation(h, f, Places(h))

LEMMA CloneIsLocal ==
  ASSUME NEW h, NEW f, NEW g, NEW p,
         p.depth <= ContextDepth /\ IsObject(p.value) =>
           \A k \in DOMAIN Items(h, p.value) : f[Down(h, p, k)] = g[Down(h, p, k)]
  PROVE  p.depth \in Nat => CloneValue(h, f, p) = CloneValue(h, g, p)
<1>1. CASE p.depth <= ContextDepth /\ IsObject(p.value)
  <2>1. [k \in DOMAIN Items(h, p.value) |-> f[Down(h, p, k)]]
          = [k \in DOMAIN Items(h, p.value) |-> g[Down(h, p, k)]]
    BY <1>1
  <2> QED BY <2>1 DEF CloneValue
<1>2. CASE ~IsObject(p.value)
  BY <1>2 DEF CloneValue
<1>3. CASE ~(p.depth <= ContextDepth)
  <2>1. p.depth \in Nat => p.depth > ContextDepth
    BY <1>3, DepthConstants
  <2> QED BY <2>1 DEF CloneValue
<1> QED BY <1>1, <1>2, <1>3

LEMMA CloneExists ==
  ASSUME NEW h, WellFormed(h)
  PROVE  \E f : CloneEquation(h, f, Places(h))
<1> DEFINE S == {n \in Nat : \E f : CloneEquation(h, f, Near(h, ContextDepth, n))}
<1>1. 0 \in S
  <2> DEFINE f == [p \in Near(h, ContextDepth, 0) |-> CloneValue(h, <<>>, p)]
  <2>1. ASSUME NEW p \in Near(h, ContextDepth, 0) PROVE CloneValue(h, f, p) = CloneValue(h, <<>>, p)
    <3>1. p.depth \in Nat /\ ~(p.depth <= ContextDepth)
      BY DepthConstants DEF Near, Places
    <3> HIDE DEF f
    <3> QED BY <3>1, CloneIsLocal
  <2>2. CloneEquation(h, f, Near(h, ContextDepth, 0))
    BY <2>1 DEF CloneEquation
  <2> QED BY <2>2
<1>2. ASSUME NEW n \in Nat, n \in S PROVE n + 1 \in S
  <2>1. PICK f : CloneEquation(h, f, Near(h, ContextDepth, n))
    BY <1>2
  <2> DEFINE g == [p \in Near(h, ContextDepth, n + 1) |-> CloneValue(h, f, p)]
  <2>2. \A p \in Near(h, ContextDepth, n) : p \in Near(h, ContextDepth, n + 1) /\ g[p] = f[p]
    <3>1. \A p \in Near(h, ContextDepth, n) : p \in Near(h, ContextDepth, n + 1)
      BY DepthConstants DEF Near, Places
    <3> QED BY <2>1, <3>1 DEF CloneEquation
  <2>3. ASSUME NEW p \in Near(h, ContextDepth, n + 1)
        PROVE  CloneValue(h, g, p) = CloneValue(h, f, p)
    <3>1. p.depth \in Nat
      BY DEF Near, Places
    <3>2. ASSUME IsObject(p.value), NEW k \in DOMAIN Items(h, p.value)
          PROVE  g[Down(h, p, k)] = f[Down(h, p, k)]
      <4>1. Down(h, p, k) \in Near(h, ContextDepth, n)
        BY <3>2, NearGrows, DepthConstants
      <4> QED BY <4>1, <2>2
    <3> HIDE DEF g
    <3> QED BY <3>1, <3>2, CloneIsLocal
  <2>4. CloneEquation(h, g, Near(h, ContextDepth, n + 1))
    BY <2>3 DEF CloneEquation
  <2> HIDE DEF g
  <2> QED BY <2>4
<1>3. Nat \subseteq S
  <2> HIDE DEF S
  <2> QED BY <1>1, <1>2, Induction
<1>4. ContextDepth + 1 \in S
  BY <1>3, DepthConstants
<1> QED BY <1>4, NearIsAll, DepthConstants

LEMMA CloneWalks ==
  ASSUME NEW h, WellFormed(h)
  PROVE  /\ \A p \in Places(h) : CloneFunction(h)[p] = CloneValue(h, CloneFunction(h), p)
         /\ \A v, at, depth : Clone(h, v, at, depth) = CloneFunction(h)[Start(v, at, depth)]
<1>1. CloneEquation(h, CloneFunction(h), Places(h))
  BY CloneExists DEF CloneFunction
<1>2. \A p \in Places(h) : CloneFunction(h)[p] = CloneValue(h, CloneFunction(h), p)
  <2> DEFINE f == CloneFunction(h)
  <2>1. f = [p \in Places(h) |-> CloneValue(h, f, p)]
    BY <1>1 DEF CloneEquation
  <2> HIDE DEF f
  <2>2. \A p \in Places(h) : f[p] = CloneValue(h, f, p)
    BY <2>1
  <2> QED BY <2>2 DEF f
<1>3. \A v, at, depth : Clone(h, v, at, depth) = CloneFunction(h)[Start(v, at, depth)]
  BY DEF Clone, CloneFunction, CloneEquation
<1> QED BY <1>2, <1>3

SnapshotEquation(h, f, places) == f = [p \in places |-> SnapshotValue(h, f, p)]
SnapshotFunction(h) == CHOOSE f : SnapshotEquation(h, f, Places(h))

LEMMA SnapshotIsLocal ==
  ASSUME NEW h, NEW f, NEW g, NEW p,
         p.depth <= PrimitiveDepth /\ IsObject(p.value) =>
           \A k \in DOMAIN Items(h, p.value) : f[Down(h, p, k)] = g[Down(h, p, k)]
  PROVE  p.depth \in Nat => SnapshotValue(h, f, p) = SnapshotValue(h, g, p)
<1>1. CASE ~(p.depth <= PrimitiveDepth)
  <2>1. p.depth \in Nat => p.depth > PrimitiveDepth
    BY <1>1, DepthConstants
  <2> QED BY <2>1 DEF SnapshotValue
<1>2. CASE p.depth <= PrimitiveDepth
  <2>1. ASSUME NEW k \in DOMAIN Items(h, p.value) PROVE f[Down(h, p, k)] = g[Down(h, p, k)]
    <3>1. IsObject(p.value)
      BY DEF Items
    <3> QED BY <1>2, <3>1
  <2>2. [k \in DOMAIN Items(h, p.value) |-> f[Down(h, p, k)]]
          = [k \in DOMAIN Items(h, p.value) |-> g[Down(h, p, k)]]
    BY <2>1
  <2> QED BY <2>2 DEF SnapshotValue
<1> QED BY <1>1, <1>2

LEMMA SnapshotExists ==
  ASSUME NEW h, WellFormed(h)
  PROVE  \E f : SnapshotEquation(h, f, Places(h))
<1> DEFINE S == {n \in Nat : \E f : SnapshotEquation(h, f, Near(h, PrimitiveDepth, n))}
<1>1. 0 \in S
  <2> DEFINE f == [p \in Near(h, PrimitiveDepth, 0) |-> SnapshotValue(h, <<>>, p)]
  <2>1. ASSUME NEW p \in Near(h, PrimitiveDepth, 0) PROVE SnapshotValue(h, f, p) = SnapshotValue(h, <<>>, p)
    <3>1. p.depth \in Nat /\ ~(p.depth <= PrimitiveDepth)
      BY DepthConstants DEF Near, Places
    <3> HIDE DEF f
    <3> QED BY <3>1, SnapshotIsLocal
  <2>2. SnapshotEquation(h, f, Near(h, PrimitiveDepth, 0))
    BY <2>1 DEF SnapshotEquation
  <2> QED BY <2>2
<1>2. ASSUME NEW n \in Nat, n \in S PROVE n + 1 \in S
  <2>1. PICK f : SnapshotEquation(h, f, Near(h, PrimitiveDepth, n))
    BY <1>2
  <2> DEFINE g == [p \in Near(h, PrimitiveDepth, n + 1) |-> SnapshotValue(h, f, p)]
  <2>2. \A p \in Near(h, PrimitiveDepth, n) : p \in Near(h, PrimitiveDepth, n + 1) /\ g[p] = f[p]
    <3>1. \A p \in Near(h, PrimitiveDepth, n) : p \in Near(h, PrimitiveDepth, n + 1)
      BY DepthConstants DEF Near, Places
    <3> QED BY <2>1, <3>1 DEF SnapshotEquation
  <2>3. ASSUME NEW p \in Near(h, PrimitiveDepth, n + 1)
        PROVE  SnapshotValue(h, g, p) = SnapshotValue(h, f, p)
    <3>1. p.depth \in Nat
      BY DEF Near, Places
    <3>2. ASSUME IsObject(p.value), NEW k \in DOMAIN Items(h, p.value)
          PROVE  g[Down(h, p, k)] = f[Down(h, p, k)]
      <4>1. Down(h, p, k) \in Near(h, PrimitiveDepth, n)
        BY <3>2, NearGrows, DepthConstants
      <4> QED BY <4>1, <2>2
    <3> HIDE DEF g
    <3> QED BY <3>1, <3>2, SnapshotIsLocal
  <2>4. SnapshotEquation(h, g, Near(h, PrimitiveDepth, n + 1))
    BY <2>3 DEF SnapshotEquation
  <2> HIDE DEF g
  <2> QED BY <2>4
<1>3. Nat \subseteq S
  <2> HIDE DEF S
  <2> QED BY <1>1, <1>2, Induction
<1>4. PrimitiveDepth + 1 \in S
  BY <1>3, DepthConstants
<1> QED BY <1>4, NearIsAll, DepthConstants

LEMMA SnapshotWalks ==
  ASSUME NEW h, WellFormed(h)
  PROVE  /\ \A p \in Places(h) : SnapshotFunction(h)[p] = SnapshotValue(h, SnapshotFunction(h), p)
         /\ \A v, at : Snapshot(h, v, at) = SnapshotFunction(h)[Start(v, at, 0)]
<1>1. SnapshotEquation(h, SnapshotFunction(h), Places(h))
  BY SnapshotExists DEF SnapshotFunction
<1>2. \A p \in Places(h) : SnapshotFunction(h)[p] = SnapshotValue(h, SnapshotFunction(h), p)
  <2> DEFINE f == SnapshotFunction(h)
  <2>1. f = [p \in Places(h) |-> SnapshotValue(h, f, p)]
    BY <1>1 DEF SnapshotEquation
  <2> HIDE DEF f
  <2>2. \A p \in Places(h) : f[p] = SnapshotValue(h, f, p)
    BY <2>1
  <2> QED BY <2>2 DEF f
<1>3. \A v, at : Snapshot(h, v, at) = SnapshotFunction(h)[Start(v, at, 0)]
  BY DEF Snapshot, SnapshotFunction, SnapshotEquation
<1> QED BY <1>2, <1>3

-----------------------------------------------------------------------------
(* Copies are self-contained: the objects of a copy lie at and below the     *)
(* address it was made at, and refer only to one another.                    *)

Inside(at, a) ==
  /\ a \in Addresses
  /\ a.owner = at.owner /\ a.n = at.n
  /\ Len(at.path) <= Len(a.path)
  /\ \A i \in 1..Len(at.path) : a.path[i] = at.path[i]

Copy(at, c) ==
  /\ WellFormed(c.objects)
  /\ c.objects = [a \in DOMAIN c.objects |-> c.objects[a]]
  /\ IsFiniteSet(DOMAIN c.objects)
  /\ \A a \in DOMAIN c.objects : Inside(at, a)
  /\ c.keep \in BOOLEAN
  /\ c.value \in Values(c.objects)
  /\ IsObject(c.value) => c.value.addr = at

LEMMA InsideBelow ==
  ASSUME NEW at \in Addresses, NEW k \in Keys, NEW a, Inside(Below(at, k), a)
  PROVE  Inside(at, a) /\ a # at /\ a.path[Len(at.path) + 1] = k
<1>1. at.path \in Seq(Keys) /\ Below(at, k).path = Append(at.path, k)
      /\ Below(at, k).owner = at.owner /\ Below(at, k).n = at.n
  BY BelowIsAddress DEF Addresses
<1>2. /\ Len(Append(at.path, k)) = Len(at.path) + 1
      /\ Append(at.path, k)[Len(at.path) + 1] = k
      /\ \A i \in 1..Len(at.path) : Append(at.path, k)[i] = at.path[i]
      /\ Len(at.path) \in Nat
  BY <1>1
<1>3. a.path \in Seq(Keys) /\ Len(a.path) \in Nat
  BY DEF Inside, Addresses
<1>4. Len(at.path) + 1 <= Len(a.path) /\ \A i \in 1..(Len(at.path) + 1) : a.path[i] = Append(at.path, k)[i]
  BY <1>1, <1>2 DEF Inside
<1>5. a # at
  BY <1>2, <1>3, <1>4
<1>6. Inside(at, a)
  BY <1>1, <1>2, <1>3, <1>4 DEF Inside
<1> QED BY <1>2, <1>4, <1>5, <1>6

LEMMA KeysAreFinite ==
  IsFiniteSet(Keys)
<1>1. Keys = {"0"} \cup {"1"} \cup {"2"} \cup {"a"} \cup {"b"} \cup {"c"}
  BY DEF Keys
<1>2. IsFiniteSet({"0"} \cup {"1"} \cup {"2"})
  BY FS_Singleton, FS_Union
<1>3. IsFiniteSet({"a"}) /\ IsFiniteSet({"b"}) /\ IsFiniteSet({"c"})
  BY FS_Singleton
<1>4. IsFiniteSet({"0"} \cup {"1"} \cup {"2"} \cup {"a"})
  BY <1>2, <1>3, FS_Union
<1>5. IsFiniteSet({"0"} \cup {"1"} \cup {"2"} \cup {"a"} \cup {"b"})
  BY <1>3, <1>4, FS_Union
<1> QED BY <1>1, <1>3, <1>5, FS_Union

LEMMA UnionIsFinite ==
  ASSUME NEW D \in SUBSET Keys, NEW f, \A k \in D : IsFiniteSet(f[k])
  PROVE  IsFiniteSet(UNION {f[k] : k \in D})
<1> DEFINE g == [k \in D |-> f[k]]
           T == {f[k] : k \in D}
<1>1. IsFiniteSet(D)
  BY KeysAreFinite, FS_Subset
<1>2. g \in Surjection(D, T)
  BY DEF Surjection
<1>3. IsFiniteSet(T)
  <2> HIDE DEF g, T
  <2> QED BY <1>1, <1>2, FS_Surjection
<1>4. \A t \in T : IsFiniteSet(t)
  OBVIOUS
<1> HIDE DEF T
<1>5. IsFiniteSet(UNION T)
  BY <1>3, <1>4, FS_UNION
<1> QED BY <1>5 DEF T

LEMMA NothingIsACopy ==
  ASSUME NEW at, NEW c, c.objects = <<>>, c.keep \in BOOLEAN, ~IsObject(c.value),
         c.value \in Scalars \cup PlainNils
  PROVE  Copy(at, c)
<1>1. IsFiniteSet(DOMAIN c.objects)
  <2>1. DOMAIN c.objects = {}
    OBVIOUS
  <2> QED BY <2>1, FS_EmptySet
<1> QED BY <1>1 DEF Copy, WellFormed, Values

(* The items of a new object: copies of elements, or values without objects. *)
ItemsOf(type, items, children) ==
  /\ items = [k \in DOMAIN items |-> items[k]]
  /\ DOMAIN items \subseteq DOMAIN children
  /\ Packed(type, items)
  /\ \A k \in DOMAIN items :
       /\ Fits(type, items[k])
       /\ (children[k].keep /\ items[k] = children[k].value) \/ items[k] \in Scalars \cup PlainNils

(* An object made of them, and the objects of the elements. *)
NewObject(at, type, items, children, c) ==
  /\ Copy(at, c)
  /\ c.keep
  /\ c.value = Ref(type, at)
  /\ at \in DOMAIN c.objects
  /\ c.objects[at] = [type |-> type, items |-> items]
  /\ \A k \in DOMAIN children : \A a \in DOMAIN children[k].objects :
       a \in DOMAIN c.objects /\ c.objects[a] = children[k].objects[a]

LEMMA AllocatedIsACopy ==
  ASSUME NEW at \in Addresses, NEW type \in Containers, NEW items, NEW children,
         DOMAIN children \subseteq Keys,
         \A k \in DOMAIN children : Copy(Below(at, k), children[k]),
         ItemsOf(type, items, children)
  PROVE  NewObject(at, type, items, children, Allocated(at, type, items, children))
<1> DEFINE c == Allocated(at, type, items, children)
           O == c.objects
           D == {at} \cup UNION {DOMAIN children[k].objects : k \in DOMAIN children}
<1>1. O = [a \in D |-> IF a = at THEN [type |-> type, items |-> items]
                        ELSE children[a.path[Len(at.path) + 1]].objects[a]]
  BY DEF Allocated
<1>2. c.keep /\ c.value = Ref(type, at)
  BY DEF Allocated
<1>3. DOMAIN O = D /\ O = [a \in DOMAIN O |-> O[a]]
  BY <1>1
<1>4. at \in DOMAIN O /\ O[at] = [type |-> type, items |-> items]
  BY <1>1
<1>5. ASSUME NEW k \in DOMAIN children, NEW a \in DOMAIN children[k].objects
      PROVE  a \in DOMAIN O /\ O[a] = children[k].objects[a] /\ Inside(at, a)
  <2>1. Inside(Below(at, k), a)
    BY DEF Copy
  <2>2. Inside(at, a) /\ a # at /\ a.path[Len(at.path) + 1] = k
    BY <2>1, InsideBelow
  <2>3. a \in D
    OBVIOUS
  <2> HIDE DEF D, c
  <2> QED BY <1>1, <2>2, <2>3
<1>6. \A a \in DOMAIN O : a = at \/ \E k \in DOMAIN children : a \in DOMAIN children[k].objects
  <2> HIDE DEF c
  <2> QED BY <1>3
<1>12. IsFiniteSet(DOMAIN O)
  <2> DEFINE f == [k \in DOMAIN children |-> DOMAIN children[k].objects]
  <2>1. \A k \in DOMAIN children : IsFiniteSet(f[k])
    BY DEF Copy
  <2>2. UNION {DOMAIN children[k].objects : k \in DOMAIN children} = UNION {f[k] : k \in DOMAIN children}
    OBVIOUS
  <2>3. IsFiniteSet(UNION {f[k] : k \in DOMAIN children})
    <3> HIDE DEF f
    <3> QED BY <2>1, UnionIsFinite
  <2>4. IsFiniteSet({at} \cup UNION {f[k] : k \in DOMAIN children})
    <3> HIDE DEF f
    <3> QED BY <2>3, FS_Singleton, FS_Union
  <2> HIDE DEF f, c
  <2> QED BY <1>3, <2>2, <2>4
<1> HIDE DEF c, D
<1>7. \A k \in DOMAIN children : Values(children[k].objects) \subseteq Values(O)
  <2> SUFFICES ASSUME NEW k \in DOMAIN children,
                      NEW a \in DOMAIN children[k].objects
               PROVE  Ref(children[k].objects[a].type, a) \in Values(O)
    BY DEF Values
  <2> QED BY <1>5 DEF Values
<1>8. WellFormed(O)
  <2> SUFFICES ASSUME NEW a \in DOMAIN O
               PROVE  /\ a \in Addresses
                      /\ O[a] = [type |-> O[a].type, items |-> O[a].items]
                      /\ O[a].type \in Containers
                      /\ O[a].items = [k \in DOMAIN O[a].items |-> O[a].items[k]]
                      /\ DOMAIN O[a].items \subseteq Keys /\ Packed(O[a].type, O[a].items)
                      /\ \A k \in DOMAIN O[a].items : O[a].items[k] \in Values(O) /\ Fits(O[a].type, O[a].items[k])
    BY DEF WellFormed
  <2>1. CASE a = at
    <3>1. O[a].type = type /\ O[a].items = items
      BY <1>4, <2>1
    <3>2. ASSUME NEW k \in DOMAIN items PROVE items[k] \in Values(O) /\ Fits(type, items[k])
      <4>1. Fits(type, items[k]) /\ k \in DOMAIN children
        BY DEF ItemsOf
      <4>2. CASE children[k].keep /\ items[k] = children[k].value
        <5>1. Copy(Below(at, k), children[k])
          BY <4>1
        <5>2. children[k].value \in Values(children[k].objects)
          BY <4>2, <5>1 DEF Copy
        <5> QED BY <4>1, <4>2, <5>2, <1>7
      <4>3. CASE items[k] \in Scalars \cup PlainNils
        BY <4>1, <4>3 DEF Values
      <4> QED BY <4>1, <4>2, <4>3 DEF ItemsOf
    <3>3. items = [k \in DOMAIN items |-> items[k]] /\ DOMAIN items \subseteq Keys /\ Packed(type, items)
      BY DEF ItemsOf
    <3> QED BY <2>1, <1>4, <3>1, <3>2, <3>3
  <2>2. ASSUME NEW k \in DOMAIN children, a \in DOMAIN children[k].objects
        PROVE  /\ a \in Addresses
               /\ O[a] = [type |-> O[a].type, items |-> O[a].items]
               /\ O[a].type \in Containers
               /\ O[a].items = [j \in DOMAIN O[a].items |-> O[a].items[j]]
               /\ DOMAIN O[a].items \subseteq Keys /\ Packed(O[a].type, O[a].items)
               /\ \A j \in DOMAIN O[a].items : O[a].items[j] \in Values(O) /\ Fits(O[a].type, O[a].items[j])
    <3>1. O[a] = children[k].objects[a]
      BY <1>5, <2>2
    <3>2. WellFormed(children[k].objects)
      BY DEF Copy
    <3> QED BY <2>2, <3>1, <3>2, <1>7 DEF WellFormed
  <2> QED BY <1>6, <2>1, <2>2
<1>9. \A a \in DOMAIN O : Inside(at, a)
  <2>1. Inside(at, at)
    BY DEF Inside, Addresses
  <2> QED BY <2>1, <1>5, <1>6
<1>10. c.value \in Values(O) /\ c.value.addr = at
  <2>1. O[at].type = type
    BY <1>4
  <2>2. Ref(type, at) \in Values(O)
    BY <1>4, <2>1 DEF Values
  <2>3. Ref(type, at).addr = at
    BY DEF Ref
  <2> QED BY <1>2, <2>2, <2>3
<1>11. Copy(at, c)
  BY <1>2, <1>3, <1>8, <1>9, <1>10, <1>12 DEF Copy
<1> QED BY <1>2, <1>4, <1>5, <1>11 DEF c, NewObject

LEMMA RefusedFields ==
  ASSUME NEW at, NEW reason
  PROVE  /\ Refused(at, reason).keep = FALSE
         /\ Refused(at, reason).objects = <<>>
         /\ Refused(at, reason).value = Nil
         /\ Refused(at, reason).issues = {<<at, reason>>}
         /\ ~IsObject(Refused(at, reason).value)
BY DEF Refused, IsObject, Nil, Scalar, Containers, MapTypes, SliceTypes

LEMMA KeptFields ==
  ASSUME NEW v
  PROVE  /\ Kept(v).keep = TRUE
         /\ Kept(v).objects = <<>>
         /\ Kept(v).value = v
         /\ Kept(v).issues = {}
BY DEF Kept

LEMMA NilIsScalar ==
  Nil \in Scalars
BY ScalarValues

LEMMA ZeroFits ==
  ASSUME NEW type \in SliceTypes
  PROVE  /\ Zero(ElementType(type)) \in Scalars \cup PlainNils
         /\ Fits(type, Zero(ElementType(type)))
         /\ ~IsObject(Zero(ElementType(type)))
<1>1. CASE type = "list"
  BY <1>1, ScalarValues DEF Zero, ElementType, Fits, Nil, Scalar, IsObject
<1>2. CASE type = "floats"
  BY <1>2, ScalarValues DEF Zero, ElementType, Fits, Scalar, IsObject
<1> QED BY <1>1, <1>2 DEF SliceTypes

(* What the cloner answers at a place: a copy of the same type. *)
ClonedCopy(h, p, c) ==
  /\ Copy(p.at, c)
  /\ c.keep => c.value.type = p.value.type

(* What the walk answers for the elements of a value. *)
Children(h, f, p) == [k \in DOMAIN Items(h, p.value) |-> f[Down(h, p, k)]]

(* A value the cloner keeps: not too deep, of a supported kind, and not      *)
(* inside itself.                                                            *)
Holdable(p) ==
  p.depth <= ContextDepth /\ p.value \notin Unsupported /\ (IsObject(p.value) => p.value.addr \notin p.active)

LEMMA MapsAreNoSlices ==
  \A t \in MapTypes : t \notin SliceTypes
BY DEF MapTypes, SliceTypes

LEMMA ObjectIsCloned ==
  ASSUME NEW h, WellFormed(h), NEW p \in Places(h), NEW f, Holdable(p), IsObject(p.value),
         \A k \in DOMAIN Items(h, p.value) : ClonedCopy(h, Down(h, p, k), f[Down(h, p, k)])
  PROVE  NewObject(p.at, p.value.type, ClonedItems(p.value.type, Children(h, f, p)), Children(h, f, p),
                   CloneValue(h, f, p))
<1> DEFINE v == p.value
           children == Children(h, f, p)
           c == CloneValue(h, f, p)
<1>0. v \in Values(h) /\ p.at \in Addresses /\ p.depth \in Nat
  BY DEF Places
<1>1. v.addr \in DOMAIN h /\ v.type = h[v.addr].type /\ v.type \in Containers
  BY <1>0, ObjectsOfValues
<1>2. c = Allocated(p.at, v.type, ClonedItems(v.type, children), children)
  <2>1. ~(p.depth > ContextDepth)
    BY <1>0, DepthConstants DEF Holdable
  <2> QED BY <2>1 DEF CloneValue, Children, Holdable
<1>3. DOMAIN children = DOMAIN Items(h, v) /\ \A k \in DOMAIN children : children[k] = f[Down(h, p, k)]
  BY DEF Children
<1>4. ASSUME NEW k \in DOMAIN children
      PROVE  /\ k \in Keys
             /\ Copy(Below(p.at, k), children[k])
             /\ children[k].keep => Fits(v.type, children[k].value)
  <2>1. ClonedCopy(h, Down(h, p, k), children[k])
    BY <1>3
  <2>2. k \in Keys /\ Down(h, p, k).at = Below(p.at, k) /\ Down(h, p, k).value = Items(h, v)[k]
    BY <1>3, DownIsPlace
  <2>3. Fits(v.type, Items(h, v)[k])
    BY <1>1, <1>3 DEF Items, WellFormed
  <2> QED BY <2>1, <2>2, <2>3 DEF ClonedCopy, Fits
<1>8. Packed(v.type, children)
  BY <1>1, <1>3 DEF Items, WellFormed, Packed
<1> HIDE DEF children, c
<1>5. ItemsOf(v.type, ClonedItems(v.type, children), children)
  <2>1. CASE v.type \in MapTypes
    <3>1. Packed(v.type, ClonedItems(v.type, children))
      BY <2>1, MapsAreNoSlices DEF Packed
    <3> QED BY <1>4, <2>1, <3>1 DEF ItemsOf, ClonedItems
  <2>2. CASE v.type \notin MapTypes
    <3>1. v.type \in SliceTypes
      BY <1>1, <2>2 DEF Containers
    <3>2. DOMAIN ClonedItems(v.type, children) = DOMAIN children
      BY <2>2 DEF ClonedItems
    <3>3. Packed(v.type, ClonedItems(v.type, children))
      BY <1>8, <3>2 DEF Packed
    <3> QED BY <1>4, <2>2, <3>1, <3>3, ZeroFits DEF ItemsOf, ClonedItems
  <2> QED BY <2>1, <2>2
<1>6. DOMAIN children \subseteq Keys /\ \A k \in DOMAIN children : Copy(Below(p.at, k), children[k])
  BY <1>4
<1>7. NewObject(p.at, v.type, ClonedItems(v.type, children), children, c)
  BY <1>0, <1>1, <1>2, <1>5, <1>6, AllocatedIsACopy
<1> QED BY <1>7 DEF children, c

LEMMA CloneMakesCopies ==
  ASSUME NEW h, WellFormed(h), NEW p \in Places(h), NEW f,
         \A k \in DOMAIN Items(h, p.value) :
           p.depth <= ContextDepth /\ IsObject(p.value) => ClonedCopy(h, Down(h, p, k), f[Down(h, p, k)])
  PROVE  ClonedCopy(h, p, CloneValue(h, f, p))
<1> DEFINE v == p.value
           c == CloneValue(h, f, p)
<1>0. v \in Values(h) /\ p.at \in Addresses /\ p.depth \in Nat
  BY DEF Places
<1>1. ASSUME NEW reason PROVE ClonedCopy(h, p, Refused(p.at, reason))
  BY NothingIsACopy, RefusedFields, NilIsScalar DEF ClonedCopy
<1>2. CASE ~IsObject(v)
  <2>1. v \in Scalars \cup PlainNils
    BY <1>0, <1>2, ObjectsOfValues DEF PlainNils
  <2>2. ClonedCopy(h, p, Kept(v))
    BY <1>2, <2>1, NothingIsACopy, KeptFields DEF ClonedCopy
  <2> QED BY <1>1, <1>2, <2>2 DEF CloneValue
<1>3. CASE IsObject(v) /\ ~Holdable(p)
  <2>1. p.depth > ContextDepth \/ v \in Unsupported \/ v.addr \in p.active
    BY <1>0, <1>3, DepthConstants DEF Holdable
  <2> QED BY <1>1, <1>3, <2>1 DEF CloneValue
<1>4. CASE IsObject(v) /\ Holdable(p)
  <2>1. NewObject(p.at, v.type, ClonedItems(v.type, Children(h, f, p)), Children(h, f, p), c)
    BY <1>4, ObjectIsCloned DEF Holdable
  <2> HIDE DEF c
  <2>2. Copy(p.at, c) /\ c.value = Ref(v.type, p.at)
    BY <2>1 DEF NewObject
  <2>3. c.value.type = v.type
    <3>1. Ref(v.type, p.at).type = v.type
      BY RefFields
    <3> QED BY <2>2, <3>1
  <2> QED BY <2>2, <2>3 DEF ClonedCopy, c
<1> QED BY <1>2, <1>3, <1>4

LEMMA ClonesAreCopies ==
  ASSUME NEW h, WellFormed(h), NEW p \in Places(h)
  PROVE  ClonedCopy(h, p, CloneFunction(h)[p])
<1> DEFINE f == CloneFunction(h)
           S == {n \in Nat : \A q \in Near(h, ContextDepth, n) : ClonedCopy(h, q, f[q])}
<1>1. 0 \in S
  <2> SUFFICES ASSUME NEW q \in Near(h, ContextDepth, 0) PROVE ClonedCopy(h, q, f[q])
    OBVIOUS
  <2>1. q \in Places(h) /\ q.depth \in Nat /\ ~(q.depth <= ContextDepth)
    BY DepthConstants DEF Near, Places
  <2>2. f[q] = CloneValue(h, f, q)
    BY <2>1, CloneWalks
  <2> HIDE DEF f
  <2> QED BY <2>1, <2>2, CloneMakesCopies
<1>2. ASSUME NEW n \in Nat, n \in S PROVE n + 1 \in S
  <2> SUFFICES ASSUME NEW q \in Near(h, ContextDepth, n + 1) PROVE ClonedCopy(h, q, f[q])
    OBVIOUS
  <2>1. q \in Places(h)
    BY DEF Near
  <2>2. f[q] = CloneValue(h, f, q)
    BY <2>1, CloneWalks
  <2>3. ASSUME NEW k \in DOMAIN Items(h, q.value), IsObject(q.value)
        PROVE  ClonedCopy(h, Down(h, q, k), f[Down(h, q, k)])
    <3>1. Down(h, q, k) \in Near(h, ContextDepth, n)
      BY <2>3, NearGrows, DepthConstants
    <3> QED BY <1>2, <3>1
  <2> HIDE DEF f
  <2> QED BY <2>1, <2>2, <2>3, CloneMakesCopies
<1>3. Nat \subseteq S
  <2> HIDE DEF S
  <2> QED BY <1>1, <1>2, Induction
<1>4. ContextDepth + 1 \in S
  BY <1>3, DepthConstants
<1> QED BY <1>4, NearIsAll, DepthConstants

(* What the snapshot of a result is: a copy that has no nil container. *)
SnapshotCopy(p, c) ==
  /\ Copy(p.at, c)
  /\ c.keep /\ c.value.type \in Containers => IsObject(c.value)

(* A value the snapshot has an object for: a container, nil or not, all of   *)
(* whose elements are kept.                                                  *)
SnapshotItems(h, f, p) == [k \in DOMAIN Children(h, f, p) |-> Children(h, f, p)[k].value]
Whole(h, f, p) ==
  /\ p.depth <= PrimitiveDepth /\ p.value \notin Unsupported /\ p.value.type \in Containers
  /\ \A k \in DOMAIN Children(h, f, p) : Children(h, f, p)[k].keep

LEMMA ObjectIsSnapshot ==
  ASSUME NEW h, WellFormed(h), NEW p \in Places(h), NEW f, Whole(h, f, p),
         \A k \in DOMAIN Items(h, p.value) :
           IsObject(p.value) => SnapshotCopy(Down(h, p, k), f[Down(h, p, k)])
  PROVE  NewObject(p.at, PlainType(p.value.type), SnapshotItems(h, f, p), Children(h, f, p),
                   SnapshotValue(h, f, p))
<1> DEFINE v == p.value
           children == Children(h, f, p)
           items == SnapshotItems(h, f, p)
           c == SnapshotValue(h, f, p)
<1>0. v \in Values(h) /\ p.at \in Addresses /\ p.depth \in Nat
  BY DEF Places
<1>1. PlainType(v.type) \in Containers /\ ElementType(PlainType(v.type)) = "any"
  BY DEF PlainType, Containers, MapTypes, SliceTypes, ElementType
<1>2. c = Allocated(p.at, PlainType(v.type), items, children)
  <2>1. ~(p.depth > PrimitiveDepth)
    BY <1>0, DepthConstants DEF Whole
  <2> QED BY <2>1 DEF SnapshotValue, SnapshotItems, Children, Whole
<1>3. DOMAIN children = DOMAIN Items(h, v) /\ \A k \in DOMAIN children : children[k] = f[Down(h, p, k)]
  BY DEF Children
<1>4. ASSUME NEW k \in DOMAIN children
      PROVE  k \in Keys /\ Copy(Below(p.at, k), children[k]) /\ children[k].keep
  <2>0. IsObject(v)
    BY <1>3 DEF Items
  <2>1. SnapshotCopy(Down(h, p, k), children[k])
    BY <1>3, <2>0
  <2>2. k \in Keys /\ Down(h, p, k).at = Below(p.at, k)
    BY <1>3, <2>0, DownIsPlace
  <2> QED BY <2>1, <2>2 DEF SnapshotCopy, Whole
<1>5. /\ items = [k \in DOMAIN items |-> items[k]] /\ DOMAIN items = DOMAIN children
      /\ \A k \in DOMAIN items : items[k] = children[k].value
  BY DEF SnapshotItems
<1>9. Packed(PlainType(v.type), items)
  <2>1. CASE v.type \in MapTypes
    BY <2>1 DEF PlainType, Packed, SliceTypes
  <2>2. CASE v.type \notin MapTypes /\ IsObject(v)
    <3>1. v.type = h[v.addr].type /\ v.addr \in DOMAIN h /\ v.type \in SliceTypes
      BY <1>0, <2>2, ObjectsOfValues DEF Containers
    <3> QED BY <1>3, <1>5, <2>2, <3>1 DEF Items, WellFormed, Packed
  <2>3. CASE ~IsObject(v)
    <3>1. DOMAIN items = {}
      BY <1>3, <1>5, <2>3 DEF Items
    <3> QED BY <3>1 DEF Packed, Indexes
  <2> QED BY <2>1, <2>2, <2>3
<1> HIDE DEF children, c, items
<1>6. ItemsOf(PlainType(v.type), items, children)
  BY <1>1, <1>4, <1>5, <1>9 DEF ItemsOf, Fits
<1>7. DOMAIN children \subseteq Keys /\ \A k \in DOMAIN children : Copy(Below(p.at, k), children[k])
  BY <1>4
<1>8. NewObject(p.at, PlainType(v.type), items, children, c)
  BY <1>0, <1>1, <1>2, <1>6, <1>7, AllocatedIsACopy
<1> QED BY <1>8 DEF children, c, items

LEMMA SnapshotMakesCopies ==
  ASSUME NEW h, WellFormed(h), NEW p \in Places(h), NEW f,
         \A k \in DOMAIN Items(h, p.value) :
           p.depth <= PrimitiveDepth /\ IsObject(p.value) => SnapshotCopy(Down(h, p, k), f[Down(h, p, k)])
  PROVE  SnapshotCopy(p, SnapshotValue(h, f, p))
<1> DEFINE v == p.value
           c == SnapshotValue(h, f, p)
<1>0. v \in Values(h) /\ p.at \in Addresses /\ p.depth \in Nat
  BY DEF Places
<1>1. ASSUME NEW reason PROVE SnapshotCopy(p, Refused(p.at, reason))
  BY NothingIsACopy, RefusedFields, NilIsScalar DEF SnapshotCopy
<1>2. CASE v.type \notin Containers
  <2>1. v \in Scalars \cup PlainNils /\ ~IsObject(v)
    BY <1>0, <1>2, ObjectsOfValues DEF IsObject
  <2>2. SnapshotCopy(p, Kept(v))
    BY <1>2, <2>1, NothingIsACopy, KeptFields DEF SnapshotCopy
  <2> QED BY <1>1, <1>2, <2>2 DEF SnapshotValue
<1>3. CASE v.type \in Containers /\ ~Whole(h, f, p)
  <2>1. \/ p.depth > PrimitiveDepth \/ v \in Unsupported
        \/ \E k \in DOMAIN Children(h, f, p) : ~Children(h, f, p)[k].keep
    BY <1>0, <1>3, DepthConstants DEF Whole
  <2> QED BY <1>1, <1>3, <2>1 DEF SnapshotValue, Children
<1>4. CASE Whole(h, f, p)
  <2>1. NewObject(p.at, PlainType(v.type), SnapshotItems(h, f, p), Children(h, f, p), c)
    BY <1>4, ObjectIsSnapshot DEF Whole
  <2> HIDE DEF c
  <2>2. Copy(p.at, c) /\ c.value = Ref(PlainType(v.type), p.at)
    BY <2>1 DEF NewObject
  <2>3. PlainType(v.type) \in Containers
    BY DEF PlainType, Containers, MapTypes, SliceTypes
  <2>4. IsObject(c.value)
    <3>0. Ref(PlainType(v.type), p.at).type = PlainType(v.type) /\ Ref(PlainType(v.type), p.at).addr = p.at
      BY DEF Ref
    <3>1. c.value.type = PlainType(v.type) /\ c.value.addr = p.at
      BY <2>2, <3>0
    <3> QED BY <1>0, <2>3, <3>1, AddressesAreReal DEF IsObject
  <2> QED BY <2>2, <2>4 DEF SnapshotCopy, c
<1> QED BY <1>2, <1>3, <1>4

LEMMA SnapshotsAreCopies ==
  ASSUME NEW h, WellFormed(h), NEW p \in Places(h)
  PROVE  SnapshotCopy(p, SnapshotFunction(h)[p])
<1> DEFINE f == SnapshotFunction(h)
           S == {n \in Nat : \A q \in Near(h, PrimitiveDepth, n) : SnapshotCopy(q, f[q])}
<1>1. 0 \in S
  <2> SUFFICES ASSUME NEW q \in Near(h, PrimitiveDepth, 0) PROVE SnapshotCopy(q, f[q])
    OBVIOUS
  <2>1. q \in Places(h) /\ q.depth \in Nat /\ ~(q.depth <= PrimitiveDepth)
    BY DepthConstants DEF Near, Places
  <2>2. f[q] = SnapshotValue(h, f, q)
    BY <2>1, SnapshotWalks
  <2> HIDE DEF f
  <2> QED BY <2>1, <2>2, SnapshotMakesCopies
<1>2. ASSUME NEW n \in Nat, n \in S PROVE n + 1 \in S
  <2> SUFFICES ASSUME NEW q \in Near(h, PrimitiveDepth, n + 1) PROVE SnapshotCopy(q, f[q])
    OBVIOUS
  <2>1. q \in Places(h)
    BY DEF Near
  <2>2. f[q] = SnapshotValue(h, f, q)
    BY <2>1, SnapshotWalks
  <2>3. ASSUME NEW k \in DOMAIN Items(h, q.value), IsObject(q.value)
        PROVE  SnapshotCopy(Down(h, q, k), f[Down(h, q, k)])
    <3>1. Down(h, q, k) \in Near(h, PrimitiveDepth, n)
      BY <2>3, NearGrows, DepthConstants
    <3> QED BY <1>2, <3>1
  <2> HIDE DEF f
  <2> QED BY <2>1, <2>2, <2>3, SnapshotMakesCopies
<1>3. Nat \subseteq S
  <2> HIDE DEF S
  <2> QED BY <1>1, <1>2, Induction
<1>4. PrimitiveDepth + 1 \in S
  BY <1>3, DepthConstants
<1> QED BY <1>4, NearIsAll, DepthConstants

LEMMA StartIsPlace ==
  ASSUME NEW h, NEW v \in Values(h), NEW at \in Addresses, NEW depth \in Nat
  PROVE  /\ Start(v, at, depth) \in Places(h)
         /\ Start(v, at, depth).value = v /\ Start(v, at, depth).at = at
         /\ Start(v, at, depth).depth = depth /\ Start(v, at, depth).active = {}
BY DEF Start, Places

-----------------------------------------------------------------------------
(* Growing heaps. *)

(* An address of a copy that was not made before. *)
Fresh(h, at) == \A a \in DOMAIN h : ~(a.owner = at.owner /\ a.n = at.n)

(* A heap with the objects of a copy in addition. *)
Grown(h, c, E) ==
  /\ WellFormed(E)
  /\ DOMAIN E = DOMAIN h \cup DOMAIN c.objects
  /\ \A a \in DOMAIN h : a \notin DOMAIN c.objects /\ E[a] = h[a]
  /\ \A a \in DOMAIN c.objects : E[a] = c.objects[a]
  /\ Values(h) \subseteq Values(E)
  /\ Values(c.objects) \subseteq Values(E)
  /\ IsFiniteSet(DOMAIN h) => IsFiniteSet(DOMAIN E)

LEMMA ExtendedHeap ==
  ASSUME NEW h, WellFormed(h), NEW at \in Addresses, Fresh(h, at), NEW c, Copy(at, c)
  PROVE  Grown(h, c, Extended(h, c.objects))
<1> DEFINE E == Extended(h, c.objects)
<1>0. WellFormed(c.objects)
  BY DEF Copy
<1>1. DOMAIN E = DOMAIN h \cup DOMAIN c.objects
  BY DEF Extended
<1>2. \A a \in DOMAIN c.objects : E[a] = c.objects[a]
  BY DEF Extended
<1>3. \A a \in DOMAIN h : a \notin DOMAIN c.objects
  BY DEF Fresh, Copy, Inside
<1>4. \A a \in DOMAIN h : E[a] = h[a]
  BY <1>3 DEF Extended
<1> HIDE DEF E
<1>5. Values(h) \subseteq Values(E) /\ Values(c.objects) \subseteq Values(E)
  <2>1. \A a \in DOMAIN h : Ref(h[a].type, a) = Ref(E[a].type, a) /\ a \in DOMAIN E
    BY <1>1, <1>4
  <2>2. \A a \in DOMAIN c.objects : Ref(c.objects[a].type, a) = Ref(E[a].type, a) /\ a \in DOMAIN E
    BY <1>1, <1>2
  <2> QED BY <2>1, <2>2 DEF Values
<1>6. WellFormed(E)
  <2>1. ASSUME NEW a \in DOMAIN h
        PROVE  /\ a \in Addresses
               /\ h[a] = [type |-> h[a].type, items |-> h[a].items]
               /\ h[a].type \in Containers
               /\ h[a].items = [k \in DOMAIN h[a].items |-> h[a].items[k]]
               /\ DOMAIN h[a].items \subseteq Keys /\ Packed(h[a].type, h[a].items)
               /\ \A k \in DOMAIN h[a].items : h[a].items[k] \in Values(E) /\ Fits(h[a].type, h[a].items[k])
    BY <1>5 DEF WellFormed
  <2>2. ASSUME NEW a \in DOMAIN c.objects
        PROVE  /\ a \in Addresses
               /\ c.objects[a] = [type |-> c.objects[a].type, items |-> c.objects[a].items]
               /\ c.objects[a].type \in Containers
               /\ c.objects[a].items = [k \in DOMAIN c.objects[a].items |-> c.objects[a].items[k]]
               /\ DOMAIN c.objects[a].items \subseteq Keys /\ Packed(c.objects[a].type, c.objects[a].items)
               /\ \A k \in DOMAIN c.objects[a].items :
                    c.objects[a].items[k] \in Values(E) /\ Fits(c.objects[a].type, c.objects[a].items[k])
    BY <1>0, <1>5 DEF WellFormed
  <2> QED BY <1>1, <1>2, <1>4, <2>1, <2>2 DEF WellFormed
<1>7. IsFiniteSet(DOMAIN h) => IsFiniteSet(DOMAIN E)
  <2>1. IsFiniteSet(DOMAIN c.objects)
    BY DEF Copy
  <2> QED BY <1>1, <2>1, FS_Union
<1>8. Grown(h, c, E)
  BY <1>1, <1>2, <1>3, <1>4, <1>5, <1>6, <1>7 DEF Grown
<1> QED BY <1>8 DEF E

-----------------------------------------------------------------------------
(* Functions defined by iteration. *)

Iteration(a, step, n, f) == f = [i \in 0..n |-> IF i = 0 THEN a ELSE step[i][f[i - 1]]]

LEMMA IterationGrows ==
  ASSUME NEW S, NEW a \in S, NEW step, NEW m \in Nat, NEW f \in [0..m -> S],
         Iteration(a, step, m, f), step[m + 1][f[m]] \in S
  PROVE  \E g \in [0..(m + 1) -> S] : Iteration(a, step, m + 1, g)
<1> DEFINE g == [i \in 0..(m + 1) |-> IF i = m + 1 THEN step[m + 1][f[m]] ELSE f[i]]
<1>1. g \in [0..(m + 1) -> S]
  OBVIOUS
<1>2. \A i \in 0..m : f[i] = IF i = 0 THEN a ELSE step[i][f[i - 1]]
  BY DEF Iteration
<1>3. \A i \in 0..m : g[i] = f[i]
  OBVIOUS
<1>4. g[m + 1] = step[m + 1][f[m]]
  OBVIOUS
<1> HIDE DEF g
<1>5. ASSUME NEW i \in 0..(m + 1)
      PROVE  g[i] = IF i = 0 THEN a ELSE step[i][g[i - 1]]
  <2>1. CASE i = m + 1
    <3>1. m \in 0..m /\ i - 1 = m /\ i # 0
      BY <2>1
    <3> QED BY <2>1, <3>1, <1>3, <1>4
  <2>2. CASE i = 0
    BY <2>2, <1>2, <1>3
  <2>3. CASE i \in 1..m
    <3>1. i \in 0..m /\ i - 1 \in 0..m /\ i # 0
      BY <2>3
    <3> QED BY <3>1, <1>2, <1>3
  <2> QED BY <2>1, <2>2, <2>3
<1>6. g = [i \in 0..(m + 1) |-> IF i = 0 THEN a ELSE step[i][g[i - 1]]]
  BY <1>1, <1>5
<1>7. Iteration(a, step, m + 1, g)
  BY <1>6 DEF Iteration
<1> QED BY <1>1, <1>7

LEMMA Iterates ==
  ASSUME NEW S, NEW a \in S, NEW step, NEW n \in Nat,
         \A i \in 1..n : \A x \in S : step[i][x] \in S
  PROVE  \E f \in [0..n -> S] : Iteration(a, step, n, f)
<1> DEFINE T == {m \in Nat : m <= n => \E f \in [0..m -> S] : Iteration(a, step, m, f)}
<1>1. 0 \in T
  <2> DEFINE f == [i \in 0..0 |-> a]
  <2>1. f \in [0..0 -> S] /\ f = [i \in 0..0 |-> IF i = 0 THEN a ELSE step[i][f[i - 1]]]
    OBVIOUS
  <2> HIDE DEF f
  <2>2. Iteration(a, step, 0, f)
    BY <2>1 DEF Iteration
  <2> QED BY <2>1, <2>2
<1>2. ASSUME NEW m \in Nat, m \in T PROVE m + 1 \in T
  <2> SUFFICES ASSUME m + 1 <= n
               PROVE  \E g \in [0..(m + 1) -> S] : Iteration(a, step, m + 1, g)
    OBVIOUS
  <2>1. PICK f \in [0..m -> S] : Iteration(a, step, m, f)
    BY <1>2
  <2>2. step[m + 1][f[m]] \in S
    <3>1. m + 1 \in 1..n /\ f[m] \in S
      OBVIOUS
    <3> QED BY <3>1
  <2> QED BY <2>1, <2>2, IterationGrows
<1>3. n \in T
  <2> HIDE DEF T
  <2> QED BY <1>1, <1>2, Induction
<1> QED BY <1>3

-----------------------------------------------------------------------------
(* Paths. *)

Found(h) == Values(h) \cup {Missing}

LEMMA MissingIsNothing ==
  ASSUME NEW h, WellFormed(h)
  PROVE  ~IsObject(Missing) /\ Missing \notin Values(h) /\ Missing.addr = NoAddress
<1>1. Missing.type = "missing" /\ Missing.addr = NoAddress
  BY DEF Missing, Scalar
<1>2. "missing" \notin Containers
  BY DEF Containers, MapTypes, SliceTypes
<1>3. \A v \in Values(h) : v.type # "missing"
  BY <1>2, ScalarValues, ObjectsOfValues
<1> QED BY <1>1, <1>2, <1>3 DEF IsObject

LEMMA ItemsAreValues ==
  ASSUME NEW h, WellFormed(h), NEW t \in Found(h)
  PROVE  /\ IsObject(t) => t \in Values(h) /\ t.addr \in DOMAIN h /\ Items(h, t) = h[t.addr].items
         /\ ~IsObject(t) => DOMAIN Items(h, t) = {}
         /\ DOMAIN Items(h, t) \subseteq Keys
         /\ \A k \in DOMAIN Items(h, t) : /\ IsObject(t)
                                          /\ Items(h, t)[k] \in Values(h)
                                          /\ ItemAt(h, t, k) = Items(h, t)[k]
         /\ \A k : k \notin DOMAIN Items(h, t) => ItemAt(h, t, k) = Missing
         /\ \A k : ItemAt(h, t, k) \in Found(h)
<1>1. IsObject(t) => t \in Values(h) /\ t.addr \in DOMAIN h /\ Items(h, t) = h[t.addr].items
  BY MissingIsNothing, ObjectsOfValues DEF Found, Items
<1>2. ~IsObject(t) => DOMAIN Items(h, t) = {}
  BY DEF Items
<1>3. DOMAIN Items(h, t) \subseteq Keys
  BY <1>1, <1>2 DEF WellFormed
<1>4. \A k \in DOMAIN Items(h, t) : Items(h, t)[k] \in Values(h)
  BY <1>1, <1>2 DEF WellFormed
<1> QED BY <1>1, <1>2, <1>3, <1>4 DEF ItemAt, Found

TrailEquation(h, v, path, f) ==
  f = [i \in 0..Len(path) |-> IF i = 0 THEN v ELSE ItemAt(h, f[i - 1], path[i])]

LEMMA TrailWalks ==
  ASSUME NEW h, WellFormed(h), NEW v \in Found(h), NEW path \in Seq(Keys)
  PROVE  /\ TrailEquation(h, v, path, Trail(h, v, path))
         /\ Trail(h, v, path)[0] = v
         /\ \A i \in 1..Len(path) : Trail(h, v, path)[i] = ItemAt(h, Trail(h, v, path)[i - 1], path[i])
         /\ \A i \in 0..Len(path) : Trail(h, v, path)[i] \in Found(h)
<1> DEFINE n == Len(path)
           step == [i \in 1..n |-> [x \in Found(h) |-> ItemAt(h, x, path[i])]]
           trail == Trail(h, v, path)
<1>1. n \in Nat
  OBVIOUS
<1>2. \A i \in 1..n : \A x \in Found(h) : step[i][x] = ItemAt(h, x, path[i])
  OBVIOUS
<1> HIDE DEF step
<1>3. \A i \in 1..n : \A x \in Found(h) : step[i][x] \in Found(h)
  BY <1>2, ItemsAreValues
<1> HIDE DEF n
<1>4. PICK f \in [0..n -> Found(h)] : Iteration(v, step, n, f)
  BY <1>1, <1>3, Iterates
<1>5. \A i \in 0..n : f[i] = IF i = 0 THEN v ELSE step[i][f[i - 1]]
  BY <1>4 DEF Iteration
<1>6. \A i \in 0..n : f[i] = IF i = 0 THEN v ELSE ItemAt(h, f[i - 1], path[i])
  <2> SUFFICES ASSUME NEW i \in 1..n PROVE step[i][f[i - 1]] = ItemAt(h, f[i - 1], path[i])
    BY <1>1, <1>5
  <2>1. f[i - 1] \in Found(h)
    BY <1>1
  <2> QED BY <1>2, <2>1
<1>7. TrailEquation(h, v, path, f)
  BY <1>6 DEF TrailEquation, n
<1>8. TrailEquation(h, v, path, trail)
  <2>1. trail = CHOOSE e : TrailEquation(h, v, path, e)
    BY DEF Trail, TrailEquation
  <2> QED BY <1>7, <2>1
<1> HIDE DEF trail
<1>9. \A i \in 0..n : trail[i] = IF i = 0 THEN v ELSE ItemAt(h, trail[i - 1], path[i])
  BY <1>8 DEF TrailEquation, n
<1>10. \A i \in 0..n : trail[i] \in Found(h)
  <2> DEFINE T == {i \in Nat : i <= n => trail[i] \in Found(h)}
  <2>1. 0 \in T
    BY <1>1, <1>9
  <2>2. ASSUME NEW i \in Nat, i \in T PROVE i + 1 \in T
    <3> SUFFICES ASSUME i + 1 <= n PROVE trail[i + 1] \in Found(h)
      OBVIOUS
    <3>1. i \in 0..n /\ trail[i] \in Found(h)
      BY <1>1, <2>2
    <3>2. i + 1 \in 0..n /\ i + 1 # 0 /\ (i + 1) - 1 = i
      BY <1>1
    <3>3. trail[i + 1] = ItemAt(h, trail[i], path[i + 1])
      BY <1>9, <3>2
    <3> QED BY <3>1, <3>3, ItemsAreValues
  <2>3. Nat \subseteq T
    <3> HIDE DEF T
    <3> QED BY <2>1, <2>2, Induction
  <2> QED BY <1>1, <2>3
<1>11. trail[0] = v /\ \A i \in 1..n : trail[i] = ItemAt(h, trail[i - 1], path[i])
  BY <1>1, <1>9
<1> QED BY <1>8, <1>10, <1>11 DEF trail, n

(* Sequences, from both ends. *)
LEMMA SplitSequence ==
  ASSUME NEW S, NEW path \in Seq(S), path # <<>>
  PROVE  \E front \in Seq(S), k \in S :
           path = Append(front, k) /\ Len(front) = Len(path) - 1 /\ Front(path) = front
<1> DEFINE n == Len(path) - 1
           front == [i \in 1..n |-> path[i]]
<1>1. n \in Nat /\ Len(path) = n + 1
  OBVIOUS
<1>2. front \in Seq(S) /\ Len(front) = n
  BY <1>1
<1>3. path[n + 1] \in S
  BY <1>1
<1>4. path = Append(front, path[n + 1])
  BY <1>1, <1>2
<1>5. Front(path) = front
  BY <1>1 DEF Front
<1> QED BY <1>1, <1>2, <1>3, <1>4, <1>5

LEMMA FrontOfSequence ==
  ASSUME NEW S, NEW p \in Seq(S), NEW k \in S
  PROVE  /\ Append(p, k) \in Seq(S) /\ Append(p, k) # <<>>
         /\ Len(Append(p, k)) = Len(p) + 1 /\ Append(p, k)[Len(p) + 1] = k
         /\ Front(Append(p, k)) = p
<1> DEFINE q == Append(p, k)
           n == Len(p)
<1>1. q \in Seq(S) /\ q # <<>> /\ Len(q) = n + 1 /\ q[n + 1] = k /\ \A i \in 1..n : q[i] = p[i]
  OBVIOUS
<1>2. n \in Nat /\ p = [i \in 1..n |-> p[i]]
  OBVIOUS
<1> HIDE DEF q, n
<1>3. Front(q) = [i \in 1..n |-> q[i]]
  BY <1>1, <1>2 DEF Front
<1>4. Front(q) = p
  BY <1>1, <1>2, <1>3
<1> QED BY <1>1, <1>4 DEF q, n

LEMMA ConsOfSequence ==
  ASSUME NEW S, NEW k \in S, NEW path \in Seq(S)
  PROVE  /\ <<k>> \o path \in Seq(S)
         /\ Len(<<k>> \o path) = Len(path) + 1
         /\ <<k>> \o path # <<>>
         /\ (<<k>> \o path)[1] = k
         /\ \A i \in 1..Len(path) : (<<k>> \o path)[i + 1] = path[i]
<1> DEFINE long == <<k>> \o path
<1>1. long \in Seq(S) /\ Len(long) = Len(path) + 1 /\ Len(path) \in Nat
  OBVIOUS
<1>2. long[1] = k /\ \A i \in 1..Len(path) : long[i + 1] = path[i]
  OBVIOUS
<1>3. long # <<>>
  <2>1. Len(<<>>) = 0
    OBVIOUS
  <2> HIDE DEF long
  <2> QED BY <1>1, <2>1
<1> QED BY <1>1, <1>2, <1>3

LEMMA HeadOfSequence ==
  ASSUME NEW S, NEW path \in Seq(S)
  PROVE  /\ path # <<>> => path = <<Head(path)>> \o Tail(path) /\ Head(path) \in S /\ Tail(path) \in Seq(S)
         /\ \A k \in S : Head(<<k>> \o path) = k /\ Tail(<<k>> \o path) = path
<1>1. ASSUME path # <<>>
      PROVE  path = <<Head(path)>> \o Tail(path) /\ Head(path) \in S /\ Tail(path) \in Seq(S)
  <2> DEFINE long == <<Head(path)>> \o Tail(path)
  <2>1. Head(path) \in S /\ Tail(path) \in Seq(S) /\ Head(path) = path[1]
        /\ Len(path) \in Nat /\ Len(path) >= 1 /\ Len(Tail(path)) = Len(path) - 1
        /\ \A i \in 1..Len(Tail(path)) : Tail(path)[i] = path[i + 1]
    BY <1>1
  <2>2. /\ long \in Seq(S) /\ Len(long) = Len(Tail(path)) + 1
        /\ long[1] = Head(path)
        /\ \A i \in 1..Len(Tail(path)) : long[i + 1] = Tail(path)[i]
    BY <2>1, ConsOfSequence
  <2> HIDE DEF long
  <2>3. ASSUME NEW i \in 1..Len(path) PROVE long[i] = path[i]
    <3>1. CASE i = 1
      BY <2>1, <2>2, <3>1
    <3>2. CASE i # 1
      <4>1. i - 1 \in 1..Len(Tail(path)) /\ (i - 1) + 1 = i
        BY <2>1, <3>2
      <4> QED BY <2>1, <2>2, <4>1
    <3> QED BY <3>1, <3>2
  <2>4. Len(long) = Len(path)
    BY <2>1, <2>2
  <2>5. long = path
    BY <2>2, <2>3, <2>4
  <2> QED BY <2>1, <2>5 DEF long
<1>2. ASSUME NEW k \in S
      PROVE  Head(<<k>> \o path) = k /\ Tail(<<k>> \o path) = path
  <2> DEFINE long == <<k>> \o path
  <2>1. /\ long \in Seq(S) /\ Len(long) = Len(path) + 1 /\ long # <<>> /\ long[1] = k
        /\ \A i \in 1..Len(path) : long[i + 1] = path[i]
    BY ConsOfSequence
  <2> HIDE DEF long
  <2>2. Len(path) \in Nat
    OBVIOUS
  <2>3. Head(long) = k /\ Tail(long) \in Seq(S) /\ Len(Tail(long)) = Len(path)
    BY <2>1, <2>2
  <2>4. \A i \in 1..Len(path) : Tail(long)[i] = long[i + 1]
    BY <2>1, <2>2
  <2>5. Tail(long) = path
    BY <2>1, <2>3, <2>4
  <2> QED BY <2>3, <2>5 DEF long
<1> QED BY <1>1, <1>2

LEMMA SplitPath ==
  ASSUME NEW path \in Seq(Keys), path # <<>>
  PROVE  \E front \in Seq(Keys), k \in Keys :
           path = Append(front, k) /\ Len(front) = Len(path) - 1 /\ Front(path) = front
BY SplitSequence

LEMMA PathInduction ==
  ASSUME NEW S, <<>> \in S,
         \A path \in Seq(Keys) : path \in S => \A k \in Keys : Append(path, k) \in S
  PROVE  Seq(Keys) \subseteq S
<1> DEFINE T == {n \in Nat : \A path \in Seq(Keys) : Len(path) = n => path \in S}
<1>1. 0 \in T
  OBVIOUS
<1>2. ASSUME NEW n \in Nat, n \in T PROVE n + 1 \in T
  <2> SUFFICES ASSUME NEW path \in Seq(Keys), Len(path) = n + 1
               PROVE  path \in S
    OBVIOUS
  <2>1. PICK front \in Seq(Keys), k \in Keys : path = Append(front, k) /\ Len(front) = n
    <3>1. path # <<>> /\ Len(path) - 1 = n
      OBVIOUS
    <3> QED BY <3>1, SplitPath
  <2>2. front \in S
    BY <1>2, <2>1
  <2> QED BY <2>1, <2>2
<1>3. Nat \subseteq T
  <2> HIDE DEF T
  <2> QED BY <1>1, <1>2, Induction
<1> QED BY <1>3

LEMMA AppendOfPaths ==
  ASSUME NEW a \in Seq(Keys), NEW b \in Seq(Keys), NEW k \in Keys
  PROVE  a \o Append(b, k) = Append(a \o b, k)
<1> DEFINE s == a \o Append(b, k)
           t == Append(a \o b, k)
<1>1. s \in Seq(Keys) /\ t \in Seq(Keys) /\ Len(s) = Len(t)
  OBVIOUS
<1>2. \A i \in 1..Len(s) : s[i] = t[i]
  OBVIOUS
<1> HIDE DEF s, t
<1>3. s = t
  BY <1>1, <1>2
<1> QED BY <1>3 DEF s, t

(* What is found at a path and at the next one. *)
LEMMA ValuesAtPaths ==
  ASSUME NEW h, WellFormed(h), NEW v \in Found(h)
  PROVE  /\ ValueAt(h, v, <<>>) = v
         /\ \A path \in Seq(Keys) : ValueAt(h, v, path) \in Found(h)
<1>1. <<>> \in Seq(Keys) /\ Len(<<>>) = 0
  OBVIOUS
<1>2. Trail(h, v, <<>>)[0] = v
  BY <1>1, TrailWalks
<1>3. ASSUME NEW path \in Seq(Keys) PROVE ValueAt(h, v, path) \in Found(h)
  <2>1. Len(path) \in 0..Len(path)
    OBVIOUS
  <2> QED BY <2>1, TrailWalks DEF ValueAt
<1> QED BY <1>1, <1>2, <1>3 DEF ValueAt

LEMMA TrailOfAppend ==
  ASSUME NEW h, WellFormed(h), NEW v \in Found(h), NEW path \in Seq(Keys), NEW k \in Keys
  PROVE  /\ \A i \in 0..Len(path) : Trail(h, v, Append(path, k))[i] = Trail(h, v, path)[i]
         /\ Trail(h, v, Append(path, k))[Len(path)] = ValueAt(h, v, path)
         /\ Trail(h, v, Append(path, k))[Len(path) + 1] = ValueAt(h, v, Append(path, k))
         /\ ValueAt(h, v, Append(path, k)) = ItemAt(h, ValueAt(h, v, path), k)
<1> DEFINE next == Append(path, k)
           n == Len(path)
           t == Trail(h, v, path)
           u == Trail(h, v, next)
<1>1. /\ next \in Seq(Keys) /\ Len(next) = n + 1 /\ n \in Nat
      /\ next[n + 1] = k /\ \A i \in 1..n : next[i] = path[i]
  OBVIOUS
<1>2. t[0] = v /\ \A i \in 1..n : t[i] = ItemAt(h, t[i - 1], path[i])
  BY TrailWalks
<1>3. u[0] = v /\ \A i \in 1..(n + 1) : u[i] = ItemAt(h, u[i - 1], next[i])
  <2> HIDE DEF next
  <2>1. u[0] = v /\ \A i \in 1..Len(next) : u[i] = ItemAt(h, u[i - 1], next[i])
    BY <1>1, TrailWalks
  <2> QED BY <1>1, <2>1
<1>4. ValueAt(h, v, path) = t[n] /\ ValueAt(h, v, next) = u[n + 1]
  BY <1>1 DEF ValueAt
<1> HIDE DEF t, u, n, next
<1>5. \A i \in 0..n : u[i] = t[i]
  <2> DEFINE T == {i \in Nat : i <= n => u[i] = t[i]}
  <2>1. 0 \in T
    BY <1>2, <1>3
  <2>2. ASSUME NEW i \in Nat, i \in T PROVE i + 1 \in T
    <3> SUFFICES ASSUME i + 1 <= n PROVE u[i + 1] = t[i + 1]
      OBVIOUS
    <3>1. u[i] = t[i] /\ i + 1 \in 1..n /\ i + 1 \in 1..(n + 1) /\ (i + 1) - 1 = i
      BY <1>1, <2>2
    <3>2. t[i + 1] = ItemAt(h, t[i], path[i + 1])
      BY <1>2, <3>1
    <3>3. u[i + 1] = ItemAt(h, u[i], next[i + 1])
      BY <1>3, <3>1
    <3> QED BY <1>1, <3>1, <3>2, <3>3
  <2>3. Nat \subseteq T
    <3> HIDE DEF T
    <3> QED BY <2>1, <2>2, Induction
  <2> QED BY <1>1, <2>3
<1>6. u[n] = t[n]
  BY <1>1, <1>5
<1>7. u[n + 1] = ItemAt(h, u[n], k)
  <2>1. n + 1 \in 1..(n + 1) /\ (n + 1) - 1 = n
    BY <1>1
  <2>2. u[n + 1] = ItemAt(h, u[(n + 1) - 1], next[n + 1])
    BY <1>3, <2>1
  <2> QED BY <1>1, <2>1, <2>2
<1> QED BY <1>4, <1>5, <1>6, <1>7 DEF t, u, n, next

(* A path that leads to something. *)
Leads(h, v, path) ==
  \A i \in 1..Len(path) : path[i] \in DOMAIN Items(h, Trail(h, v, path)[i - 1])

LEMMA LeadsOfAppend ==
  ASSUME NEW h, WellFormed(h), NEW v \in Found(h), NEW path \in Seq(Keys), NEW k \in Keys
  PROVE  Leads(h, v, Append(path, k))
           <=> Leads(h, v, path) /\ k \in DOMAIN Items(h, ValueAt(h, v, path))
<1> DEFINE next == Append(path, k)
           n == Len(path)
           t == Trail(h, v, path)
           u == Trail(h, v, next)
<1>1. /\ Len(next) = n + 1 /\ n \in Nat
      /\ next[n + 1] = k /\ \A i \in 1..n : next[i] = path[i]
  OBVIOUS
<1>2. (\A i \in 0..n : u[i] = t[i]) /\ u[n] = ValueAt(h, v, path)
  BY TrailOfAppend
<1>3. Leads(h, v, path) <=> \A i \in 1..n : path[i] \in DOMAIN Items(h, t[i - 1])
  BY DEF Leads
<1>4. Leads(h, v, next) <=> \A i \in 1..(n + 1) : next[i] \in DOMAIN Items(h, u[i - 1])
  BY <1>1 DEF Leads
<1> HIDE DEF next, n, t, u
<1>5. \A i \in 1..n : i - 1 \in 0..n
  BY <1>1
<1>6. (\A i \in 1..n : path[i] \in DOMAIN Items(h, t[i - 1]))
        <=> (\A i \in 1..n : next[i] \in DOMAIN Items(h, u[i - 1]))
  BY <1>1, <1>2, <1>5
<1>7. (n + 1) - 1 = n /\ n + 1 \in 1..(n + 1) /\ \A i \in 1..(n + 1) : i \in 1..n \/ i = n + 1
  BY <1>1
<1>8. \A i \in 1..n : i \in 1..(n + 1)
  BY <1>1
<1>9. Leads(h, v, next) <=> /\ \A i \in 1..n : next[i] \in DOMAIN Items(h, u[i - 1])
                            /\ k \in DOMAIN Items(h, u[n])
  BY <1>1, <1>4, <1>7, <1>8
<1> QED BY <1>2, <1>3, <1>6, <1>9 DEF next

LEMMA LeadsOfNothing ==
  ASSUME NEW h, NEW v
  PROVE  Leads(h, v, <<>>)
BY DEF Leads

(* A path that leads nowhere ends at Missing, and no other does. *)
LEMMA LeadsOrMisses ==
  ASSUME NEW h, WellFormed(h), NEW v \in Values(h)
  PROVE  \A path \in Seq(Keys) :
           /\ Leads(h, v, path) => ValueAt(h, v, path) \in Values(h)
           /\ ~Leads(h, v, path) => ValueAt(h, v, path) = Missing
<1> DEFINE T == {path \in Seq(Keys) : /\ Leads(h, v, path) => ValueAt(h, v, path) \in Values(h)
                                      /\ ~Leads(h, v, path) => ValueAt(h, v, path) = Missing}
<1>0. v \in Found(h)
  BY DEF Found
<1>1. <<>> \in T
  BY <1>0, LeadsOfNothing, ValuesAtPaths
<1>2. ASSUME NEW path \in Seq(Keys), path \in T, NEW k \in Keys PROVE Append(path, k) \in T
  <2> DEFINE next == Append(path, k)
             t == ValueAt(h, v, path)
  <2>1. t \in Found(h) /\ ValueAt(h, v, next) = ItemAt(h, t, k)
    BY <1>0, ValuesAtPaths, TrailOfAppend
  <2>2. Leads(h, v, next) <=> Leads(h, v, path) /\ k \in DOMAIN Items(h, t)
    BY <1>0, LeadsOfAppend
  <2>3. ~Leads(h, v, path) => t = Missing
    BY <1>2
  <2>4. next \in Seq(Keys)
    OBVIOUS
  <2> HIDE DEF next, t
  <2>5. Leads(h, v, next) => ValueAt(h, v, next) \in Values(h)
    BY <2>1, <2>2, ItemsAreValues
  <2>6. ~Leads(h, v, next) => k \notin DOMAIN Items(h, t)
    BY <2>1, <2>2, <2>3, MissingIsNothing, ItemsAreValues
  <2>7. ~Leads(h, v, next) => ValueAt(h, v, next) = Missing
    BY <2>1, <2>6, ItemsAreValues
  <2> QED BY <2>4, <2>5, <2>7 DEF next
<1>3. Seq(Keys) \subseteq T
  <2> HIDE DEF T
  <2> QED BY <1>1, <1>2, PathInduction
<1> QED BY <1>3

-----------------------------------------------------------------------------
(* The paths of a value. *)

NextPaths(h, v, path) == {Append(path, k) : k \in DOMAIN Items(h, ValueAt(h, v, path))}
Longer(h, v, known, n) == known \cup UNION {NextPaths(h, v, path) : path \in {p \in known : Len(p) = n}}
PathsEquation(h, v, n, f) ==
  f = [i \in 0..n |-> IF i = 0 THEN {<<>>} ELSE Longer(h, v, f[i - 1], i - 1)]

Led(h, v, n) == {path \in Seq(Keys) : Len(path) <= n /\ Leads(h, v, path)}

LEMMA LedByNothing ==
  ASSUME NEW h, NEW v
  PROVE  Led(h, v, 0) = {<<>>}
<1>1. \A path \in Seq(Keys) : Len(path) <= 0 => path = <<>>
  OBVIOUS
<1>2. <<>> \in Seq(Keys) /\ Len(<<>>) <= 0
  OBVIOUS
<1>3. <<>> \in Led(h, v, 0)
  BY <1>2, LeadsOfNothing DEF Led
<1>4. \A path \in Led(h, v, 0) : path = <<>>
  BY <1>1 DEF Led
<1> QED BY <1>3, <1>4

LEMMA LedByMore ==
  ASSUME NEW h, WellFormed(h), NEW v \in Found(h), NEW n \in Nat
  PROVE  Longer(h, v, Led(h, v, n), n) = Led(h, v, n + 1)
<1>1. ASSUME NEW path \in Led(h, v, n + 1)
      PROVE  path \in Longer(h, v, Led(h, v, n), n)
  <2>1. path \in Seq(Keys) /\ Len(path) <= n + 1 /\ Leads(h, v, path) /\ Len(path) \in Nat
    BY DEF Led
  <2>2. CASE Len(path) <= n
    BY <2>1, <2>2 DEF Led, Longer
  <2>3. CASE Len(path) = n + 1
    <3>1. PICK front \in Seq(Keys), k \in Keys : path = Append(front, k) /\ Len(front) = n
      BY <2>1, <2>3, SplitPath
    <3>2. Leads(h, v, front) /\ k \in DOMAIN Items(h, ValueAt(h, v, front))
      BY <2>1, <3>1, LeadsOfAppend
    <3>3. front \in Led(h, v, n)
      BY <3>1, <3>2 DEF Led
    <3>4. path \in NextPaths(h, v, front)
      BY <3>1, <3>2 DEF NextPaths
    <3> QED BY <3>1, <3>3, <3>4 DEF Longer
  <2> QED BY <2>1, <2>2, <2>3
<1>2. ASSUME NEW path \in Longer(h, v, Led(h, v, n), n)
      PROVE  path \in Led(h, v, n + 1)
  <2>1. CASE path \in Led(h, v, n)
    BY <2>1 DEF Led
  <2>2. ASSUME NEW front \in Led(h, v, n), Len(front) = n, path \in NextPaths(h, v, front)
        PROVE  path \in Led(h, v, n + 1)
    <3>1. front \in Seq(Keys) /\ Leads(h, v, front)
      BY DEF Led
    <3>2. PICK k \in DOMAIN Items(h, ValueAt(h, v, front)) : path = Append(front, k)
      BY <2>2 DEF NextPaths
    <3>3. k \in Keys
      BY <3>1, ValuesAtPaths, ItemsAreValues
    <3>4. Leads(h, v, path)
      BY <3>1, <3>2, <3>3, LeadsOfAppend
    <3>5. path \in Seq(Keys) /\ Len(path) = n + 1
      BY <2>2, <3>1, <3>2, <3>3
    <3> QED BY <3>4, <3>5 DEF Led
  <2> QED BY <2>1, <2>2 DEF Longer
<1> QED BY <1>1, <1>2

LEMMA PathsAreLed ==
  ASSUME NEW h, WellFormed(h), NEW v \in Found(h), NEW n \in Nat
  PROVE  PathsOf(h, v, n) = Led(h, v, n)
<1> DEFINE g == [i \in 0..n |-> Led(h, v, i)]
           paths == CHOOSE f : PathsEquation(h, v, n, f)
<1>1. PathsOf(h, v, n) = paths[n]
  BY DEF PathsOf, PathsEquation, Longer, NextPaths
<1>2. PathsEquation(h, v, n, g)
  <2>1. \A i \in 0..n : g[i] = IF i = 0 THEN {<<>>} ELSE Longer(h, v, g[i - 1], i - 1)
    <3> SUFFICES ASSUME NEW i \in 1..n PROVE Led(h, v, i) = Longer(h, v, Led(h, v, i - 1), i - 1)
      BY LedByNothing
    <3>1. i - 1 \in Nat /\ (i - 1) + 1 = i
      OBVIOUS
    <3> QED BY <3>1, LedByMore
  <2>2. g = [i \in 0..n |-> g[i]]
    OBVIOUS
  <2> HIDE DEF g
  <2> QED BY <2>1, <2>2 DEF PathsEquation
<1>3. PathsEquation(h, v, n, paths)
  BY <1>2
<1> HIDE DEF paths
<1>4. \A i \in 0..n : paths[i] = IF i = 0 THEN {<<>>} ELSE Longer(h, v, paths[i - 1], i - 1)
  BY <1>3 DEF PathsEquation
<1> DEFINE T == {i \in Nat : i <= n => paths[i] = Led(h, v, i)}
<1>5. 0 \in T
  <2>1. 0 \in 0..n
    OBVIOUS
  <2>2. paths[0] = {<<>>}
    BY <1>4, <2>1
  <2> QED BY <2>2, LedByNothing
<1>6. ASSUME NEW i \in Nat, i \in T PROVE i + 1 \in T
  <2> SUFFICES ASSUME i + 1 <= n PROVE paths[i + 1] = Led(h, v, i + 1)
    OBVIOUS
  <2>1. paths[i] = Led(h, v, i)
    BY <1>6
  <2>2. i + 1 \in 0..n /\ i + 1 # 0 /\ (i + 1) - 1 = i
    OBVIOUS
  <2>3. paths[i + 1] = Longer(h, v, paths[i], i)
    BY <1>4, <2>2
  <2> QED BY <2>1, <2>3, LedByMore
<1>7. n \in T
  <2> HIDE DEF T
  <2> QED BY <1>5, <1>6, Induction
<1> QED BY <1>1, <1>7

(* Two values that say the same, in two heaps. *)
Twins(h, v, g, w) == \A path \in Seq(Keys) : Alike(ValueAt(h, v, path), ValueAt(g, w, path))

LEMMA AlikeMissing ==
  ASSUME NEW h, WellFormed(h), NEW t \in Found(h), Alike(t, Missing) \/ Alike(Missing, t)
  PROVE  t = Missing
<1>1. t.type = "missing"
  BY DEF Alike, Missing, Scalar
<1>2. t \notin Values(h)
  <2>1. "missing" \notin Containers
    BY DEF Containers, MapTypes, SliceTypes
  <2> QED BY <1>1, <2>1, ScalarValues, ObjectsOfValues
<1> QED BY <1>2 DEF Found

LEMMA TwinsLead ==
  ASSUME NEW h, WellFormed(h), NEW v \in Values(h), NEW g, WellFormed(g), NEW w \in Values(g),
         Twins(h, v, g, w)
  PROVE  \A path \in Seq(Keys) : Leads(h, v, path) <=> Leads(g, w, path)
<1> SUFFICES ASSUME NEW path \in Seq(Keys)
             PROVE  Leads(h, v, path) <=> Leads(g, w, path)
  OBVIOUS
<1>1. Alike(ValueAt(h, v, path), ValueAt(g, w, path))
  BY DEF Twins
<1>2. ValueAt(h, v, path) \in Found(h) /\ ValueAt(g, w, path) \in Found(g)
  BY ValuesAtPaths DEF Found
<1>3. ValueAt(h, v, path) = Missing <=> ValueAt(g, w, path) = Missing
  BY <1>1, <1>2, AlikeMissing
<1> QED BY <1>3, LeadsOrMisses, MissingIsNothing

LEMMA TwinsUnfold ==
  ASSUME NEW h, WellFormed(h), NEW v \in Values(h), NEW g, WellFormed(g), NEW w \in Values(g),
         Twins(h, v, g, w)
  PROVE  Unfold(h, v) = Unfold(g, w)
<1>1. Deepest \in Nat
  BY DepthConstants DEF Deepest
<1>2. Led(h, v, Deepest) = Led(g, w, Deepest)
  BY TwinsLead DEF Led
<1>3. PathsOf(h, v, Deepest) = Led(h, v, Deepest) /\ PathsOf(g, w, Deepest) = Led(g, w, Deepest)
  BY <1>1, PathsAreLed DEF Found
<1>4. ASSUME NEW path \in Led(h, v, Deepest)
      PROVE  Label(ValueAt(h, v, path)) = Label(ValueAt(g, w, path))
  BY DEF Led, Twins, Alike, Label, IsObject
<1> QED BY <1>2, <1>3, <1>4 DEF Unfold

-----------------------------------------------------------------------------
(* Depths. *)

DepthEquation(h, v, path, f) ==
  f = [i \in 0..Len(path) |->
         IF i = 0 THEN 0 ELSE f[i - 1] + Levels(Trail(h, v, path)[i - 1].type, Trail(h, v, path)[i])]
DepthFunction(h, v, path) == CHOOSE f : DepthEquation(h, v, path, f)

LEMMA LevelsFacts ==
  ASSUME NEW type, NEW t
  PROVE  Levels(type, t) \in {1, 2}
BY DEF Levels

LEMMA DepthWalks ==
  ASSUME NEW h, NEW v, NEW path \in Seq(Keys)
  PROVE  /\ DepthAt(h, v, path) = DepthFunction(h, v, path)[Len(path)]
         /\ DepthFunction(h, v, path)[0] = 0
         /\ \A i \in 1..Len(path) :
              DepthFunction(h, v, path)[i] = DepthFunction(h, v, path)[i - 1]
                + Levels(Trail(h, v, path)[i - 1].type, Trail(h, v, path)[i])
         /\ \A i \in 0..Len(path) : /\ DepthFunction(h, v, path)[i] \in Nat
                                    /\ DepthFunction(h, v, path)[i] >= i
<1> DEFINE n == Len(path)
           t == Trail(h, v, path)
           step == [i \in 1..n |-> [x \in Nat |-> x + Levels(t[i - 1].type, t[i])]]
           d == DepthFunction(h, v, path)
<1>1. n \in Nat
  OBVIOUS
<1>2. \A i \in 1..n : \A x \in Nat : step[i][x] = x + Levels(t[i - 1].type, t[i])
  OBVIOUS
<1> HIDE DEF step
<1>3. \A i \in 1..n : \A x \in Nat : step[i][x] \in Nat
  <2> SUFFICES ASSUME NEW i \in 1..n, NEW x \in Nat PROVE step[i][x] \in Nat
    OBVIOUS
  <2>1. Levels(t[i - 1].type, t[i]) \in {1, 2}
    BY LevelsFacts
  <2>2. step[i][x] = x + Levels(t[i - 1].type, t[i])
    BY <1>2
  <2> QED BY <2>1, <2>2
<1> HIDE DEF n, t
<1>4. PICK f \in [0..n -> Nat] : Iteration(0, step, n, f)
  BY <1>1, <1>3, Iterates
<1>5. \A i \in 0..n : f[i] = IF i = 0 THEN 0 ELSE step[i][f[i - 1]]
  BY <1>4 DEF Iteration
<1>6. \A i \in 0..n : f[i] = IF i = 0 THEN 0 ELSE f[i - 1] + Levels(t[i - 1].type, t[i])
  <2>1. f[0] = 0
    <3>1. 0 \in 0..n
      BY <1>1
    <3>2. f[0] = IF 0 = 0 THEN 0 ELSE step[0][f[0 - 1]]
      BY <1>5, <3>1
    <3> QED BY <3>2
  <2>2. ASSUME NEW i \in 1..n PROVE f[i] = f[i - 1] + Levels(t[i - 1].type, t[i])
    <3>1. f[i - 1] \in Nat /\ i \in 0..n /\ i # 0
      BY <1>1
    <3>2. f[i] = step[i][f[i - 1]]
      BY <1>5, <3>1
    <3>3. step[i][f[i - 1]] = f[i - 1] + Levels(t[i - 1].type, t[i])
      BY <1>2, <3>1
    <3> QED BY <3>2, <3>3
  <2>3. \A i \in 0..n : i = 0 \/ i \in 1..n
    BY <1>1
  <2> QED BY <2>1, <2>2, <2>3
<1>7. DepthEquation(h, v, path, f)
  BY <1>6 DEF DepthEquation, n, t
<1>8. DepthEquation(h, v, path, d)
  BY <1>7 DEF DepthFunction
<1>9. DepthAt(h, v, path) = d[n]
  BY DEF DepthAt, DepthFunction, DepthEquation, n
<1> HIDE DEF d
<1>10. \A i \in 0..n : d[i] = IF i = 0 THEN 0 ELSE d[i - 1] + Levels(t[i - 1].type, t[i])
  BY <1>8 DEF DepthEquation, n, t
<1>11. \A i \in 0..n : d[i] \in Nat /\ d[i] >= i
  <2> DEFINE T == {i \in Nat : i <= n => d[i] \in Nat /\ d[i] >= i}
  <2>1. 0 \in T
    BY <1>1, <1>10
  <2>2. ASSUME NEW i \in Nat, i \in T PROVE i + 1 \in T
    <3> SUFFICES ASSUME i + 1 <= n PROVE d[i + 1] \in Nat /\ d[i + 1] >= i + 1
      OBVIOUS
    <3>1. d[i] \in Nat /\ d[i] >= i
      BY <1>1, <2>2
    <3>2. i + 1 \in 0..n /\ i + 1 # 0 /\ (i + 1) - 1 = i
      BY <1>1
    <3>3. d[i + 1] = d[i] + Levels(t[i].type, t[i + 1])
      BY <1>10, <3>2
    <3>4. Levels(t[i].type, t[i + 1]) \in {1, 2}
      BY LevelsFacts
    <3> QED BY <3>1, <3>3, <3>4
  <2>3. Nat \subseteq T
    <3> HIDE DEF T
    <3> QED BY <2>1, <2>2, Induction
  <2> QED BY <1>1, <2>3
<1>12. d[0] = 0 /\ \A i \in 1..n : d[i] = d[i - 1] + Levels(t[i - 1].type, t[i])
  BY <1>1, <1>10
<1> QED BY <1>9, <1>11, <1>12 DEF d, n, t

LEMMA DepthsAtPaths ==
  ASSUME NEW h, NEW v
  PROVE  /\ DepthAt(h, v, <<>>) = 0
         /\ \A path \in Seq(Keys) : DepthAt(h, v, path) \in Nat /\ DepthAt(h, v, path) >= Len(path)
<1>1. <<>> \in Seq(Keys) /\ Len(<<>>) = 0
  OBVIOUS
<1>2. DepthAt(h, v, <<>>) = DepthFunction(h, v, <<>>)[0] /\ DepthFunction(h, v, <<>>)[0] = 0
  BY <1>1, DepthWalks
<1>3. ASSUME NEW path \in Seq(Keys)
      PROVE  DepthAt(h, v, path) \in Nat /\ DepthAt(h, v, path) >= Len(path)
  <2>1. Len(path) \in 0..Len(path)
    OBVIOUS
  <2> QED BY <2>1, DepthWalks
<1> QED BY <1>2, <1>3

LEMMA DepthOfAppend ==
  ASSUME NEW h, WellFormed(h), NEW v \in Found(h), NEW path \in Seq(Keys), NEW k \in Keys
  PROVE  DepthAt(h, v, Append(path, k))
           = DepthAt(h, v, path) + Levels(ValueAt(h, v, path).type, ValueAt(h, v, Append(path, k)))
<1> DEFINE next == Append(path, k)
           n == Len(path)
           t == Trail(h, v, path)
           u == Trail(h, v, next)
           d == DepthFunction(h, v, path)
           e == DepthFunction(h, v, next)
<1>1. next \in Seq(Keys) /\ Len(next) = n + 1 /\ n \in Nat
  OBVIOUS
<1>2. /\ \A i \in 0..n : u[i] = t[i]
      /\ u[n] = ValueAt(h, v, path) /\ u[n + 1] = ValueAt(h, v, next)
  BY TrailOfAppend
<1>3. /\ DepthAt(h, v, path) = d[n]
      /\ d[0] = 0 /\ \A i \in 1..n : d[i] = d[i - 1] + Levels(t[i - 1].type, t[i])
  BY DepthWalks
<1>4. /\ DepthAt(h, v, next) = e[n + 1]
      /\ e[0] = 0 /\ \A i \in 1..(n + 1) : e[i] = e[i - 1] + Levels(u[i - 1].type, u[i])
  <2> HIDE DEF next
  <2>1. /\ DepthAt(h, v, next) = e[Len(next)]
        /\ e[0] = 0 /\ \A i \in 1..Len(next) : e[i] = e[i - 1] + Levels(u[i - 1].type, u[i])
    BY <1>1, DepthWalks
  <2> QED BY <1>1, <2>1
<1> HIDE DEF next, n, t, u, d, e
<1>5. \A i \in 0..n : e[i] = d[i]
  <2> DEFINE T == {i \in Nat : i <= n => e[i] = d[i]}
  <2>1. 0 \in T
    BY <1>3, <1>4
  <2>2. ASSUME NEW i \in Nat, i \in T PROVE i + 1 \in T
    <3> SUFFICES ASSUME i + 1 <= n PROVE e[i + 1] = d[i + 1]
      OBVIOUS
    <3>1. /\ e[i] = d[i] /\ i + 1 \in 1..n /\ i + 1 \in 1..(n + 1) /\ (i + 1) - 1 = i
          /\ i \in 0..n /\ i + 1 \in 0..n
      BY <1>1, <2>2
    <3>2. d[i + 1] = d[i] + Levels(t[i].type, t[i + 1])
      BY <1>3, <3>1
    <3>3. e[i + 1] = e[i] + Levels(u[i].type, u[i + 1])
      BY <1>4, <3>1
    <3>4. u[i] = t[i] /\ u[i + 1] = t[i + 1]
      BY <1>2, <3>1
    <3> QED BY <3>1, <3>2, <3>3, <3>4
  <2>3. Nat \subseteq T
    <3> HIDE DEF T
    <3> QED BY <2>1, <2>2, Induction
  <2> QED BY <1>1, <2>3
<1>6. n + 1 \in 1..(n + 1) /\ (n + 1) - 1 = n /\ n \in 0..n
  BY <1>1
<1>7. e[n + 1] = e[n] + Levels(u[n].type, u[n + 1])
  BY <1>4, <1>6
<1> QED BY <1>2, <1>3, <1>4, <1>5, <1>6, <1>7 DEF next

-----------------------------------------------------------------------------
(* What the walks answer at a place. *)

LEMMA UnsupportedIsScalar ==
  /\ \A v \in Unsupported : ~IsObject(v)
  /\ \A type \in SliceTypes : Zero(ElementType(type)) \notin Unsupported
<1>1. \A v \in Unsupported : ~IsObject(v)
  BY DEF Unsupported, Scalar, IsObject, Containers, MapTypes, SliceTypes
<1>2. Zero(ElementType("list")) = Nil /\ Zero(ElementType("floats")) = Scalar("float", "0")
  BY DEF Zero, ElementType
<1>3. Nil.type = "nil" /\ Scalar("float", "NaN").type = "float"
  BY DEF Nil, Scalar
<1>4. Scalar("float", "0").val = "0" /\ Scalar("float", "NaN").val = "NaN"
  BY DEF Scalar
<1>5. Nil \notin Unsupported /\ Scalar("float", "0") \notin Unsupported
  BY <1>3, <1>4 DEF Unsupported
<1> QED BY <1>1, <1>2, <1>5 DEF SliceTypes

LEMMA AlikeRef ==
  ASSUME NEW h, WellFormed(h), NEW v \in Values(h), IsObject(v), NEW at \in Addresses
  PROVE  Alike(Ref(v.type, at), v) /\ IsObject(Ref(v.type, at)) /\ Ref(v.type, at).addr = at
<1>1. v = Ref(h[v.addr].type, v.addr) /\ v.type \in Containers
  BY ObjectsOfValues
<1>2. v.val = "" /\ v.addr # NoAddress
  <2>1. \A type, addr : Ref(type, addr).val = ""
    BY DEF Ref
  <2> QED BY <1>1, <2>1 DEF IsObject
<1>3. Ref(v.type, at).type = v.type /\ Ref(v.type, at).val = "" /\ Ref(v.type, at).addr = at
  BY RefFields
<1>4. at # NoAddress
  BY AddressesAreReal
<1> QED BY <1>1, <1>2, <1>3, <1>4 DEF Alike, IsObject

(* The objects of a copy are in the heap. *)
Embedded(c, g) == \A a \in DOMAIN c.objects : a \in DOMAIN g /\ g[a] = c.objects[a]

LEMMA CloneKeeps ==
  ASSUME NEW h, WellFormed(h), NEW p \in Places(h)
  PROVE  /\ CloneFunction(h)[p].keep <=> Holdable(p)
         /\ ~Holdable(p) => CloneFunction(h)[p].issues # {}
         /\ Holdable(p) /\ ~IsObject(p.value) =>
              CloneFunction(h)[p].value = p.value /\ CloneFunction(h)[p].issues = {}
         /\ Holdable(p) /\ IsObject(p.value) =>
              /\ NewObject(p.at, p.value.type,
                           ClonedItems(p.value.type, Children(h, CloneFunction(h), p)),
                           Children(h, CloneFunction(h), p), CloneFunction(h)[p])
              /\ CloneFunction(h)[p].issues
                   = UNION {Children(h, CloneFunction(h), p)[k].issues :
                              k \in DOMAIN Children(h, CloneFunction(h), p)}
<1> DEFINE f == CloneFunction(h)
           v == p.value
           children == Children(h, f, p)
<1>1. f[p] = CloneValue(h, f, p)
  BY CloneWalks
<1>2. v \in Values(h) /\ p.depth \in Nat
  BY DEF Places
<1> HIDE DEF f
<1>3. ASSUME NEW reason
      PROVE  ~Refused(p.at, reason).keep /\ Refused(p.at, reason).issues # {}
  <2>1. Refused(p.at, reason).keep = FALSE /\ Refused(p.at, reason).issues = {<<p.at, reason>>}
    BY DEF Refused
  <2> QED BY <2>1
<1>4. CASE ~Holdable(p)
  <2>1. p.depth > ContextDepth \/ v \in Unsupported \/ (IsObject(v) /\ v.addr \in p.active)
    BY <1>2, <1>4, DepthConstants DEF Holdable
  <2>2. ~f[p].keep /\ f[p].issues # {}
    BY <1>1, <1>3, <2>1, UnsupportedIsScalar DEF CloneValue
  <2> QED BY <1>4, <2>2 DEF f
<1>5. CASE Holdable(p) /\ ~IsObject(v)
  <2>1. ~(p.depth > ContextDepth)
    BY <1>2, <1>5, DepthConstants DEF Holdable
  <2>2. f[p] = Kept(v)
    BY <1>1, <1>5, <2>1 DEF CloneValue, Holdable
  <2>3. f[p].keep /\ f[p].value = v /\ f[p].issues = {}
    BY <2>2, KeptFields
  <2> QED BY <1>5, <2>3 DEF f
<1>6. CASE Holdable(p) /\ IsObject(v)
  <2>1. ASSUME NEW k \in DOMAIN Items(h, v) PROVE ClonedCopy(h, Down(h, p, k), f[Down(h, p, k)])
    BY <1>6, DownIsPlace, ClonesAreCopies DEF f
  <2>2. NewObject(p.at, v.type, ClonedItems(v.type, children), children, f[p])
    BY <1>1, <1>6, <2>1, ObjectIsCloned
  <2>3. f[p].issues = UNION {children[k].issues : k \in DOMAIN children}
    <3>1. ~(p.depth > ContextDepth)
      BY <1>2, <1>6, DepthConstants DEF Holdable
    <3>2. f[p] = Allocated(p.at, v.type, ClonedItems(v.type, children), children)
      BY <1>1, <1>6, <3>1 DEF CloneValue, Children, Holdable
    <3> HIDE DEF children
    <3> QED BY <3>2 DEF Allocated
  <2>4. f[p].keep
    BY <2>2 DEF NewObject
  <2> QED BY <1>6, <2>2, <2>3, <2>4 DEF f
<1> QED BY <1>4, <1>5, <1>6

(* The cloner kept the value of the place, and its copy is in the heap. *)
KeptAs(h, p, g, u) ==
  /\ p \in Places(h) /\ Holdable(p)
  /\ u = CloneFunction(h)[p].value
  /\ Embedded(CloneFunction(h)[p], g)

LEMMA KeptAlike ==
  ASSUME NEW h, WellFormed(h), NEW p, NEW g, NEW u, KeptAs(h, p, g, u)
  PROVE  /\ Alike(u, p.value)
         /\ IsObject(p.value) => IsObject(u) /\ u.addr = p.at /\ p.at \in DOMAIN g
         /\ ~IsObject(p.value) => u = p.value
<1>1. p \in Places(h) /\ p.value \in Values(h) /\ p.at \in Addresses /\ Holdable(p)
  BY DEF KeptAs, Places
<1>2. CASE ~IsObject(p.value)
  <2>1. u = p.value
    BY <1>1, <1>2, CloneKeeps DEF KeptAs
  <2> QED BY <1>2, <2>1 DEF Alike
<1>3. CASE IsObject(p.value)
  <2>1. NewObject(p.at, p.value.type,
                  ClonedItems(p.value.type, Children(h, CloneFunction(h), p)),
                  Children(h, CloneFunction(h), p), CloneFunction(h)[p])
    BY <1>1, <1>3, CloneKeeps
  <2>2. u = Ref(p.value.type, p.at) /\ p.at \in DOMAIN g
    BY <2>1 DEF NewObject, KeptAs, Embedded
  <2> QED BY <1>1, <1>3, <2>2, AlikeRef
<1> QED BY <1>2, <1>3

(* What stands for an element of a kept value in the copy. *)
ElementKept(h, p, g, u, k) ==
  LET q == Down(h, p, k)
  IN  IF Holdable(q) THEN KeptAs(h, q, g, ItemAt(g, u, k))
      ELSE ItemAt(g, u, k)
             = IF p.value.type \in SliceTypes THEN Zero(ElementType(p.value.type)) ELSE Missing

LEMMA KeptElements ==
  ASSUME NEW h, WellFormed(h), NEW p, NEW g, NEW u, KeptAs(h, p, g, u), NEW k
  PROVE  /\ k \in DOMAIN Items(h, p.value) => ElementKept(h, p, g, u, k)
         /\ k \notin DOMAIN Items(h, p.value) => ItemAt(g, u, k) = Missing
<1> DEFINE f == CloneFunction(h)
           v == p.value
           children == Children(h, f, p)
           items == ClonedItems(v.type, children)
           q == Down(h, p, k)
<1>1. p \in Places(h) /\ v \in Values(h) /\ p.at \in Addresses /\ Holdable(p)
  BY DEF KeptAs, Places
<1>2. CASE ~IsObject(v)
  <2>1. u = v
    BY <1>1, <1>2, KeptAlike
  <2> QED BY <1>2, <2>1 DEF ItemAt, Items
<1>3. CASE IsObject(v)
  <2>1. NewObject(p.at, v.type, items, children, f[p])
    BY <1>1, <1>3, CloneKeeps
  <2>2. IsObject(u) /\ u.addr = p.at
    BY <1>1, <1>3, KeptAlike
  <2>3. DOMAIN children = DOMAIN Items(h, v) /\ \A j \in DOMAIN children : children[j] = f[Down(h, p, j)]
    BY DEF Children
  <2>4. v.type \in Containers
    BY <1>1, <1>3, ObjectsOfValues
  <2> HIDE DEF f, children, items
  <2>5. Items(g, u) = items
    <3>1. g[p.at] = [type |-> v.type, items |-> items]
      BY <2>1 DEF NewObject, KeptAs, Embedded, f
    <3> QED BY <2>2, <3>1 DEF Items
  <2>6. /\ DOMAIN items \subseteq DOMAIN children
        /\ \A j \in DOMAIN children : children[j].keep => j \in DOMAIN items /\ items[j] = children[j].value
        /\ \A j \in DOMAIN children :
             ~children[j].keep => IF v.type \in SliceTypes
                                  THEN j \in DOMAIN items /\ items[j] = Zero(ElementType(v.type))
                                  ELSE j \notin DOMAIN items
    <3>1. CASE v.type \in MapTypes
      <4>1. v.type \notin SliceTypes
        BY <3>1 DEF MapTypes, SliceTypes
      <4> QED BY <3>1, <4>1 DEF items, ClonedItems
    <3>2. CASE v.type \in SliceTypes
      <4>1. v.type \notin MapTypes
        BY <3>2 DEF MapTypes, SliceTypes
      <4> QED BY <3>2, <4>1 DEF items, ClonedItems
    <3> QED BY <2>4, <3>1, <3>2 DEF Containers
  <2>7. CASE k \notin DOMAIN Items(h, v)
    BY <2>3, <2>5, <2>6, <2>7 DEF ItemAt
  <2>8. CASE k \in DOMAIN Items(h, v)
    <3>1. q \in Places(h)
      BY <1>1, <1>3, <2>8, DownIsPlace
    <3>2. children[k] = f[q] /\ (f[q].keep <=> Holdable(q))
      BY <2>3, <2>8, <3>1, CloneKeeps DEF f
    <3>3. \A a \in DOMAIN children[k].objects : a \in DOMAIN f[p].objects /\ f[p].objects[a] = children[k].objects[a]
      BY <2>1, <2>3, <2>8 DEF NewObject
    <3>4. Embedded(f[q], g)
      BY <3>2, <3>3 DEF Embedded, KeptAs, f
    <3> HIDE DEF q
    <3>5. CASE Holdable(q)
      <4>1. ItemAt(g, u, k) = f[q].value
        BY <2>3, <2>5, <2>6, <2>8, <3>2, <3>5 DEF ItemAt
      <4>2. KeptAs(h, q, g, ItemAt(g, u, k))
        BY <3>1, <3>4, <3>5, <4>1 DEF KeptAs, f
      <4> QED BY <2>8, <3>5, <4>2 DEF ElementKept, q
    <3>6. CASE ~Holdable(q)
      <4>1. ItemAt(g, u, k) = IF v.type \in SliceTypes THEN Zero(ElementType(v.type)) ELSE Missing
        BY <2>3, <2>5, <2>6, <2>8, <3>2, <3>6 DEF ItemAt
      <4> QED BY <2>8, <3>6, <4>1 DEF ElementKept, q
    <3> QED BY <3>5, <3>6
  <2> QED BY <2>7, <2>8
<1> QED BY <1>2, <1>3

(* A value without issues has none in its elements. *)
LEMMA IssuesOfElements ==
  ASSUME NEW h, WellFormed(h), NEW p \in Places(h)
  PROVE  CloneFunction(h)[p].issues = {}
           <=> /\ Holdable(p)
               /\ \A k \in DOMAIN Items(h, p.value) : CloneFunction(h)[Down(h, p, k)].issues = {}
<1> DEFINE f == CloneFunction(h)
           children == Children(h, f, p)
<1>1. DOMAIN children = DOMAIN Items(h, p.value) /\ \A k \in DOMAIN children : children[k] = f[Down(h, p, k)]
  BY DEF Children
<1>2. CASE ~Holdable(p)
  BY <1>2, CloneKeeps
<1>3. CASE Holdable(p) /\ ~IsObject(p.value)
  BY <1>3, CloneKeeps DEF Items
<1>4. CASE Holdable(p) /\ IsObject(p.value)
  <2>1. f[p].issues = UNION {children[k].issues : k \in DOMAIN children}
    BY <1>4, CloneKeeps
  <2> HIDE DEF f, children
  <2>2. f[p].issues = {} <=> \A k \in DOMAIN children : children[k].issues = {}
    BY <2>1
  <2>3. f[p].issues = {} <=> \A k \in DOMAIN Items(h, p.value) : f[Down(h, p, k)].issues = {}
    BY <1>1, <2>2
  <2> QED BY <1>4, <2>3 DEF f
<1> QED BY <1>2, <1>3, <1>4

-----------------------------------------------------------------------------
(* Sound paths are the places where the cloner keeps the value. *)

Clean(h, v, path) ==
  /\ \A i \in 0..Len(path) : Trail(h, v, path)[i] # Missing /\ Trail(h, v, path)[i] \notin Unsupported
  /\ \A i, j \in 0..Len(path) :
       (i < j /\ IsObject(Trail(h, v, path)[i])) => Trail(h, v, path)[i].addr # Trail(h, v, path)[j].addr

(* What soundness asks of one more key. *)
Extends(h, v, path, t) ==
  /\ t # Missing /\ t \notin Unsupported
  /\ \A i \in 0..Len(path) :
       IsObject(Trail(h, v, path)[i]) => Trail(h, v, path)[i].addr # t.addr

LEMMA SoundIsClean ==
  ASSUME NEW h, NEW v, NEW path
  PROVE  Sound(h, v, path) <=> Clean(h, v, path) /\ DepthAt(h, v, path) <= ContextDepth
BY DEF Sound, Clean

LEMMA CleanOfAppend ==
  ASSUME NEW h, WellFormed(h), NEW v \in Found(h), NEW path \in Seq(Keys), NEW k \in Keys
  PROVE  Clean(h, v, Append(path, k))
           <=> Clean(h, v, path) /\ Extends(h, v, path, ValueAt(h, v, Append(path, k)))
<1> DEFINE next == Append(path, k)
           n == Len(path)
           t == Trail(h, v, path)
           u == Trail(h, v, next)
           last == ValueAt(h, v, next)
           Good(x) == x # Missing /\ x \notin Unsupported
           Apart(x, y) == IsObject(x) => x.addr # y.addr
<1>1. Len(next) = n + 1 /\ n \in Nat
  OBVIOUS
<1>2. (\A i \in 0..n : u[i] = t[i]) /\ u[n + 1] = last
  BY TrailOfAppend
<1>3. Clean(h, v, path) <=> /\ \A i \in 0..n : Good(t[i])
                            /\ \A i, j \in 0..n : i < j => Apart(t[i], t[j])
  BY DEF Clean
<1>4. Clean(h, v, next) <=> /\ \A i \in 0..(n + 1) : Good(u[i])
                            /\ \A i, j \in 0..(n + 1) : i < j => Apart(u[i], u[j])
  BY <1>1 DEF Clean
<1>5. Extends(h, v, path, last) <=> Good(last) /\ \A i \in 0..n : Apart(t[i], last)
  BY DEF Extends
<1> HIDE DEF next, n, t, u, last, Good, Apart
<1>6. \A i \in 0..(n + 1) : i \in 0..n \/ i = n + 1
  BY <1>1
<1>7. \A i \in 0..n : i \in 0..(n + 1) /\ i < n + 1 /\ n + 1 \in 0..(n + 1)
  BY <1>1
<1>8. n + 1 \in 0..(n + 1)
  BY <1>1
<1>9. (\A i \in 0..(n + 1) : Good(u[i])) <=> (\A i \in 0..n : Good(t[i])) /\ Good(last)
  BY <1>2, <1>6, <1>7, <1>8
<1>10. (\A i, j \in 0..(n + 1) : i < j => Apart(u[i], u[j]))
         <=> /\ \A i, j \in 0..n : i < j => Apart(t[i], t[j])
             /\ \A i \in 0..n : Apart(t[i], last)
  <2>1. ASSUME \A i, j \in 0..(n + 1) : i < j => Apart(u[i], u[j])
        PROVE  /\ \A i, j \in 0..n : i < j => Apart(t[i], t[j])
               /\ \A i \in 0..n : Apart(t[i], last)
    BY <1>2, <1>7, <2>1
  <2>2. ASSUME \A i, j \in 0..n : i < j => Apart(t[i], t[j]),
               \A i \in 0..n : Apart(t[i], last),
               NEW i \in 0..(n + 1), NEW j \in 0..(n + 1), i < j
        PROVE  Apart(u[i], u[j])
    <3>1. i \in 0..n
      BY <1>1, <2>2
    <3>2. CASE j \in 0..n
      BY <1>2, <2>2, <3>1, <3>2
    <3>3. CASE j = n + 1
      BY <1>2, <2>2, <3>1, <3>3
    <3> QED BY <1>6, <3>2, <3>3
  <2> QED BY <2>1, <2>2
<1> QED BY <1>3, <1>4, <1>5, <1>9, <1>10 DEF next, last

LEMMA SoundOfAppend ==
  ASSUME NEW h, WellFormed(h), NEW v \in Found(h), NEW path \in Seq(Keys), NEW k \in Keys
  PROVE  Sound(h, v, Append(path, k))
           <=> /\ Sound(h, v, path)
               /\ Extends(h, v, path, ValueAt(h, v, Append(path, k)))
               /\ DepthAt(h, v, Append(path, k)) <= ContextDepth
<1> DEFINE next == Append(path, k)
<1>1. next \in Seq(Keys)
  OBVIOUS
<1>2. DepthAt(h, v, path) \in Nat /\ DepthAt(h, v, next) \in Nat
  BY <1>1, DepthsAtPaths
<1>3. DepthAt(h, v, path) <= DepthAt(h, v, next)
  <2>1. DepthAt(h, v, next) = DepthAt(h, v, path) + Levels(ValueAt(h, v, path).type, ValueAt(h, v, next))
    BY DepthOfAppend
  <2>2. Levels(ValueAt(h, v, path).type, ValueAt(h, v, next)) \in {1, 2}
    BY LevelsFacts
  <2> HIDE DEF next
  <2> QED BY <1>2, <2>1, <2>2
<1>4. Clean(h, v, next) <=> Clean(h, v, path) /\ Extends(h, v, path, ValueAt(h, v, next))
  BY CleanOfAppend
<1> HIDE DEF next
<1>5. DepthAt(h, v, next) <= ContextDepth => DepthAt(h, v, path) <= ContextDepth
  BY <1>2, <1>3, DepthConstants
<1>6. Sound(h, v, next) <=> /\ Sound(h, v, path) /\ Extends(h, v, path, ValueAt(h, v, next))
                            /\ DepthAt(h, v, next) <= ContextDepth
  BY <1>4, <1>5, SoundIsClean
<1> QED BY <1>6 DEF next

LEMMA SoundOfNothing ==
  ASSUME NEW h, WellFormed(h), NEW v \in Values(h)
  PROVE  Sound(h, v, <<>>) <=> v \notin Unsupported
<1>1. v # Missing
  BY MissingIsNothing
<1>2. Trail(h, v, <<>>)[0] = v
  <2>1. <<>> \in Seq(Keys)
    OBVIOUS
  <2> QED BY <2>1, TrailWalks DEF Found
<1>3. 0..Len(<<>>) = {0}
  OBVIOUS
<1>4. Clean(h, v, <<>>) <=> v \notin Unsupported
  BY <1>1, <1>2, <1>3 DEF Clean
<1>5. DepthAt(h, v, <<>>) <= ContextDepth
  BY DepthsAtPaths, DepthConstants
<1> QED BY <1>4, <1>5, SoundIsClean

(* The place of the walk that begins with v, at the end of a path. *)
AtPath(h, v, at, path, p) ==
  /\ p \in Places(h)
  /\ p.value = ValueAt(h, v, path)
  /\ p.depth = DepthAt(h, v, path)
  /\ p.at.owner = at.owner /\ p.at.n = at.n /\ p.at.path = at.path \o path
  /\ \A i \in 0..(Len(path) - 1) : IsObject(Trail(h, v, path)[i])
  /\ p.active = {Trail(h, v, path)[i].addr : i \in 0..(Len(path) - 1)}

LEMMA StartAtPath ==
  ASSUME NEW h, WellFormed(h), NEW v \in Values(h), NEW at \in Addresses
  PROVE  AtPath(h, v, at, <<>>, Start(v, at, 0))
<1>1. ValueAt(h, v, <<>>) = v /\ DepthAt(h, v, <<>>) = 0
  BY ValuesAtPaths, DepthsAtPaths DEF Found
<1>2. 0..(Len(<<>>) - 1) = {}
  OBVIOUS
<1>3. at.path \o <<>> = at.path
  BY DEF Addresses
<1>4. /\ Start(v, at, 0) \in Places(h)
      /\ Start(v, at, 0).value = v /\ Start(v, at, 0).at = at
      /\ Start(v, at, 0).depth = 0 /\ Start(v, at, 0).active = {}
  BY StartIsPlace
<1> HIDE DEF Start
<1> QED BY <1>1, <1>2, <1>3, <1>4 DEF AtPath

LEMMA DownAtPath ==
  ASSUME NEW h, WellFormed(h), NEW v \in Values(h), NEW at \in Addresses, NEW path \in Seq(Keys), NEW p,
         AtPath(h, v, at, path, p), NEW k \in DOMAIN Items(h, p.value)
  PROVE  AtPath(h, v, at, Append(path, k), Down(h, p, k))
<1> DEFINE next == Append(path, k)
           n == Len(path)
           q == Down(h, p, k)
           t == Trail(h, v, path)
           u == Trail(h, v, next)
<1>0. p \in Places(h) /\ p.value \in Values(h) /\ p.at \in Addresses /\ IsObject(p.value) /\ v \in Found(h)
  BY DEF AtPath, Places, Items, Found
<1>1. q \in Places(h) /\ k \in Keys /\ q.at = Below(p.at, k) /\ q.value = Items(h, p.value)[k]
  BY <1>0, DownIsPlace
<1>2. /\ Len(next) = n + 1 /\ n \in Nat /\ 0..(Len(next) - 1) = 0..n
      /\ \A i \in 0..n : i \in 0..(n - 1) \/ i = n
      /\ \A i \in 0..(n - 1) : i \in 0..n
  BY <1>1
<1>3. /\ \A i \in 0..n : u[i] = t[i]
      /\ u[n] = ValueAt(h, v, path) /\ ValueAt(h, v, next) = ItemAt(h, ValueAt(h, v, path), k)
  BY <1>0, <1>1, TrailOfAppend
<1>4. q.value = ValueAt(h, v, next)
  BY <1>1, <1>3 DEF AtPath, ItemAt
<1>5. q.depth = DepthAt(h, v, next)
  <2>1. q.depth = p.depth + Levels(p.value.type, q.value)
    BY DEF Down
  <2>2. DepthAt(h, v, next) = DepthAt(h, v, path) + Levels(ValueAt(h, v, path).type, ValueAt(h, v, next))
    BY <1>0, <1>1, DepthOfAppend
  <2> QED BY <1>4, <2>1, <2>2 DEF AtPath
<1>6. q.at.owner = at.owner /\ q.at.n = at.n /\ q.at.path = at.path \o next
  <2>1. q.at.owner = p.at.owner /\ q.at.n = p.at.n /\ q.at.path = Append(p.at.path, k)
    BY <1>0, <1>1, BelowIsAddress
  <2>2. at.path \in Seq(Keys)
    BY DEF Addresses
  <2>3. at.path \o next = Append(at.path \o path, k)
    BY <1>1, <2>2, AppendOfPaths
  <2> QED BY <2>1, <2>3 DEF AtPath
<1>7. q.active = p.active \cup {p.value.addr}
  BY DEF Down
<1> HIDE DEF q, next, t, u, n
<1>8. \A i \in 0..n : IsObject(u[i])
  <2>1. \A i \in 0..(n - 1) : IsObject(t[i])
    BY DEF AtPath, t, n
  <2>2. IsObject(u[n])
    BY <1>0, <1>3 DEF AtPath
  <2> QED BY <1>2, <1>3, <2>1, <2>2
<1>9. q.active = {u[i].addr : i \in 0..n}
  <2>1. p.active = {t[i].addr : i \in 0..(n - 1)} /\ p.value.addr = u[n].addr
    BY <1>3 DEF AtPath, t, n
  <2>2. n \in 0..n
    BY <1>2
  <2> QED BY <1>2, <1>3, <1>7, <2>1, <2>2
<1>10. \A i \in 0..(Len(next) - 1) : IsObject(u[i])
  BY <1>2, <1>8
<1>11. q.active = {u[i].addr : i \in 0..(Len(next) - 1)}
  BY <1>2, <1>9
<1> QED BY <1>1, <1>4, <1>5, <1>6, <1>10, <1>11 DEF AtPath, q, next, u

LEMMA HoldableIsSound ==
  ASSUME NEW h, WellFormed(h), NEW v \in Values(h), NEW at \in Addresses, NEW path \in Seq(Keys), NEW p,
         AtPath(h, v, at, path, p), NEW k \in DOMAIN Items(h, p.value), Sound(h, v, path)
  PROVE  Holdable(Down(h, p, k)) <=> Sound(h, v, Append(path, k))
<1> DEFINE next == Append(path, k)
           n == Len(path)
           q == Down(h, p, k)
           t == Trail(h, v, path)
           u == Trail(h, v, next)
<1>0. /\ p \in Places(h) /\ p.value \in Values(h) /\ IsObject(p.value)
      /\ v \in Found(h) /\ k \in Keys
  <2>1. p \in Places(h) /\ p.value \in Values(h) /\ IsObject(p.value)
    BY DEF AtPath, Places, Items
  <2> QED BY <2>1, DownIsPlace DEF Found
<1>1. AtPath(h, v, at, next, q)
  BY DownAtPath
<1>2. q.value = ValueAt(h, v, next) /\ q.depth = DepthAt(h, v, next) /\ q.value \in Values(h)
  BY <1>1 DEF AtPath, Places
<1>3. Len(next) - 1 = n
  BY <1>0
<1>4. \A i \in 0..n : u[i] = t[i]
  BY <1>0, TrailOfAppend
<1>5. (\A i \in 0..n : IsObject(t[i])) /\ q.active = {t[i].addr : i \in 0..n}
  <2>1. (\A i \in 0..(Len(next) - 1) : IsObject(u[i])) /\ q.active = {u[i].addr : i \in 0..(Len(next) - 1)}
    BY <1>1 DEF AtPath
  <2> HIDE DEF q, next, u, t, n
  <2> QED BY <1>3, <1>4, <2>1
<1>6. \A i \in 0..n : t[i] \in Found(h)
  BY <1>0, TrailWalks
<1>7. \A i \in 0..n : t[i].addr # NoAddress
  BY <1>5 DEF IsObject
<1>8. ~IsObject(q.value) => q.value.addr = NoAddress
  <2>1. CASE q.value \in Scalars
    BY <2>1, ScalarValues DEF Scalar
  <2>2. CASE q.value \notin Scalars
    <3>1. ~IsObject(q.value) => q.value = Ref(q.value.type, NoAddress)
      BY <1>2, <2>2, ObjectsOfValues
    <3>2. Ref(q.value.type, NoAddress).addr = NoAddress
      BY RefFields
    <3> HIDE DEF q
    <3> QED BY <3>1, <3>2
  <2> QED BY <2>1, <2>2
<1> HIDE DEF q, next, t, u, n
<1>9. (IsObject(q.value) => q.value.addr \notin q.active) <=> \A i \in 0..n : t[i].addr # q.value.addr
  BY <1>5, <1>7, <1>8
<1>10. Extends(h, v, path, q.value) <=> q.value \notin Unsupported /\ \A i \in 0..n : t[i].addr # q.value.addr
  <2>1. q.value # Missing
    BY <1>2, MissingIsNothing
  <2> QED BY <1>5, <2>1 DEF Extends, t, n
<1>11. Holdable(q) <=> Extends(h, v, path, q.value) /\ q.depth <= ContextDepth
  BY <1>9, <1>10 DEF Holdable
<1>12. Sound(h, v, next) <=> Extends(h, v, path, q.value) /\ q.depth <= ContextDepth
  BY <1>0, <1>2, SoundOfAppend DEF next
<1> QED BY <1>11, <1>12 DEF q, next

-----------------------------------------------------------------------------
(* The cloner is exact: along every path its copy has what it should hold.   *)

LEMMA RetainedOfAppend ==
  ASSUME NEW h, NEW v, NEW path \in Seq(Keys), NEW k \in Keys, ~Sound(h, v, Append(path, k))
  PROVE  Retained(h, v, Append(path, k))
           = IF /\ ValueAt(h, v, Append(path, k)) # Missing
                /\ Sound(h, v, path)
                /\ ValueAt(h, v, path).type \in SliceTypes
             THEN Zero(ElementType(ValueAt(h, v, path).type))
             ELSE Missing
<1>1. Front(Append(path, k)) = path
  <2>1. Append(path, k) \in Seq(Keys) /\ Append(path, k) # <<>>
    <3>1. Append(path, k) \in Seq(Keys) /\ Len(Append(path, k)) = Len(path) + 1 /\ Len(path) \in Nat
      OBVIOUS
    <3>2. Len(<<>>) = 0
      OBVIOUS
    <3> QED BY <3>1, <3>2
  <2>2. PICK front \in Seq(Keys), j \in Keys :
          Append(path, k) = Append(front, j) /\ Front(Append(path, k)) = front
    BY <2>1, SplitPath
  <2>3. front = path
    BY <2>2
  <2> QED BY <2>2, <2>3
<1> QED BY <1>1 DEF Retained

(* The copy u of what the walk from v has at a path. *)
RetainedAs(h, v, at, path, g, u) ==
  IF Sound(h, v, path) THEN \E p : AtPath(h, v, at, path, p) /\ KeptAs(h, p, g, u)
  ELSE u = Retained(h, v, path) /\ ~IsObject(u)

LEMMA RetainedElements ==
  ASSUME NEW h, WellFormed(h), NEW v \in Values(h), NEW at \in Addresses, NEW path \in Seq(Keys),
         NEW g, NEW u, RetainedAs(h, v, at, path, g, u), NEW k \in Keys
  PROVE  RetainedAs(h, v, at, Append(path, k), g, ItemAt(g, u, k))
<1> DEFINE next == Append(path, k)
           t == ValueAt(h, v, path)
           e == ItemAt(g, u, k)
<1>0. v \in Found(h) /\ t \in Found(h)
  BY ValuesAtPaths DEF Found
<1>1. ValueAt(h, v, next) = ItemAt(h, t, k)
  BY <1>0, TrailOfAppend
<1>2. Sound(h, v, next) => Sound(h, v, path) /\ ValueAt(h, v, next) # Missing
  BY <1>0, SoundOfAppend DEF Extends
<1>3. ~Sound(h, v, next) =>
        Retained(h, v, next) = IF /\ ValueAt(h, v, next) # Missing
                                  /\ Sound(h, v, path)
                                  /\ t.type \in SliceTypes
                               THEN Zero(ElementType(t.type))
                               ELSE Missing
  BY RetainedOfAppend
<1>4. ~IsObject(Missing)
  BY MissingIsNothing
<1>5. CASE Sound(h, v, path)
  <2>1. PICK p : AtPath(h, v, at, path, p) /\ KeptAs(h, p, g, u)
    BY <1>5 DEF RetainedAs
  <2>2. p.value = t /\ p \in Places(h)
    BY <2>1 DEF AtPath
  <2>3. CASE k \in DOMAIN Items(h, t)
    <3> DEFINE q == Down(h, p, k)
    <3>1. AtPath(h, v, at, next, q) /\ (Holdable(q) <=> Sound(h, v, next))
      BY <1>5, <2>1, <2>2, <2>3, DownAtPath, HoldableIsSound
    <3>2. ElementKept(h, p, g, u, k)
      BY <2>1, <2>2, <2>3, KeptElements
    <3>3. CASE Sound(h, v, next)
      <4>1. KeptAs(h, q, g, e)
        BY <3>1, <3>2, <3>3 DEF ElementKept
      <4> HIDE DEF q, next, e
      <4>2. RetainedAs(h, v, at, next, g, e)
        BY <3>1, <3>3, <4>1 DEF RetainedAs
      <4> QED BY <4>2 DEF next, e
    <3>4. CASE ~Sound(h, v, next)
      <4>1. e = IF t.type \in SliceTypes THEN Zero(ElementType(t.type)) ELSE Missing
        BY <2>2, <3>1, <3>2, <3>4 DEF ElementKept
      <4>2. ValueAt(h, v, next) # Missing
        BY <1>0, <1>1, <2>3, ItemsAreValues, MissingIsNothing
      <4> HIDE DEF next, e, t
      <4>3. e = Retained(h, v, next)
        BY <1>3, <1>5, <3>4, <4>1, <4>2
      <4>4. ~IsObject(e)
        BY <1>4, <4>1, ZeroFits
      <4>5. RetainedAs(h, v, at, next, g, e)
        BY <3>4, <4>3, <4>4 DEF RetainedAs
      <4> QED BY <4>5 DEF next, e
    <3> QED BY <3>3, <3>4
  <2>4. CASE k \notin DOMAIN Items(h, t)
    <3>1. e = Missing
      BY <2>1, <2>2, <2>4, KeptElements
    <3>2. ValueAt(h, v, next) = Missing
      BY <1>0, <1>1, <2>4, ItemsAreValues
    <3> HIDE DEF next, e, t
    <3>3. ~Sound(h, v, next) /\ Retained(h, v, next) = Missing
      BY <1>2, <1>3, <3>2
    <3>4. RetainedAs(h, v, at, next, g, e)
      BY <1>4, <3>1, <3>3 DEF RetainedAs
    <3> QED BY <3>4 DEF next, e
  <2> QED BY <2>3, <2>4
<1>6. CASE ~Sound(h, v, path)
  <2>1. ~IsObject(u)
    BY <1>6 DEF RetainedAs
  <2>2. e = Missing
    BY <2>1 DEF ItemAt, Items
  <2> HIDE DEF next, e, t
  <2>3. ~Sound(h, v, next) /\ Retained(h, v, next) = Missing
    BY <1>2, <1>3, <1>6
  <2>4. RetainedAs(h, v, at, next, g, e)
    BY <1>4, <2>2, <2>3 DEF RetainedAs
  <2> QED BY <2>4 DEF next, e
<1> QED BY <1>5, <1>6

LEMMA ClonesRetain ==
  ASSUME NEW h, WellFormed(h), NEW v \in Values(h), v \notin Unsupported, NEW at \in Addresses,
         NEW c, c = CloneFunction(h)[Start(v, at, 0)],
         NEW g, WellFormed(g), Embedded(c, g), c.value \in Values(g)
  PROVE  \A path \in Seq(Keys) : RetainedAs(h, v, at, path, g, ValueAt(g, c.value, path))
<1> DEFINE w == c.value
           p == Start(v, at, 0)
           T == {path \in Seq(Keys) : RetainedAs(h, v, at, path, g, ValueAt(g, w, path))}
<1>0. w \in Found(g) /\ ValueAt(g, w, <<>>) = w
  BY ValuesAtPaths DEF Found
<1>1. <<>> \in T
  <2>1. Sound(h, v, <<>>)
    BY SoundOfNothing
  <2>2. AtPath(h, v, at, <<>>, p)
    BY StartAtPath
  <2>3. p \in Places(h) /\ p.value = v /\ p.depth = 0 /\ p.active = {}
    BY StartIsPlace
  <2>4. Holdable(p)
    BY <2>3, DepthConstants DEF Holdable
  <2> HIDE DEF p
  <2>5. KeptAs(h, p, g, w)
    BY <2>3, <2>4 DEF KeptAs, p
  <2>6. RetainedAs(h, v, at, <<>>, g, w)
    BY <2>1, <2>2, <2>5 DEF RetainedAs
  <2> QED BY <1>0, <2>6
<1>2. ASSUME NEW path \in Seq(Keys), path \in T, NEW k \in Keys PROVE Append(path, k) \in T
  <2>1. RetainedAs(h, v, at, path, g, ValueAt(g, w, path))
    BY <1>2
  <2>2. ValueAt(g, w, Append(path, k)) = ItemAt(g, ValueAt(g, w, path), k)
    BY <1>0, TrailOfAppend
  <2>3. RetainedAs(h, v, at, Append(path, k), g, ValueAt(g, w, Append(path, k)))
    BY <2>1, <2>2, RetainedElements
  <2>4. Append(path, k) \in Seq(Keys)
    OBVIOUS
  <2> QED BY <2>3, <2>4
<1>3. Seq(Keys) \subseteq T
  <2> HIDE DEF T
  <2> QED BY <1>1, <1>2, PathInduction
<1> QED BY <1>3

LEMMA RetainedIsAlike ==
  ASSUME NEW h, WellFormed(h), NEW v, NEW at, NEW path, NEW g, NEW u, RetainedAs(h, v, at, path, g, u)
  PROVE  Alike(u, Retained(h, v, path))
<1>1. CASE Sound(h, v, path)
  <2>1. PICK p : AtPath(h, v, at, path, p) /\ KeptAs(h, p, g, u)
    BY <1>1 DEF RetainedAs
  <2>2. Alike(u, p.value)
    BY <2>1, KeptAlike
  <2>3. Retained(h, v, path) = p.value
    BY <1>1, <2>1 DEF Retained, AtPath
  <2> QED BY <2>2, <2>3
<1>2. CASE ~Sound(h, v, path)
  BY <1>2 DEF RetainedAs, Alike
<1> QED BY <1>1, <1>2

-----------------------------------------------------------------------------
(* The cloner is strict: it has no issues exactly if all paths are sound.    *)

(* A bound on the paths that tell. *)
Reported == ContextDepth + 1

LEMMA NoIssuesIsSound ==
  ASSUME NEW h, WellFormed(h), NEW v \in Values(h), NEW at \in Addresses,
         CloneFunction(h)[Start(v, at, 0)].issues = {}
  PROVE  \A path \in Seq(Keys) : Leads(h, v, path) => Sound(h, v, path)
<1> DEFINE f == CloneFunction(h)
           Fine(path) == /\ Sound(h, v, path)
                         /\ \E p : AtPath(h, v, at, path, p) /\ f[p].issues = {}
           T == {path \in Seq(Keys) : Leads(h, v, path) => Fine(path)}
<1>0. v \in Found(h)
  BY DEF Found
<1>1. <<>> \in T
  <2>1. /\ Start(v, at, 0) \in Places(h) /\ Start(v, at, 0).value = v
        /\ AtPath(h, v, at, <<>>, Start(v, at, 0))
    BY StartIsPlace, StartAtPath
  <2>2. v \notin Unsupported
    BY <2>1, IssuesOfElements DEF Holdable
  <2>3. Sound(h, v, <<>>)
    BY <2>2, SoundOfNothing
  <2> QED BY <2>1, <2>3
<1>2. ASSUME NEW path \in Seq(Keys), path \in T, NEW k \in Keys PROVE Append(path, k) \in T
  <2> DEFINE next == Append(path, k)
  <2>1. next \in Seq(Keys)
    OBVIOUS
  <2> SUFFICES ASSUME Leads(h, v, next) PROVE Fine(next)
    BY <2>1
  <2>2. Leads(h, v, path) /\ k \in DOMAIN Items(h, ValueAt(h, v, path))
    BY <1>0, LeadsOfAppend
  <2>3. PICK p : AtPath(h, v, at, path, p) /\ f[p].issues = {}
    BY <1>2, <2>2
  <2>4. p \in Places(h) /\ k \in DOMAIN Items(h, p.value) /\ Sound(h, v, path)
    BY <1>2, <2>2, <2>3 DEF AtPath
  <2> DEFINE q == Down(h, p, k)
  <2>5. AtPath(h, v, at, next, q) /\ (Holdable(q) <=> Sound(h, v, next))
    BY <2>3, <2>4, DownAtPath, HoldableIsSound
  <2>6. f[q].issues = {}
    BY <2>3, <2>4, IssuesOfElements
  <2>7. q \in Places(h)
    BY <2>5 DEF AtPath
  <2> HIDE DEF q, next
  <2>8. Holdable(q)
    BY <2>6, <2>7, IssuesOfElements
  <2> QED BY <2>5, <2>6, <2>8
<1>3. Seq(Keys) \subseteq T
  <2> HIDE DEF T
  <2> QED BY <1>1, <1>2, PathInduction
<1> QED BY <1>3

LEMMA SoundPlacesAreHoldable ==
  ASSUME NEW h, WellFormed(h), NEW v \in Values(h), NEW at \in Addresses, NEW path \in Seq(Keys), NEW p,
         AtPath(h, v, at, path, p), Sound(h, v, path)
  PROVE  Holdable(p)
<1>1. p \in Places(h) /\ p.value = ValueAt(h, v, path) /\ p.depth = DepthAt(h, v, path) /\ Len(path) \in Nat
  BY DEF AtPath
<1>2. Trail(h, v, path)[Len(path)] = p.value
  BY <1>1 DEF ValueAt
<1>3. Clean(h, v, path) /\ p.depth <= ContextDepth
  BY <1>1, SoundIsClean
<1>4. p.value \notin Unsupported
  <2>1. Len(path) \in 0..Len(path)
    BY <1>1
  <2> QED BY <1>2, <1>3, <2>1 DEF Clean
<1>5. p.value.addr \notin p.active
  <2> SUFFICES ASSUME NEW i \in 0..(Len(path) - 1)
               PROVE  Trail(h, v, path)[i].addr # p.value.addr
    BY DEF AtPath
  <2>1. i \in 0..Len(path) /\ Len(path) \in 0..Len(path) /\ i < Len(path)
    BY <1>1
  <2>2. IsObject(Trail(h, v, path)[i])
    BY DEF AtPath
  <2> QED BY <1>2, <1>3, <2>1, <2>2 DEF Clean
<1> QED BY <1>3, <1>4, <1>5 DEF Holdable

LEMMA SoundHasNoIssues ==
  ASSUME NEW h, WellFormed(h), NEW v \in Values(h), NEW at \in Addresses,
         \A path \in PathsOf(h, v, Reported) : Sound(h, v, path)
  PROVE  CloneFunction(h)[Start(v, at, 0)].issues = {}
<1> DEFINE f == CloneFunction(h)
           Here(path, p) == AtPath(h, v, at, path, p) /\ Leads(h, v, path) /\ Sound(h, v, path)
           S == {n \in Nat : \A path \in Seq(Keys) : \A p \in Near(h, ContextDepth, n) :
                               Here(path, p) => f[p].issues = {}}
<1>0. v \in Found(h) /\ Reported \in Nat
  BY DepthConstants DEF Found, Reported
<1>1. ASSUME NEW path \in Seq(Keys), Leads(h, v, path), Len(path) <= Reported
      PROVE  Sound(h, v, path)
  BY <1>0, <1>1, PathsAreLed DEF Led
<1>2. ASSUME NEW path \in Seq(Keys), NEW p, Here(path, p)
      PROVE  /\ p \in Places(h) /\ p.depth \in Nat /\ p.depth <= ContextDepth /\ Len(path) <= ContextDepth
             /\ p.value = ValueAt(h, v, path)
  <2>1. p \in Places(h) /\ p.depth = DepthAt(h, v, path) /\ p.value = ValueAt(h, v, path)
    BY <1>2 DEF AtPath
  <2>2. DepthAt(h, v, path) <= ContextDepth
    BY <1>2, SoundIsClean
  <2>3. DepthAt(h, v, path) \in Nat /\ DepthAt(h, v, path) >= Len(path)
    BY DepthsAtPaths
  <2> QED BY <2>1, <2>2, <2>3, DepthConstants
<1>3. 0 \in S
  <2> SUFFICES ASSUME NEW path \in Seq(Keys), NEW p \in Near(h, ContextDepth, 0), Here(path, p)
               PROVE  FALSE
    OBVIOUS
  <2>1. p.depth \in Nat /\ p.depth <= ContextDepth
    BY <1>2
  <2> QED BY <2>1, DepthConstants DEF Near
<1>4. ASSUME NEW n \in Nat, n \in S PROVE n + 1 \in S
  <2> SUFFICES ASSUME NEW path \in Seq(Keys), NEW p \in Near(h, ContextDepth, n + 1), Here(path, p)
               PROVE  f[p].issues = {}
    OBVIOUS
  <2>1. p \in Places(h) /\ Len(path) <= ContextDepth /\ p.value = ValueAt(h, v, path)
    BY <1>2
  <2>2. Holdable(p)
    BY SoundPlacesAreHoldable
  <2>3. ASSUME NEW k \in DOMAIN Items(h, p.value) PROVE f[Down(h, p, k)].issues = {}
    <3> DEFINE q == Down(h, p, k)
               next == Append(path, k)
    <3>1. k \in Keys /\ IsObject(p.value)
      <4>1. p.value \in Found(h)
        BY <2>1 DEF Places, Found
      <4> QED BY <4>1, ItemsAreValues
    <3>2. q \in Near(h, ContextDepth, n)
      BY <3>1, NearGrows, DepthConstants
    <3>3. next \in Seq(Keys) /\ Len(next) <= Reported
      BY <2>1, <3>1, DepthConstants DEF Reported
    <3>4. Leads(h, v, next)
      BY <1>0, <2>1, <3>1, LeadsOfAppend
    <3>5. AtPath(h, v, at, next, q)
      BY DownAtPath
    <3> HIDE DEF q, next
    <3>6. Here(next, q)
      BY <1>1, <3>3, <3>4, <3>5
    <3>7. f[q].issues = {}
      BY <1>4, <3>2, <3>3, <3>6
    <3> QED BY <3>7 DEF q
  <2> QED BY <2>1, <2>2, <2>3, IssuesOfElements
<1>5. ContextDepth + 1 \in S
  <2>1. Nat \subseteq S
    <3> HIDE DEF S
    <3> QED BY <1>3, <1>4, Induction
  <2> QED BY <2>1, DepthConstants
<1>6. Here(<<>>, Start(v, at, 0))
  <2>1. <<>> \in Seq(Keys) /\ Len(<<>>) <= Reported
    BY DepthConstants DEF Reported
  <2>2. Leads(h, v, <<>>)
    BY LeadsOfNothing
  <2> QED BY <1>1, <2>1, <2>2, StartAtPath
<1>7. Start(v, at, 0) \in Near(h, ContextDepth, ContextDepth + 1)
  BY StartIsPlace, NearIsAll, DepthConstants
<1>8. f[Start(v, at, 0)].issues = {}
  <2>1. \A path \in Seq(Keys) : \A p \in Near(h, ContextDepth, ContextDepth + 1) :
          Here(path, p) => f[p].issues = {}
    BY <1>5
  <2>2. <<>> \in Seq(Keys)
    OBVIOUS
  <2> HIDE DEF Here, f
  <2> QED BY <2>1, <2>2, <1>6, <1>7
<1> QED BY <1>8

-----------------------------------------------------------------------------
(* The snapshot is exact: along every path its copy has the plain form of    *)
(* what there is.                                                            *)

LEMMA SnapshotKeeps ==
  ASSUME NEW h, WellFormed(h), NEW p \in Places(h), SnapshotFunction(h)[p].keep
  PROVE  /\ p.value.type \notin Containers => SnapshotFunction(h)[p].value = p.value
         /\ p.value.type \in Containers =>
              /\ Whole(h, SnapshotFunction(h), p)
              /\ NewObject(p.at, PlainType(p.value.type), SnapshotItems(h, SnapshotFunction(h), p),
                           Children(h, SnapshotFunction(h), p), SnapshotFunction(h)[p])
<1> DEFINE f == SnapshotFunction(h)
           v == p.value
<1>1. f[p] = SnapshotValue(h, f, p) /\ f[p].keep
  BY SnapshotWalks
<1>2. v \in Values(h) /\ p.depth \in Nat
  BY DEF Places
<1>3. ASSUME NEW k \in DOMAIN Items(h, v), IsObject(v)
      PROVE  SnapshotCopy(Down(h, p, k), f[Down(h, p, k)])
  BY <1>3, DownIsPlace, SnapshotsAreCopies
<1> HIDE DEF f
<1>4. \A reason : ~Refused(p.at, reason).keep
  BY DEF Refused
<1>5. ~(p.depth > PrimitiveDepth \/ v \in Unsupported)
  BY <1>1, <1>4 DEF SnapshotValue
<1>6. CASE v.type \notin Containers
  <2>1. f[p] = Kept(v)
    BY <1>1, <1>5, <1>6 DEF SnapshotValue
  <2>2. f[p].value = v
    BY <2>1, KeptFields
  <2> QED BY <1>6, <2>2 DEF f
<1>7. CASE v.type \in Containers
  <2>1. \A k \in DOMAIN Children(h, f, p) : Children(h, f, p)[k].keep
    BY <1>1, <1>4, <1>5, <1>7 DEF SnapshotValue, Children
  <2>2. p.depth <= PrimitiveDepth
    BY <1>2, <1>5, DepthConstants
  <2>3. Whole(h, f, p)
    BY <1>5, <1>7, <2>1, <2>2 DEF Whole
  <2>4. NewObject(p.at, PlainType(v.type), SnapshotItems(h, f, p), Children(h, f, p), f[p])
    BY <1>1, <1>3, <2>3, ObjectIsSnapshot
  <2> QED BY <1>7, <2>3, <2>4 DEF f
<1> QED BY <1>6, <1>7

(* The snapshot took the value of the place, and its copy is in the heap. *)
TakenAs(h, p, g, u) ==
  /\ p \in Places(h) /\ SnapshotFunction(h)[p].keep
  /\ u = SnapshotFunction(h)[p].value
  /\ Embedded(SnapshotFunction(h)[p], g)

LEMMA TakenIsPlain ==
  ASSUME NEW h, WellFormed(h), NEW p, NEW g, NEW u, TakenAs(h, p, g, u)
  PROVE  /\ p.value.type \notin Containers => u = p.value /\ ~IsObject(u)
         /\ p.value.type \in Containers =>
              /\ u = Ref(PlainType(p.value.type), p.at) /\ p.at \in Addresses /\ p.at \in DOMAIN g
              /\ IsObject(u) /\ u.addr = p.at
<1>1. p \in Places(h) /\ SnapshotFunction(h)[p].keep /\ p.at \in Addresses
  BY DEF TakenAs, Places
<1>2. p.value.type \notin Containers => u = p.value /\ ~IsObject(u)
  BY <1>1, SnapshotKeeps DEF TakenAs, IsObject
<1>3. ASSUME p.value.type \in Containers
      PROVE  /\ u = Ref(PlainType(p.value.type), p.at) /\ p.at \in DOMAIN g
             /\ IsObject(u) /\ u.addr = p.at
  <2>1. NewObject(p.at, PlainType(p.value.type), SnapshotItems(h, SnapshotFunction(h), p),
                  Children(h, SnapshotFunction(h), p), SnapshotFunction(h)[p])
    BY <1>1, <1>3, SnapshotKeeps
  <2>2. u = Ref(PlainType(p.value.type), p.at) /\ p.at \in DOMAIN g
    BY <2>1 DEF NewObject, TakenAs, Embedded
  <2>3. PlainType(p.value.type) \in Containers
    BY DEF PlainType, Containers, MapTypes, SliceTypes
  <2>4. Ref(PlainType(p.value.type), p.at).type = PlainType(p.value.type)
        /\ Ref(PlainType(p.value.type), p.at).addr = p.at
    BY DEF Ref
  <2>5. p.at # NoAddress
    BY <1>1, AddressesAreReal
  <2> QED BY <2>2, <2>3, <2>4, <2>5 DEF IsObject
<1> QED BY <1>1, <1>2, <1>3

LEMMA TakenElements ==
  ASSUME NEW h, WellFormed(h), NEW p, NEW g, NEW u, TakenAs(h, p, g, u), NEW k
  PROVE  /\ k \in DOMAIN Items(h, p.value) => TakenAs(h, Down(h, p, k), g, ItemAt(g, u, k))
         /\ k \notin DOMAIN Items(h, p.value) => ItemAt(g, u, k) = Missing
<1> DEFINE f == SnapshotFunction(h)
           v == p.value
           children == Children(h, f, p)
           items == SnapshotItems(h, f, p)
           q == Down(h, p, k)
<1>1. p \in Places(h) /\ v \in Values(h) /\ f[p].keep
  BY DEF TakenAs, Places
<1>2. CASE v.type \notin Containers
  <2>1. u = v
    BY <1>2, TakenIsPlain
  <2> QED BY <1>2, <2>1 DEF ItemAt, Items, IsObject
<1>3. CASE v.type \in Containers
  <2>1. NewObject(p.at, PlainType(v.type), items, children, f[p]) /\ Whole(h, f, p)
    BY <1>1, <1>3, SnapshotKeeps
  <2>2. IsObject(u) /\ u.addr = p.at
    BY <1>3, TakenIsPlain
  <2>3. DOMAIN children = DOMAIN Items(h, v) /\ \A j \in DOMAIN children : children[j] = f[Down(h, p, j)]
    BY DEF Children
  <2>4. DOMAIN items = DOMAIN children /\ \A j \in DOMAIN items : items[j] = children[j].value
    BY DEF SnapshotItems
  <2>5. \A j \in DOMAIN children : children[j].keep
    BY <2>1 DEF Whole
  <2> HIDE DEF f, children, items
  <2>6. Items(g, u) = items
    <3>1. g[p.at] = [type |-> PlainType(v.type), items |-> items]
      BY <2>1 DEF NewObject, TakenAs, Embedded, f
    <3> QED BY <2>2, <3>1 DEF Items
  <2>7. CASE k \notin DOMAIN Items(h, v)
    BY <2>3, <2>4, <2>6, <2>7 DEF ItemAt
  <2>8. CASE k \in DOMAIN Items(h, v)
    <3>1. q \in Places(h)
      BY <1>1, <2>8, DownIsPlace DEF Items
    <3>2. ItemAt(g, u, k) = f[q].value /\ f[q].keep
      BY <2>3, <2>4, <2>5, <2>6, <2>8 DEF ItemAt
    <3>3. \A a \in DOMAIN children[k].objects : a \in DOMAIN f[p].objects /\ f[p].objects[a] = children[k].objects[a]
      BY <2>1, <2>3, <2>8 DEF NewObject
    <3>4. Embedded(f[q], g)
      BY <2>3, <2>8, <3>3 DEF Embedded, TakenAs, f
    <3> HIDE DEF q
    <3>5. TakenAs(h, q, g, ItemAt(g, u, k))
      BY <3>1, <3>2, <3>4 DEF TakenAs, f
    <3> QED BY <2>8, <3>5 DEF q
  <2> QED BY <2>7, <2>8
<1> QED BY <1>2, <1>3

(* The copy u of what the walk from v has at a path. *)
TakenAt(h, v, path, g, u) ==
  IF Leads(h, v, path) THEN \E p : p.value = ValueAt(h, v, path) /\ TakenAs(h, p, g, u)
  ELSE u = Missing

LEMMA SnapshotsTake ==
  ASSUME NEW h, WellFormed(h), NEW v \in Values(h), NEW at \in Addresses,
         NEW c, c = SnapshotFunction(h)[Start(v, at, 0)], c.keep,
         NEW g, WellFormed(g), Embedded(c, g), c.value \in Values(g)
  PROVE  \A path \in Seq(Keys) : TakenAt(h, v, path, g, ValueAt(g, c.value, path))
<1> DEFINE w == c.value
           p == Start(v, at, 0)
           T == {path \in Seq(Keys) : TakenAt(h, v, path, g, ValueAt(g, w, path))}
<1>0. /\ w \in Found(g) /\ ValueAt(g, w, <<>>) = w
      /\ v \in Found(h) /\ ValueAt(h, v, <<>>) = v
  BY ValuesAtPaths DEF Found
<1>1. <<>> \in T
  <2>1. p \in Places(h) /\ p.value = v
    BY StartIsPlace
  <2> HIDE DEF p
  <2>2. TakenAs(h, p, g, w)
    BY <2>1 DEF TakenAs, p
  <2>3. TakenAt(h, v, <<>>, g, w)
    BY <1>0, <2>1, <2>2, LeadsOfNothing DEF TakenAt
  <2> QED BY <1>0, <2>3
<1>2. ASSUME NEW path \in Seq(Keys), path \in T, NEW k \in Keys PROVE Append(path, k) \in T
  <2> DEFINE next == Append(path, k)
             t == ValueAt(h, v, path)
             u == ValueAt(g, w, path)
  <2>1. TakenAt(h, v, path, g, u) /\ next \in Seq(Keys)
    BY <1>2
  <2>2. ValueAt(g, w, next) = ItemAt(g, u, k) /\ ValueAt(h, v, next) = ItemAt(h, t, k)
    BY <1>0, TrailOfAppend
  <2>3. Leads(h, v, next) <=> Leads(h, v, path) /\ k \in DOMAIN Items(h, t)
    BY <1>0, LeadsOfAppend
  <2>4. t \in Found(h)
    BY <1>0, ValuesAtPaths
  <2> HIDE DEF next, t, u
  <2>5. CASE Leads(h, v, path)
    <3>1. PICK q : q.value = t /\ TakenAs(h, q, g, u)
      BY <2>1, <2>5 DEF TakenAt, t
    <3>2. q \in Places(h)
      BY <3>1 DEF TakenAs
    <3>3. CASE k \in DOMAIN Items(h, t)
      <4>1. TakenAs(h, Down(h, q, k), g, ItemAt(g, u, k))
        BY <3>1, <3>3, TakenElements
      <4>2. Down(h, q, k).value = ValueAt(h, v, next)
        <5>1. Items(h, t)[k] = ItemAt(h, t, k) /\ IsObject(t)
          BY <2>4, <3>3, ItemsAreValues
        <5>2. Down(h, q, k).value = Items(h, t)[k]
          BY <3>1, <3>2, <3>3, <5>1, DownIsPlace
        <5> QED BY <2>2, <5>1, <5>2
      <4>3. TakenAt(h, v, next, g, ItemAt(g, u, k))
        BY <2>3, <2>5, <3>3, <4>1, <4>2 DEF TakenAt
      <4> QED BY <2>1, <2>2, <4>3 DEF next
    <3>4. CASE k \notin DOMAIN Items(h, t)
      <4>1. ItemAt(g, u, k) = Missing
        BY <3>1, <3>4, TakenElements
      <4>2. TakenAt(h, v, next, g, ItemAt(g, u, k))
        BY <2>3, <3>4, <4>1 DEF TakenAt
      <4> QED BY <2>1, <2>2, <4>2 DEF next
    <3> QED BY <3>3, <3>4
  <2>6. CASE ~Leads(h, v, path)
    <3>1. u = Missing
      BY <2>1, <2>6 DEF TakenAt
    <3>2. ItemAt(g, u, k) = Missing
      BY <3>1, MissingIsNothing, ItemsAreValues DEF Found
    <3>3. TakenAt(h, v, next, g, ItemAt(g, u, k))
      BY <2>3, <2>6, <3>2 DEF TakenAt
    <3> QED BY <2>1, <2>2, <3>3 DEF next
  <2> QED BY <2>5, <2>6
<1>3. Seq(Keys) \subseteq T
  <2> HIDE DEF T
  <2> QED BY <1>1, <1>2, PathInduction
<1> QED BY <1>3

-----------------------------------------------------------------------------
(* A part of the heap that refers to nothing else. *)

Closed(h, C) ==
  /\ C \subseteq DOMAIN h
  /\ \A a \in C : \A k \in DOMAIN h[a].items : IsObject(h[a].items[k]) => h[a].items[k].addr \in C

(* Two heaps that have such a part in common. *)
Common(h, g, C) == Closed(h, C) /\ \A a \in C : a \in DOMAIN g /\ g[a] = h[a]

LEMMA CommonTrails ==
  ASSUME NEW h, WellFormed(h), NEW g, WellFormed(g), NEW C, Common(h, g, C),
         NEW v \in Found(h), v \in Found(g), IsObject(v) => v.addr \in C,
         NEW path \in Seq(Keys)
  PROVE  Trail(h, v, path) = Trail(g, v, path)
<1> DEFINE n == Len(path)
           t == Trail(h, v, path)
           u == Trail(g, v, path)
           In(x) == IsObject(x) => x.addr \in C
<1>1. n \in Nat
  OBVIOUS
<1>2. /\ t[0] = v /\ \A i \in 1..n : t[i] = ItemAt(h, t[i - 1], path[i])
      /\ TrailEquation(h, v, path, t)
  BY TrailWalks
<1>3. /\ u[0] = v /\ \A i \in 1..n : u[i] = ItemAt(g, u[i - 1], path[i])
      /\ TrailEquation(g, v, path, u)
  BY TrailWalks
<1>4. ASSUME NEW x, In(x), NEW k
      PROVE  ItemAt(h, x, k) = ItemAt(g, x, k) /\ In(ItemAt(h, x, k))
  <2>1. Items(h, x) = Items(g, x)
    BY <1>4 DEF Items, Common
  <2>2. CASE k \in DOMAIN Items(h, x)
    <3>1. IsObject(x) /\ Items(h, x) = h[x.addr].items
      BY <2>2 DEF Items
    <3>2. ItemAt(h, x, k) = h[x.addr].items[k]
      BY <2>2, <3>1 DEF ItemAt
    <3> QED BY <1>4, <2>1, <2>2, <3>1, <3>2 DEF Common, Closed, ItemAt
  <2>3. CASE k \notin DOMAIN Items(h, x)
    BY <2>1, <2>3, MissingIsNothing DEF ItemAt
  <2> QED BY <2>2, <2>3
<1> HIDE DEF t, u, n, In
<1>5. \A i \in 0..n : t[i] = u[i]
  <2> DEFINE T == {i \in Nat : i <= n => t[i] = u[i] /\ In(t[i])}
  <2>1. 0 \in T
    <3>1. In(v)
      BY DEF In
    <3> QED BY <1>2, <1>3, <3>1
  <2>2. ASSUME NEW i \in Nat, i \in T PROVE i + 1 \in T
    <3> SUFFICES ASSUME i + 1 <= n PROVE t[i + 1] = u[i + 1] /\ In(t[i + 1])
      OBVIOUS
    <3>1. t[i] = u[i] /\ In(t[i]) /\ i + 1 \in 1..n /\ (i + 1) - 1 = i
      BY <1>1, <2>2
    <3>2. t[i + 1] = ItemAt(h, t[i], path[i + 1])
      BY <1>2, <3>1
    <3>3. u[i + 1] = ItemAt(g, u[i], path[i + 1])
      BY <1>3, <3>1
    <3> QED BY <1>4, <3>1, <3>2, <3>3
  <2>3. Nat \subseteq T
    <3> HIDE DEF T
    <3> QED BY <2>1, <2>2, Induction
  <2> QED BY <1>1, <2>3
<1>6. /\ t = [i \in 0..n |-> t[i]]
      /\ u = [i \in 0..n |-> u[i]]
  BY <1>2, <1>3 DEF TrailEquation, n
<1>7. t = u
  BY <1>5, <1>6
<1> QED BY <1>7 DEF t, u

LEMMA FrontIsPath ==
  /\ Front(<<>>) = <<>>
  /\ \A path \in Seq(Keys) : Front(path) \in Seq(Keys)
<1>1. Front(<<>>) = <<>>
  BY DEF Front
<1>2. ASSUME NEW path \in Seq(Keys) PROVE Front(path) \in Seq(Keys)
  <2>1. CASE path = <<>>
    <3>1. <<>> \in Seq(Keys)
      OBVIOUS
    <3> QED BY <1>1, <2>1, <3>1
  <2>2. CASE path # <<>>
    BY <2>2, SplitPath
  <2> QED BY <2>1, <2>2
<1> QED BY <1>1, <1>2

(* The walks from a value in two heaps are the same. *)
SameWalks(h, g, v) ==
  \A path \in Seq(Keys) :
    /\ ValueAt(h, v, path) = ValueAt(g, v, path)
    /\ Leads(h, v, path) <=> Leads(g, v, path)
    /\ Sound(h, v, path) <=> Sound(g, v, path)
    /\ Retained(h, v, path) = Retained(g, v, path)

LEMMA CommonWalks ==
  ASSUME NEW h, WellFormed(h), NEW g, WellFormed(g), NEW C, Common(h, g, C),
         NEW v \in Values(h), v \in Values(g), IsObject(v) => v.addr \in C
  PROVE  SameWalks(h, g, v)
<1>0. v \in Found(h) /\ v \in Found(g)
  BY DEF Found
<1>1. \A path \in Seq(Keys) : Trail(h, v, path) = Trail(g, v, path)
  BY <1>0, CommonTrails
<1>2. \A path \in Seq(Keys) : ValueAt(h, v, path) = ValueAt(g, v, path)
  BY <1>1 DEF ValueAt
<1>3. \A path \in Seq(Keys) : DepthAt(h, v, path) = DepthAt(g, v, path)
  <2> DEFINE T == {path \in Seq(Keys) : DepthAt(h, v, path) = DepthAt(g, v, path)}
  <2>1. <<>> \in T
    BY DepthsAtPaths
  <2>2. ASSUME NEW path \in Seq(Keys), path \in T, NEW k \in Keys PROVE Append(path, k) \in T
    <3> DEFINE next == Append(path, k)
    <3>1. next \in Seq(Keys)
      OBVIOUS
    <3>2. /\ DepthAt(h, v, next) = DepthAt(h, v, path) + Levels(ValueAt(h, v, path).type, ValueAt(h, v, next))
          /\ DepthAt(g, v, next) = DepthAt(g, v, path) + Levels(ValueAt(g, v, path).type, ValueAt(g, v, next))
      BY <1>0, DepthOfAppend
    <3> HIDE DEF next
    <3>3. DepthAt(h, v, next) = DepthAt(g, v, next)
      BY <1>2, <2>2, <3>1, <3>2
    <3> QED BY <3>1, <3>3 DEF next
  <2>3. Seq(Keys) \subseteq T
    <3> HIDE DEF T
    <3> QED BY <2>1, <2>2, PathInduction
  <2> QED BY <2>3
<1>4. \A path \in Seq(Keys) : Clean(h, v, path) <=> Clean(g, v, path)
  BY <1>1 DEF Clean
<1>5. \A path \in Seq(Keys) : Sound(h, v, path) <=> Sound(g, v, path)
  BY <1>3, <1>4, SoundIsClean
<1>6. \A path \in Seq(Keys) : Leads(h, v, path) <=> Leads(g, v, path)
  BY <1>2, LeadsOrMisses, MissingIsNothing
<1>7. \A path \in Seq(Keys) : Retained(h, v, path) = Retained(g, v, path)
  BY <1>2, <1>5, FrontIsPath DEF Retained
<1> QED BY <1>2, <1>5, <1>6, <1>7 DEF SameWalks

(* Values that a copy keeps whole: at every path there is what a context     *)
(* would retain there; and values that it can hold.                          *)
SelfRetained(h, v) == \A path \in Seq(Keys) : Alike(ValueAt(h, v, path), Retained(h, v, path))
AllSound(h, v) == \A path \in Seq(Keys) : Leads(h, v, path) => Sound(h, v, path)

LEMMA SameWalksKeep ==
  ASSUME NEW h, WellFormed(h), NEW g, WellFormed(g),
         NEW v \in Values(h), v \in Values(g), SameWalks(h, g, v)
  PROVE  /\ SelfRetained(h, v) => SelfRetained(g, v)
         /\ AllSound(h, v) => AllSound(g, v)
         /\ Unfold(h, v) = Unfold(g, v)
<1>1. SelfRetained(h, v) => SelfRetained(g, v)
  BY DEF SameWalks, SelfRetained
<1>2. AllSound(h, v) => AllSound(g, v)
  BY DEF SameWalks, AllSound
<1>3. Twins(h, v, g, v)
  BY DEF SameWalks, Twins, Alike
<1> QED BY <1>1, <1>2, <1>3, TwinsUnfold

LEMMA NotAnObject ==
  ASSUME NEW h, WellFormed(h), NEW v \in Found(h), ~IsObject(v)
  PROVE  v.addr = NoAddress
<1>1. \A type, val : Scalar(type, val).addr = NoAddress
  BY DEF Scalar
<1>2. CASE v \in Values(h)
  <2>1. CASE v.type \in Containers
    BY <2>1 DEF IsObject
  <2>2. CASE v.type \notin Containers
    <3>1. v = Scalar(v.type, v.val)
      BY <1>2, <2>2, ObjectsOfValues, ScalarValues
    <3> QED BY <1>1, <3>1
  <2> QED BY <2>1, <2>2
<1>3. CASE v = Missing
  BY <1>3, MissingIsNothing
<1> QED BY <1>2, <1>3 DEF Found

-----------------------------------------------------------------------------
(* What the cloner makes, a later copy keeps whole.                          *)

(* How far an address is from where its copy begins. *)
Height(a) == Len(a.path)

LEMMA CopiesLieAtPaths ==
  ASSUME NEW h, WellFormed(h), NEW v \in Values(h), NEW at \in Addresses, NEW path \in Seq(Keys),
         NEW g, NEW u, RetainedAs(h, v, at, path, g, u)
  PROVE  /\ IsObject(u) => Sound(h, v, path) /\ Height(u.addr) = Height(at) + Len(path)
         /\ Sound(h, v, path) => /\ Alike(u, ValueAt(h, v, path))
                                 /\ ~IsObject(u) => u = ValueAt(h, v, path)
<1>1. CASE ~Sound(h, v, path)
  BY <1>1 DEF RetainedAs
<1>2. CASE Sound(h, v, path)
  <2>1. PICK p : AtPath(h, v, at, path, p) /\ KeptAs(h, p, g, u)
    BY <1>2 DEF RetainedAs
  <2>2. /\ Alike(u, p.value)
        /\ IsObject(p.value) => IsObject(u) /\ u.addr = p.at
        /\ ~IsObject(p.value) => u = p.value
    BY <2>1, KeptAlike
  <2>3. p.value = ValueAt(h, v, path) /\ p.at.path = at.path \o path
    BY <2>1 DEF AtPath
  <2>4. Len(at.path \o path) = Len(at.path) + Len(path)
    BY DEF Addresses
  <2> QED BY <1>2, <2>2, <2>3, <2>4 DEF Height
<1> QED BY <1>1, <1>2

(* A copy u of v, at every path. *)
CopyOf(h, v, at, g, u) ==
  /\ WellFormed(h) /\ v \in Values(h) /\ v \notin Unsupported /\ at \in Addresses
  /\ WellFormed(g) /\ u \in Values(g)
  /\ \A path \in Seq(Keys) : RetainedAs(h, v, at, path, g, ValueAt(g, u, path))

LEMMA ObjectsOnATrail ==
  ASSUME NEW h, NEW v, NEW at, NEW g, NEW w, CopyOf(h, v, at, g, w)
  PROVE  \A path \in Seq(Keys) : \A i \in 0..Len(path) :
           IsObject(Trail(g, w, path)[i]) => Height(Trail(g, w, path)[i].addr) = Height(at) + i
<1> DEFINE Here(path) == \A i \in 0..Len(path) :
             IsObject(Trail(g, w, path)[i]) => Height(Trail(g, w, path)[i].addr) = Height(at) + i
           T == {path \in Seq(Keys) : Here(path)}
<1>0. /\ WellFormed(g) /\ w \in Found(g) /\ ValueAt(g, w, <<>>) = w
      /\ WellFormed(h) /\ v \in Values(h) /\ at \in Addresses
  BY ValuesAtPaths DEF CopyOf, Found
<1>1. ASSUME NEW path \in Seq(Keys), IsObject(ValueAt(g, w, path))
      PROVE  Height(ValueAt(g, w, path).addr) = Height(at) + Len(path)
  BY <1>0, <1>1, CopiesLieAtPaths DEF CopyOf
<1>2. <<>> \in T
  <2>1. <<>> \in Seq(Keys) /\ Len(<<>>) = 0 /\ 0..Len(<<>>) = {0}
    OBVIOUS
  <2>2. Trail(g, w, <<>>)[0] = ValueAt(g, w, <<>>)
    BY <2>1 DEF ValueAt
  <2> QED BY <1>1, <2>1, <2>2
<1>3. ASSUME NEW path \in Seq(Keys), path \in T, NEW k \in Keys PROVE Append(path, k) \in T
  <2> DEFINE next == Append(path, k)
  <2>1. next \in Seq(Keys) /\ Len(next) = Len(path) + 1 /\ Len(path) \in Nat
    OBVIOUS
  <2>2. /\ \A i \in 0..Len(path) : Trail(g, w, next)[i] = Trail(g, w, path)[i]
        /\ Trail(g, w, next)[Len(path) + 1] = ValueAt(g, w, next)
    BY <1>0, TrailOfAppend
  <2> HIDE DEF next
  <2>3. Here(next)
    <3> SUFFICES ASSUME NEW i \in 0..(Len(path) + 1), IsObject(Trail(g, w, next)[i])
                 PROVE  Height(Trail(g, w, next)[i].addr) = Height(at) + i
      BY <2>1
    <3>1. CASE i \in 0..Len(path)
      <4>1. Here(path)
        BY <1>3
      <4> QED BY <2>2, <3>1, <4>1
    <3>2. CASE i = Len(path) + 1
      BY <1>1, <2>1, <2>2, <3>2
    <3> QED BY <2>1, <3>1, <3>2
  <2> QED BY <2>1, <2>3 DEF next
<1>4. Seq(Keys) \subseteq T
  <2> HIDE DEF T
  <2> QED BY <1>2, <1>3, PathInduction
<1> QED BY <1>4

(* So an object of the copy is not inside itself. *)
LEMMA ElementsLieApart ==
  ASSUME NEW h, NEW v, NEW at, NEW g, NEW w, CopyOf(h, v, at, g, w),
         NEW path \in Seq(Keys), NEW k \in Keys,
         NEW i \in 0..Len(path), IsObject(Trail(g, w, path)[i])
  PROVE  Trail(g, w, path)[i].addr # ValueAt(g, w, Append(path, k)).addr
<1> DEFINE next == Append(path, k)
           x == Trail(g, w, path)[i]
           y == ValueAt(g, w, next)
<1>0. /\ WellFormed(g) /\ w \in Found(g)
      /\ WellFormed(h) /\ v \in Values(h) /\ at \in Addresses
  BY DEF CopyOf, Found
<1>1. next \in Seq(Keys) /\ Len(next) = Len(path) + 1 /\ Len(path) \in Nat
  OBVIOUS
<1>2. Height(x.addr) = Height(at) + i
  BY ObjectsOnATrail
<1>3. Height(at) \in Nat
  BY <1>0 DEF Addresses, Height
<1> HIDE DEF next
<1>4. IsObject(y) => Height(y.addr) = Height(at) + Len(next)
  <2>1. RetainedAs(h, v, at, next, g, y)
    BY <1>1 DEF CopyOf
  <2> HIDE DEF y
  <2> QED BY <1>0, <1>1, <2>1, CopiesLieAtPaths
<1>5. ~IsObject(y) => y.addr = NoAddress
  <2>1. y \in Found(g)
    BY <1>0, <1>1, ValuesAtPaths
  <2> QED BY <1>0, <2>1, NotAnObject
<1>6. x.addr # NoAddress
  BY DEF IsObject
<1> HIDE DEF x, y
<1>7. Height(at) + i # Height(at) + Len(next)
  BY <1>1, <1>3
<1>8. x.addr # y.addr
  BY <1>2, <1>4, <1>5, <1>6, <1>7
<1> QED BY <1>8 DEF x, y, next

LEMMA CopiesAreSound ==
  ASSUME NEW h, NEW v, NEW at, NEW g, NEW w, CopyOf(h, v, at, g, w)
  PROVE  \A path \in Seq(Keys) : Sound(h, v, path) => Sound(g, w, path)
<1> DEFINE T == {path \in Seq(Keys) :
                   Sound(h, v, path) => Sound(g, w, path) /\ DepthAt(g, w, path) = DepthAt(h, v, path)}
<1>0. /\ WellFormed(g) /\ w \in Found(g) /\ w \in Values(g) /\ ValueAt(g, w, <<>>) = w
      /\ WellFormed(h) /\ v \in Found(h) /\ v \in Values(h) /\ at \in Addresses
      /\ ValueAt(h, v, <<>>) = v
  BY ValuesAtPaths DEF CopyOf, Found
<1>1. ASSUME NEW path \in Seq(Keys), Sound(h, v, path), ValueAt(h, v, path) \notin Unsupported,
             ValueAt(h, v, path) # Missing
      PROVE  /\ Alike(ValueAt(g, w, path), ValueAt(h, v, path))
             /\ ValueAt(g, w, path) \notin Unsupported /\ ValueAt(g, w, path) # Missing
  <2> DEFINE x == ValueAt(h, v, path)
             y == ValueAt(g, w, path)
  <2>1. RetainedAs(h, v, at, path, g, y)
    BY DEF CopyOf
  <2>2. Alike(y, x) /\ (~IsObject(y) => y = x)
    BY <1>0, <1>1, <2>1, CopiesLieAtPaths
  <2>3. ~IsObject(Missing)
    BY <1>0, MissingIsNothing
  <2> HIDE DEF x, y
  <2>4. y \notin Unsupported /\ y # Missing
    BY <1>1, <2>2, <2>3, UnsupportedIsScalar DEF x
  <2> QED BY <2>2, <2>4 DEF x, y
<1>2. <<>> \in T
  <2>1. <<>> \in Seq(Keys)
    OBVIOUS
  <2>2. Sound(h, v, <<>>) /\ v \notin Unsupported /\ v # Missing
    BY <1>0, SoundOfNothing, MissingIsNothing DEF CopyOf
  <2>3. w \notin Unsupported
    BY <1>0, <1>1, <2>1, <2>2
  <2>4. Sound(g, w, <<>>)
    BY <1>0, <2>3, SoundOfNothing
  <2> QED BY <2>1, <2>4, DepthsAtPaths
<1>3. ASSUME NEW path \in Seq(Keys), path \in T, NEW k \in Keys PROVE Append(path, k) \in T
  <2> DEFINE next == Append(path, k)
             n == Len(path)
             x == ValueAt(h, v, next)
             y == ValueAt(g, w, next)
  <2>0. next \in Seq(Keys) /\ n \in Nat /\ Len(next) = n + 1
    OBVIOUS
  <2> SUFFICES ASSUME Sound(h, v, next)
               PROVE  Sound(g, w, next) /\ DepthAt(g, w, next) = DepthAt(h, v, next)
    BY <2>0
  <2>1. /\ Sound(h, v, path) /\ Extends(h, v, path, x)
        /\ DepthAt(h, v, next) <= ContextDepth
    BY <1>0, SoundOfAppend
  <2>2. Sound(g, w, path) /\ DepthAt(g, w, path) = DepthAt(h, v, path)
    BY <1>3, <2>1
  <2>3. Alike(y, x) /\ y \notin Unsupported /\ y # Missing
    BY <1>1, <2>0, <2>1 DEF Extends
  <2>4. ValueAt(g, w, path).type = ValueAt(h, v, path).type
    <3>1. RetainedAs(h, v, at, path, g, ValueAt(g, w, path))
      BY DEF CopyOf
    <3>2. Alike(ValueAt(g, w, path), ValueAt(h, v, path))
      BY <1>0, <2>1, <3>1, CopiesLieAtPaths
    <3> QED BY <3>2 DEF Alike
  <2>5. /\ DepthAt(h, v, next) = DepthAt(h, v, path) + Levels(ValueAt(h, v, path).type, x)
        /\ DepthAt(g, w, next) = DepthAt(g, w, path) + Levels(ValueAt(g, w, path).type, y)
    BY <1>0, DepthOfAppend
  <2>6. Levels(ValueAt(h, v, path).type, x) = Levels(ValueAt(g, w, path).type, y)
    BY <2>3, <2>4 DEF Levels, Alike
  <2>7. DepthAt(g, w, next) = DepthAt(h, v, next)
    BY <2>2, <2>5, <2>6
  <2>8. ASSUME NEW i \in 0..n, IsObject(Trail(g, w, path)[i])
        PROVE  Trail(g, w, path)[i].addr # y.addr
    BY <2>8, ElementsLieApart
  <2>9. Extends(g, w, path, y)
    BY <2>3, <2>8 DEF Extends
  <2>10. Sound(g, w, next)
    BY <1>0, <2>1, <2>2, <2>7, <2>9, SoundOfAppend
  <2> QED BY <2>7, <2>10
<1>4. Seq(Keys) \subseteq T
  <2> HIDE DEF T
  <2> QED BY <1>2, <1>3, PathInduction
<1> QED BY <1>4

LEMMA CopiesAreSelfRetained ==
  ASSUME NEW h, NEW v, NEW at, NEW g, NEW w, CopyOf(h, v, at, g, w)
  PROVE  SelfRetained(g, w)
<1> SUFFICES ASSUME NEW path \in Seq(Keys)
             PROVE  Alike(ValueAt(g, w, path), Retained(g, w, path))
  BY DEF SelfRetained
<1>0. /\ WellFormed(g) /\ w \in Found(g)
      /\ WellFormed(h) /\ v \in Found(h) /\ v \in Values(h) /\ at \in Addresses
  BY DEF CopyOf, Found
<1>1. CASE Sound(g, w, path)
  BY <1>1 DEF Retained, Alike
<1>2. CASE ~Sound(g, w, path)
  <2>1. ~Sound(h, v, path)
    BY <1>2, CopiesAreSound
  <2>2. path # <<>>
    BY <1>0, <2>1, SoundOfNothing DEF CopyOf
  <2>3. PICK front \in Seq(Keys), k \in Keys : path = Append(front, k)
    BY <2>2, SplitPath
  <2>4. ValueAt(g, w, path) = Retained(h, v, path)
    BY <2>1 DEF CopyOf, RetainedAs
  <2>5. Retained(h, v, path)
          = IF /\ ValueAt(h, v, path) # Missing
               /\ Sound(h, v, front)
               /\ ValueAt(h, v, front).type \in SliceTypes
            THEN Zero(ElementType(ValueAt(h, v, front).type))
            ELSE Missing
    BY <2>1, <2>3, RetainedOfAppend
  <2>6. Retained(g, w, path)
          = IF /\ ValueAt(g, w, path) # Missing
               /\ Sound(g, w, front)
               /\ ValueAt(g, w, front).type \in SliceTypes
            THEN Zero(ElementType(ValueAt(g, w, front).type))
            ELSE Missing
    BY <1>2, <2>3, RetainedOfAppend
  <2>7. CASE ValueAt(g, w, path) = Missing
    BY <2>6, <2>7 DEF Alike
  <2>8. CASE ValueAt(g, w, path) # Missing
    <3>1. /\ Sound(h, v, front) /\ ValueAt(h, v, front).type \in SliceTypes
          /\ ValueAt(g, w, path) = Zero(ElementType(ValueAt(h, v, front).type))
      BY <2>4, <2>5, <2>8
    <3>2. Sound(g, w, front)
      BY <3>1, CopiesAreSound
    <3>3. ValueAt(g, w, front).type = ValueAt(h, v, front).type
      <4>1. RetainedAs(h, v, at, front, g, ValueAt(g, w, front))
        BY DEF CopyOf
      <4>2. Alike(ValueAt(g, w, front), ValueAt(h, v, front))
        BY <1>0, <3>1, <4>1, CopiesLieAtPaths
      <4> QED BY <4>2 DEF Alike
    <3>4. Retained(g, w, path) = ValueAt(g, w, path)
      BY <2>6, <2>8, <3>1, <3>2, <3>3
    <3> QED BY <3>4 DEF Alike
  <2> QED BY <2>7, <2>8
<1> QED BY <1>1, <1>2

(* A copy of what a context can hold says the same, and can be held. *)
LEMMA CopiesOfSound ==
  ASSUME NEW h, NEW v, NEW at, NEW g, NEW w, CopyOf(h, v, at, g, w), AllSound(h, v)
  PROVE  Twins(h, v, g, w) /\ AllSound(g, w)
<1>0. /\ WellFormed(g) /\ w \in Values(g)
      /\ WellFormed(h) /\ v \in Values(h) /\ at \in Addresses
  BY DEF CopyOf
<1>1. ASSUME NEW path \in Seq(Keys), ~Leads(h, v, path)
      PROVE  ValueAt(h, v, path) = Missing /\ ValueAt(g, w, path) = Missing
  <2>1. ValueAt(h, v, path) = Missing
    BY <1>0, <1>1, LeadsOrMisses
  <2>2. ~Sound(h, v, path)
    <3>1. Len(path) \in 0..Len(path) /\ Trail(h, v, path)[Len(path)] = Missing
      BY <2>1 DEF ValueAt
    <3> QED BY <3>1 DEF Sound
  <2>3. Retained(h, v, path) = Missing
    BY <2>1, <2>2 DEF Retained
  <2>4. ValueAt(g, w, path) = Retained(h, v, path)
    BY <2>2 DEF CopyOf, RetainedAs
  <2> QED BY <2>1, <2>3, <2>4
<1>2. Twins(h, v, g, w)
  <2> SUFFICES ASSUME NEW path \in Seq(Keys)
               PROVE  Alike(ValueAt(h, v, path), ValueAt(g, w, path))
    BY DEF Twins
  <2>1. CASE Leads(h, v, path)
    <3>1. Sound(h, v, path)
      BY <2>1 DEF AllSound
    <3>2. RetainedAs(h, v, at, path, g, ValueAt(g, w, path))
      BY DEF CopyOf
    <3>3. Alike(ValueAt(g, w, path), ValueAt(h, v, path))
      BY <1>0, <3>1, <3>2, CopiesLieAtPaths
    <3> QED BY <3>3 DEF Alike
  <2>2. CASE ~Leads(h, v, path)
    BY <1>1, <2>2 DEF Alike
  <2> QED BY <2>1, <2>2
<1>3. AllSound(g, w)
  <2> SUFFICES ASSUME NEW path \in Seq(Keys), Leads(g, w, path) PROVE Sound(g, w, path)
    BY DEF AllSound
  <2>1. Leads(h, v, path)
    BY <1>0, <1>2, TwinsLead
  <2> QED BY <2>1, CopiesAreSound DEF AllSound
<1> QED BY <1>2, <1>3

(* A copy of what is kept whole says the same. *)
LEMMA CopiesOfRetained ==
  ASSUME NEW h, NEW v, NEW at, NEW g, NEW w, CopyOf(h, v, at, g, w), SelfRetained(h, v)
  PROVE  Twins(h, v, g, w)
<1> SUFFICES ASSUME NEW path \in Seq(Keys)
             PROVE  Alike(ValueAt(h, v, path), ValueAt(g, w, path))
  BY DEF Twins
<1>1. Alike(ValueAt(h, v, path), Retained(h, v, path))
  BY DEF SelfRetained
<1>2. RetainedAs(h, v, at, path, g, ValueAt(g, w, path))
  BY DEF CopyOf
<1>3. Alike(ValueAt(g, w, path), Retained(h, v, path))
  BY <1>2, RetainedIsAlike DEF CopyOf
<1> QED BY <1>1, <1>3 DEF Alike

LEMMA RetainedIsSupported ==
  ASSUME NEW h, WellFormed(h), NEW v \in Values(h), SelfRetained(h, v)
  PROVE  v \notin Unsupported
<1> SUFFICES ASSUME v \in Unsupported PROVE FALSE
  OBVIOUS
<1>1. ~Sound(h, v, <<>>)
  BY SoundOfNothing
<1>2. Retained(h, v, <<>>) = Missing
  BY <1>1, FrontIsPath DEF Retained
<1>3. Alike(v, Missing)
  <2>1. <<>> \in Seq(Keys) /\ ValueAt(h, v, <<>>) = v
    BY ValuesAtPaths DEF Found
  <2> QED BY <1>2, <2>1 DEF SelfRetained
<1> QED BY <1>3, AlikeMissing, MissingIsNothing DEF Found

-----------------------------------------------------------------------------
(* The walk from an element is the rest of a walk from its container.        *)

LEMMA ConsPath ==
  ASSUME NEW k \in Keys, NEW path \in Seq(Keys)
  PROVE  /\ <<k>> \o path \in Seq(Keys)
         /\ Len(<<k>> \o path) = Len(path) + 1
         /\ <<k>> \o path # <<>>
         /\ (<<k>> \o path)[1] = k
         /\ \A i \in 1..Len(path) : (<<k>> \o path)[i + 1] = path[i]
<1>1. k \in Keys /\ path \in Seq(Keys)
  OBVIOUS
<1> QED BY <1>1, ConsOfSequence

LEMMA TrailOfCons ==
  ASSUME NEW h, WellFormed(h), NEW v \in Found(h), NEW k \in Keys, NEW path \in Seq(Keys)
  PROVE  /\ Trail(h, v, <<k>> \o path)[0] = v
         /\ \A i \in 0..Len(path) : Trail(h, v, <<k>> \o path)[i + 1] = Trail(h, ItemAt(h, v, k), path)[i]
         /\ ValueAt(h, v, <<k>> \o path) = ValueAt(h, ItemAt(h, v, k), path)
<1> DEFINE long == <<k>> \o path
           e == ItemAt(h, v, k)
           n == Len(path)
           t == Trail(h, e, path)
           u == Trail(h, v, long)
<1>1. /\ long \in Seq(Keys) /\ Len(long) = n + 1 /\ n \in Nat
      /\ long[1] = k /\ \A i \in 1..n : long[i + 1] = path[i]
  BY ConsPath
<1>2. e \in Found(h)
  BY ItemsAreValues
<1> HIDE DEF long, e
<1>3. t[0] = e /\ \A i \in 1..n : t[i] = ItemAt(h, t[i - 1], path[i])
  BY <1>2, TrailWalks
<1>4. u[0] = v /\ \A i \in 1..(n + 1) : u[i] = ItemAt(h, u[i - 1], long[i])
  <2>1. u[0] = v /\ \A i \in 1..Len(long) : u[i] = ItemAt(h, u[i - 1], long[i])
    BY <1>1, TrailWalks
  <2> QED BY <1>1, <2>1
<1>5. ValueAt(h, e, path) = t[n] /\ ValueAt(h, v, long) = u[n + 1]
  BY <1>1 DEF ValueAt
<1> HIDE DEF t, u, n
<1> DEFINE T == {i \in Nat : i <= n => u[i + 1] = t[i]}
<1>6. 0 \in T
  <2>1. 1 \in 1..(n + 1) /\ 1 - 1 = 0 /\ 0 + 1 = 1
    BY <1>1
  <2>2. u[1] = ItemAt(h, u[0], long[1])
    BY <1>4, <2>1
  <2>3. u[1] = e
    BY <1>1, <1>4, <2>2 DEF e
  <2> QED BY <1>3, <2>1, <2>3
<1>7. ASSUME NEW i \in Nat, i \in T PROVE i + 1 \in T
  <2> SUFFICES ASSUME i + 1 <= n PROVE u[(i + 1) + 1] = t[i + 1]
    OBVIOUS
  <2>1. /\ u[i + 1] = t[i] /\ i + 1 \in 1..n /\ (i + 1) - 1 = i
        /\ (i + 1) + 1 \in 1..(n + 1) /\ ((i + 1) + 1) - 1 = i + 1
    BY <1>1, <1>7
  <2>2. t[i + 1] = ItemAt(h, t[i], path[i + 1])
    BY <1>3, <2>1
  <2>3. u[(i + 1) + 1] = ItemAt(h, u[i + 1], long[(i + 1) + 1])
    BY <1>4, <2>1
  <2>4. long[(i + 1) + 1] = path[i + 1]
    BY <1>1, <2>1
  <2> QED BY <2>1, <2>2, <2>3, <2>4
<1>8. \A i \in 0..n : u[i + 1] = t[i]
  <2>1. Nat \subseteq T
    <3> HIDE DEF T
    <3> QED BY <1>6, <1>7, Induction
  <2> QED BY <1>1, <2>1
<1>9. u[n + 1] = t[n]
  BY <1>1, <1>8
<1> QED BY <1>4, <1>5, <1>8, <1>9 DEF t, u, n, long, e

LEMMA LeadsOfCons ==
  ASSUME NEW h, WellFormed(h), NEW v \in Found(h), NEW k \in Keys, NEW path \in Seq(Keys)
  PROVE  Leads(h, v, <<k>> \o path)
           <=> k \in DOMAIN Items(h, v) /\ Leads(h, ItemAt(h, v, k), path)
<1> DEFINE long == <<k>> \o path
           e == ItemAt(h, v, k)
           n == Len(path)
           t == Trail(h, e, path)
           u == Trail(h, v, long)
<1>1. /\ Len(long) = n + 1 /\ n \in Nat
      /\ long[1] = k /\ \A i \in 1..n : long[i + 1] = path[i]
  BY ConsPath
<1>2. u[0] = v /\ \A i \in 0..n : u[i + 1] = t[i]
  BY TrailOfCons
<1>3. Leads(h, e, path) <=> \A i \in 1..n : path[i] \in DOMAIN Items(h, t[i - 1])
  BY DEF Leads
<1> HIDE DEF long, e
<1>4. Leads(h, v, long) <=> \A i \in 1..(n + 1) : long[i] \in DOMAIN Items(h, u[i - 1])
  BY <1>1 DEF Leads
<1> HIDE DEF t, u, n
<1>5. ASSUME NEW i \in 1..n
      PROVE  long[i + 1] \in DOMAIN Items(h, u[(i + 1) - 1]) <=> path[i] \in DOMAIN Items(h, t[i - 1])
  <2>1. i - 1 \in 0..n /\ (i + 1) - 1 = (i - 1) + 1
    BY <1>1
  <2>2. u[(i + 1) - 1] = t[i - 1]
    BY <1>2, <2>1
  <2> QED BY <1>1, <2>2
<1>6. \A i \in 1..(n + 1) : i = 1 \/ \E j \in 1..n : i = j + 1
  <2> SUFFICES ASSUME NEW i \in 1..(n + 1), i # 1 PROVE \E j \in 1..n : i = j + 1
    OBVIOUS
  <2>1. i - 1 \in 1..n /\ i = (i - 1) + 1
    BY <1>1
  <2> QED BY <2>1
<1>7. \A j \in 1..n : j + 1 \in 1..(n + 1)
  BY <1>1
<1>8. 1 \in 1..(n + 1) /\ 1 - 1 = 0
  BY <1>1
<1>9. Leads(h, v, long) => k \in DOMAIN Items(h, v) /\ Leads(h, e, path)
  <2> SUFFICES ASSUME Leads(h, v, long) PROVE k \in DOMAIN Items(h, v) /\ Leads(h, e, path)
    OBVIOUS
  <2>1. long[1] \in DOMAIN Items(h, u[1 - 1])
    BY <1>4, <1>8
  <2>2. \A j \in 1..n : long[j + 1] \in DOMAIN Items(h, u[(j + 1) - 1])
    BY <1>4, <1>7
  <2> QED BY <1>1, <1>2, <1>3, <1>5, <1>8, <2>1, <2>2
<1>10. k \in DOMAIN Items(h, v) /\ Leads(h, e, path) => Leads(h, v, long)
  <2> SUFFICES ASSUME k \in DOMAIN Items(h, v), Leads(h, e, path), NEW i \in 1..(n + 1)
               PROVE  long[i] \in DOMAIN Items(h, u[i - 1])
    BY <1>4
  <2>1. CASE i = 1
    BY <1>1, <1>2, <1>8, <2>1
  <2>2. CASE i # 1
    <3>1. PICK j \in 1..n : i = j + 1
      BY <1>6, <2>2
    <3> QED BY <1>3, <1>5, <3>1
  <2> QED BY <2>1, <2>2
<1> QED BY <1>9, <1>10 DEF long, e

LEMMA DepthOfCons ==
  ASSUME NEW h, WellFormed(h), NEW v \in Found(h), NEW k \in Keys
  PROVE  \A path \in Seq(Keys) : DepthAt(h, ItemAt(h, v, k), path) <= DepthAt(h, v, <<k>> \o path)
<1> DEFINE e == ItemAt(h, v, k)
           T == {path \in Seq(Keys) : DepthAt(h, e, path) <= DepthAt(h, v, <<k>> \o path)}
<1>0. e \in Found(h)
  BY ItemsAreValues
<1>1. <<>> \in T
  <2>1. <<>> \in Seq(Keys) /\ <<k>> \o <<>> \in Seq(Keys)
    OBVIOUS
  <2>2. DepthAt(h, e, <<>>) = 0 /\ DepthAt(h, v, <<k>> \o <<>>) \in Nat
    BY <2>1, DepthsAtPaths
  <2> HIDE DEF e
  <2> QED BY <2>1, <2>2
<1>2. ASSUME NEW path \in Seq(Keys), path \in T, NEW j \in Keys PROVE Append(path, j) \in T
  <2> DEFINE next == Append(path, j)
             long == <<k>> \o path
             step == Levels(ValueAt(h, e, path).type, ValueAt(h, e, next))
  <2>1. next \in Seq(Keys) /\ long \in Seq(Keys) /\ <<k>> \in Seq(Keys)
    BY ConsPath
  <2>2. <<k>> \o next = Append(long, j)
    BY <2>1, AppendOfPaths
  <2>3. /\ ValueAt(h, v, long) = ValueAt(h, e, path)
        /\ ValueAt(h, v, <<k>> \o next) = ValueAt(h, e, next)
    <3> HIDE DEF next
    <3> QED BY <2>1, TrailOfCons
  <2>4. DepthAt(h, e, next) = DepthAt(h, e, path) + step
    BY <1>0, DepthOfAppend
  <2> HIDE DEF long
  <2>5. DepthAt(h, v, <<k>> \o next) = DepthAt(h, v, long) + step
    <3>1. DepthAt(h, v, Append(long, j))
            = DepthAt(h, v, long) + Levels(ValueAt(h, v, long).type, ValueAt(h, v, Append(long, j)))
      BY <2>1, DepthOfAppend
    <3> HIDE DEF next
    <3> QED BY <2>2, <2>3, <3>1
  <2>6. DepthAt(h, e, path) \in Nat /\ DepthAt(h, v, long) \in Nat /\ step \in {1, 2}
    BY <2>1, DepthsAtPaths, LevelsFacts
  <2>7. DepthAt(h, e, path) <= DepthAt(h, v, long)
    BY <1>2 DEF long
  <2> HIDE DEF next, step, e
  <2>8. DepthAt(h, e, next) <= DepthAt(h, v, <<k>> \o next)
    BY <2>4, <2>5, <2>6, <2>7
  <2> QED BY <2>1, <2>8 DEF next, e
<1>3. Seq(Keys) \subseteq T
  <2> HIDE DEF T
  <2> QED BY <1>1, <1>2, PathInduction
<1> QED BY <1>3

LEMMA SoundOfCons ==
  ASSUME NEW h, WellFormed(h), NEW v \in Found(h), NEW k \in Keys, NEW path \in Seq(Keys),
         Sound(h, v, <<k>> \o path)
  PROVE  Sound(h, ItemAt(h, v, k), path)
<1> DEFINE long == <<k>> \o path
           e == ItemAt(h, v, k)
           n == Len(path)
           t == Trail(h, e, path)
           u == Trail(h, v, long)
           Good(x) == x # Missing /\ x \notin Unsupported
           Apart(x, y) == IsObject(x) => x.addr # y.addr
<1>0. e \in Found(h)
  BY ItemsAreValues
<1>1. long \in Seq(Keys) /\ Len(long) = n + 1 /\ n \in Nat
  BY ConsPath
<1>2. \A i \in 0..n : u[i + 1] = t[i]
  BY TrailOfCons
<1>3. DepthAt(h, e, path) <= DepthAt(h, v, long)
  BY DepthOfCons
<1> HIDE DEF long
<1>4. DepthAt(h, e, path) \in Nat /\ DepthAt(h, v, long) \in Nat
  BY <1>1, DepthsAtPaths
<1>5. Clean(h, v, long) /\ DepthAt(h, v, long) <= ContextDepth
  BY SoundIsClean DEF long
<1>6. DepthAt(h, e, path) <= ContextDepth
  <2> HIDE DEF e
  <2> QED BY <1>3, <1>4, <1>5, DepthConstants
<1>7. Clean(h, v, long) <=> /\ \A i \in 0..(n + 1) : Good(u[i])
                            /\ \A i, j \in 0..(n + 1) : i < j => Apart(u[i], u[j])
  BY <1>1 DEF Clean
<1>8. Clean(h, e, path) <=> /\ \A i \in 0..n : Good(t[i])
                            /\ \A i, j \in 0..n : i < j => Apart(t[i], t[j])
  BY DEF Clean
<1> HIDE DEF e, n, t, u, Good, Apart
<1>9. \A i \in 0..n : i + 1 \in 0..(n + 1)
  BY <1>1
<1>10. ASSUME NEW i \in 0..n PROVE Good(t[i])
  BY <1>2, <1>5, <1>7, <1>9
<1>11. ASSUME NEW i \in 0..n, NEW j \in 0..n, i < j PROVE Apart(t[i], t[j])
  <2>1. i + 1 \in 0..(n + 1) /\ j + 1 \in 0..(n + 1) /\ i + 1 < j + 1
    BY <1>1, <1>11
  <2>2. Apart(u[i + 1], u[j + 1])
    BY <1>5, <1>7, <2>1
  <2> QED BY <1>2, <2>2
<1>12. Clean(h, e, path)
  BY <1>8, <1>10, <1>11
<1>13. Sound(h, e, path)
  BY <1>6, <1>12, SoundIsClean
<1> QED BY <1>13 DEF e

(* Nothing that stands for an item is alike to what is not supported. *)
LEMMA AlikeUnsupported ==
  ASSUME NEW t \in Unsupported, NEW z, z \notin Unsupported, z \in Scalars \cup PlainNils
  PROVE  ~Alike(t, z)
<1> SUFFICES ASSUME Alike(t, z) PROVE FALSE
  OBVIOUS
<1>1. t = Scalar("float", "NaN") /\ t.type = "float" /\ t.val = "NaN"
  BY DEF Unsupported, Scalar
<1>2. z.type = "float" /\ z.val = "NaN"
  BY <1>1 DEF Alike
<1>3. z \in Scalars
  <2>1. "float" \notin Containers
    BY DEF Containers, MapTypes, SliceTypes
  <2>2. \A type \in Containers : Ref(type, NoAddress).type = type
    BY DEF Ref
  <2> QED BY <1>2, <2>1, <2>2 DEF PlainNils
<1>4. z = Scalar("float", "NaN")
  BY <1>2, <1>3, ScalarValues
<1> QED BY <1>4 DEF Unsupported

(* An element of what is kept whole is kept whole, and of what can be held   *)
(* can be held.                                                              *)
LEMMA ElementsAreSelfRetained ==
  ASSUME NEW h, WellFormed(h), NEW v \in Values(h), SelfRetained(h, v), NEW k \in DOMAIN Items(h, v)
  PROVE  SelfRetained(h, Items(h, v)[k])
<1> DEFINE e == Items(h, v)[k]
<1>0. v \in Found(h) /\ k \in Keys /\ e = ItemAt(h, v, k) /\ e \in Values(h) /\ e \in Found(h)
  BY ItemsAreValues DEF Found
<1> SUFFICES ASSUME NEW path \in Seq(Keys)
             PROVE  Alike(ValueAt(h, e, path), Retained(h, e, path))
  BY DEF SelfRetained
<1> DEFINE long == <<k>> \o path
<1>1. long \in Seq(Keys)
  BY <1>0, ConsPath
<1>2. ValueAt(h, v, long) = ValueAt(h, e, path)
  BY <1>0, TrailOfCons
<1>3. Alike(ValueAt(h, v, long), Retained(h, v, long))
  BY <1>1 DEF SelfRetained
<1>4. CASE Sound(h, e, path)
  BY <1>4 DEF Retained, Alike
<1>5. CASE ~Sound(h, e, path)
  <2>1. ~Sound(h, v, long)
    BY <1>0, <1>5, SoundOfCons
  <2>2. CASE ValueAt(h, e, path) = Missing
    BY <1>5, <2>2 DEF Retained, Alike
  <2>3. CASE ValueAt(h, e, path) # Missing
    <3>1. ValueAt(h, v, long) # Missing /\ ValueAt(h, v, long) \in Found(h)
      BY <1>0, <1>1, <1>2, <2>3, ValuesAtPaths
    <3>2. Retained(h, v, long) # Missing
      BY <1>3, <3>1, AlikeMissing
    <3>3. CASE path = <<>>
      <4>1. long = Append(<<>>, k) /\ <<>> \in Seq(Keys)
        BY <1>0, <3>3
      <4>2. /\ ValueAt(h, v, <<>>).type \in SliceTypes
            /\ Retained(h, v, long) = Zero(ElementType(ValueAt(h, v, <<>>).type))
        <5> HIDE DEF long
        <5>1. ~Sound(h, v, Append(<<>>, k))
          BY <2>1, <4>1
        <5>2. Retained(h, v, Append(<<>>, k))
                = IF /\ ValueAt(h, v, Append(<<>>, k)) # Missing
                     /\ Sound(h, v, <<>>)
                     /\ ValueAt(h, v, <<>>).type \in SliceTypes
                  THEN Zero(ElementType(ValueAt(h, v, <<>>).type))
                  ELSE Missing
          BY <1>0, <4>1, <5>1, RetainedOfAppend
        <5> QED BY <3>2, <4>1, <5>2
      <4>3. Zero(ElementType(ValueAt(h, v, <<>>).type)) \notin Unsupported
            /\ Zero(ElementType(ValueAt(h, v, <<>>).type)) \in Scalars \cup PlainNils
        BY <4>2, UnsupportedIsScalar, ZeroFits
      <4>4. ValueAt(h, e, <<>>) = e
        BY <1>0, ValuesAtPaths
      <4>5. e \in Unsupported
        BY <1>0, <1>5, <3>3, SoundOfNothing
      <4>6. Alike(e, Zero(ElementType(ValueAt(h, v, <<>>).type)))
        BY <1>2, <1>3, <3>3, <4>2, <4>4
      <4> QED BY <4>3, <4>5, <4>6, AlikeUnsupported
    <3>4. CASE path # <<>>
      <4>1. PICK front \in Seq(Keys), j \in Keys : path = Append(front, j)
        BY <3>4, SplitPath
      <4> DEFINE far == <<k>> \o front
      <4>2. <<k>> \in Seq(Keys) /\ far \in Seq(Keys)
        BY <1>0, ConsPath
      <4>3. long = Append(far, j)
        BY <4>1, <4>2, AppendOfPaths
      <4>4. ValueAt(h, v, far) = ValueAt(h, e, front)
        BY <1>0, TrailOfCons
      <4>5. Sound(h, v, far) => Sound(h, e, front)
        BY <1>0, SoundOfCons
      <4> HIDE DEF far
      <4>6. /\ Sound(h, v, far) /\ ValueAt(h, v, far).type \in SliceTypes
            /\ Retained(h, v, long) = Zero(ElementType(ValueAt(h, v, far).type))
        <5> HIDE DEF long
        <5> QED BY <2>1, <3>2, <4>2, <4>3, RetainedOfAppend
      <4>7. Retained(h, e, path) = Zero(ElementType(ValueAt(h, e, front).type))
        BY <1>5, <2>3, <4>1, <4>4, <4>5, <4>6, RetainedOfAppend
      <4>8. Retained(h, v, long) = Retained(h, e, path)
        BY <4>4, <4>6, <4>7
      <4> QED BY <1>2, <1>3, <4>8
    <3> QED BY <3>3, <3>4
  <2> QED BY <2>2, <2>3
<1> QED BY <1>4, <1>5

LEMMA ElementsAreSound ==
  ASSUME NEW h, WellFormed(h), NEW v \in Values(h), AllSound(h, v), NEW k \in DOMAIN Items(h, v)
  PROVE  AllSound(h, Items(h, v)[k])
<1> DEFINE e == Items(h, v)[k]
<1>0. v \in Found(h) /\ k \in Keys /\ e = ItemAt(h, v, k)
  BY ItemsAreValues DEF Found
<1> SUFFICES ASSUME NEW path \in Seq(Keys), Leads(h, e, path)
             PROVE  Sound(h, e, path)
  BY DEF AllSound
<1>1. <<k>> \o path \in Seq(Keys)
  BY <1>0, ConsPath
<1>2. Leads(h, v, <<k>> \o path)
  BY <1>0, LeadsOfCons
<1>3. Sound(h, v, <<k>> \o path)
  BY <1>1, <1>2 DEF AllSound
<1> QED BY <1>0, <1>3, SoundOfCons

-----------------------------------------------------------------------------
(* Trees of values. *)

LEMMA HeadAndTail ==
  ASSUME NEW path \in Seq(Keys)
  PROVE  /\ path # <<>> => path = <<Head(path)>> \o Tail(path) /\ Head(path) \in Keys /\ Tail(path) \in Seq(Keys)
         /\ \A k \in Keys : Head(<<k>> \o path) = k /\ Tail(<<k>> \o path) = path
BY HeadOfSequence

LEMMA UnfoldFacts ==
  ASSUME NEW h, WellFormed(h), NEW v \in Values(h)
  PROVE  /\ Unfold(h, v) = [path \in Led(h, v, Deepest) |-> Label(ValueAt(h, v, path))]
         /\ DOMAIN Unfold(h, v) = Led(h, v, Deepest)
         /\ \A path \in Led(h, v, Deepest) : Unfold(h, v)[path] = Label(ValueAt(h, v, path))
<1>1. Deepest \in Nat
  BY DepthConstants DEF Deepest
<1>2. PathsOf(h, v, Deepest) = Led(h, v, Deepest)
  BY <1>1, PathsAreLed DEF Found
<1> QED BY <1>2 DEF Unfold

LEMMA SoundIsShort ==
  ASSUME NEW h, NEW v, NEW path \in Seq(Keys), Sound(h, v, path)
  PROVE  Len(path) <= ContextDepth /\ Len(path) <= Deepest
<1>1. DepthAt(h, v, path) \in Nat /\ DepthAt(h, v, path) >= Len(path) /\ Len(path) \in Nat
  <2>1. \A p \in Seq(Keys) : DepthAt(h, v, p) \in Nat /\ DepthAt(h, v, p) >= Len(p)
    BY DepthsAtPaths
  <2>2. Len(path) \in Nat
    OBVIOUS
  <2> QED BY <2>1, <2>2
<1>2. DepthAt(h, v, path) <= ContextDepth
  BY SoundIsClean
<1>3. Len(path) <= ContextDepth
  BY <1>1, <1>2, DepthConstants
<1>4. ContextDepth <= Deepest /\ Deepest \in Nat
  BY DepthConstants DEF Deepest
<1> QED BY <1>1, <1>3, <1>4, DepthConstants

LEMMA SubtreeOfUnfold ==
  ASSUME NEW h, WellFormed(h), NEW v \in Values(h), AllSound(h, v), NEW k \in DOMAIN Items(h, v)
  PROVE  Subtree(Unfold(h, v), k) = Unfold(h, Items(h, v)[k])
<1> DEFINE e == Items(h, v)[k]
           tree == Unfold(h, v)
           D == {Tail(p) : p \in {q \in DOMAIN tree : q # <<>> /\ Head(q) = k}}
<1>0. v \in Found(h) /\ k \in Keys /\ e = ItemAt(h, v, k) /\ e \in Values(h)
  BY ItemsAreValues DEF Found
<1>1. /\ DOMAIN tree = Led(h, v, Deepest)
      /\ \A path \in Led(h, v, Deepest) : tree[path] = Label(ValueAt(h, v, path))
  BY UnfoldFacts
<1>2. Unfold(h, e) = [path \in Led(h, e, Deepest) |-> Label(ValueAt(h, e, path))]
  BY <1>0, UnfoldFacts
<1>3. Subtree(tree, k) = [path \in D |-> tree[<<k>> \o path]]
  BY DEF Subtree
<1> HIDE DEF tree, e
<1>4. ASSUME NEW path \in Led(h, e, Deepest)
      PROVE  <<k>> \o path \in Led(h, v, Deepest) /\ path \in D /\ tree[<<k>> \o path] = Label(ValueAt(h, e, path))
  <2> DEFINE long == <<k>> \o path
  <2>1. path \in Seq(Keys) /\ Leads(h, e, path)
    BY DEF Led
  <2>2. long \in Seq(Keys) /\ long # <<>> /\ Head(long) = k /\ Tail(long) = path
    BY <1>0, <2>1, ConsPath, HeadAndTail
  <2>3. Leads(h, v, long) /\ ValueAt(h, v, long) = ValueAt(h, e, path)
    BY <1>0, <2>1, LeadsOfCons, TrailOfCons
  <2> HIDE DEF long
  <2>4. Len(long) <= Deepest
    BY <2>2, <2>3, SoundIsShort DEF AllSound
  <2>5. long \in Led(h, v, Deepest)
    BY <2>2, <2>3, <2>4 DEF Led
  <2>6. path \in D
    BY <1>1, <2>2, <2>5
  <2>7. tree[long] = Label(ValueAt(h, e, path))
    BY <1>1, <2>3, <2>5
  <2> QED BY <2>5, <2>6, <2>7 DEF long
<1>5. ASSUME NEW path \in D PROVE path \in Led(h, e, Deepest)
  <2>1. PICK p \in Led(h, v, Deepest) : p # <<>> /\ Head(p) = k /\ path = Tail(p)
    BY <1>1
  <2>2. p \in Seq(Keys) /\ Leads(h, v, p) /\ Len(p) <= Deepest
    BY DEF Led
  <2>3. p = <<k>> \o path /\ path \in Seq(Keys)
    BY <2>1, <2>2, HeadAndTail
  <2>4. Leads(h, e, path)
    BY <1>0, <2>2, <2>3, LeadsOfCons
  <2>5. Len(p) = Len(path) + 1 /\ Len(path) \in Nat
    BY <1>0, <2>3, ConsPath
  <2>6. Len(path) <= Deepest
    <3>1. Deepest \in Nat
      BY DepthConstants DEF Deepest
    <3> QED BY <2>2, <2>5, <3>1
  <2> QED BY <2>3, <2>4, <2>6 DEF Led
<1>6. D = Led(h, e, Deepest)
  <2> HIDE DEF D
  <2> QED BY <1>4, <1>5
<1> HIDE DEF D
<1>7. Subtree(tree, k) = Unfold(h, e)
  BY <1>2, <1>3, <1>4, <1>6
<1> QED BY <1>7 DEF tree, e

LEMMA KeysOfUnfold ==
  ASSUME NEW h, WellFormed(h), NEW v \in Values(h), AllSound(h, v), NEW k \in Keys
  PROVE  <<k>> \in DOMAIN Unfold(h, v) <=> k \in DOMAIN Items(h, v)
<1>0. v \in Found(h)
  BY DEF Found
<1>1. DOMAIN Unfold(h, v) = Led(h, v, Deepest)
  BY UnfoldFacts
<1>2. <<k>> \in Seq(Keys) /\ <<>> \in Seq(Keys) /\ <<k>> = Append(<<>>, k)
  OBVIOUS
<1>3. Leads(h, v, <<k>>) <=> k \in DOMAIN Items(h, v)
  <2>1. Leads(h, v, Append(<<>>, k)) <=> Leads(h, v, <<>>) /\ k \in DOMAIN Items(h, ValueAt(h, v, <<>>))
    BY <1>0, <1>2, LeadsOfAppend
  <2>2. ValueAt(h, v, <<>>) = v
    BY <1>0, ValuesAtPaths
  <2> QED BY <1>2, <2>1, <2>2, LeadsOfNothing
<1>4. Leads(h, v, <<k>>) => Len(<<k>>) <= Deepest
  BY <1>2, SoundIsShort DEF AllSound
<1> QED BY <1>1, <1>2, <1>3, <1>4 DEF Led

(* What nil data becomes. *)
LEMMA EmptyMap ==
  ASSUME NEW h, WellFormed(h), NEW v \in Values(h), IsObject(v), DOMAIN Items(h, v) = {}
  PROVE  SelfRetained(h, v) /\ AllSound(h, v) /\ Unfold(h, v) = Leaf(v.type, v.val)
<1>0. v \in Found(h) /\ v \notin Unsupported /\ <<>> \in Seq(Keys)
  BY UnsupportedIsScalar DEF Found
<1>1. ASSUME NEW path \in Seq(Keys), path # <<>> PROVE ~Leads(h, v, path)
  <2>1. 1 \in 1..Len(path) /\ 1 - 1 = 0
    BY <1>1
  <2>2. Trail(h, v, path)[0] = v
    BY <1>0, TrailWalks
  <2> QED BY <2>1, <2>2 DEF Leads
<1>2. ASSUME NEW path \in Seq(Keys), path # <<>>
      PROVE  Alike(ValueAt(h, v, path), Retained(h, v, path))
  <2>1. ValueAt(h, v, path) = Missing
    BY <1>1, <1>2, LeadsOrMisses
  <2> QED BY <2>1 DEF Retained, Alike
<1>3. Sound(h, v, <<>>)
  BY <1>0, SoundOfNothing
<1>4. SelfRetained(h, v)
  <2>1. Alike(ValueAt(h, v, <<>>), Retained(h, v, <<>>))
    BY <1>3 DEF Retained, Alike
  <2> QED BY <1>2, <2>1 DEF SelfRetained
<1>5. AllSound(h, v)
  BY <1>1, <1>3 DEF AllSound
<1>6. Unfold(h, v) = Leaf(v.type, v.val)
  <2>1. Led(h, v, Deepest) = {<<>>}
    <3>1. <<>> \in Led(h, v, Deepest)
      <4>1. Len(<<>>) = 0 /\ Deepest \in Nat
        BY DepthConstants DEF Deepest
      <4> QED BY <1>0, <4>1, LeadsOfNothing DEF Led
    <3> QED BY <1>1, <3>1 DEF Led
  <2>2. Label(ValueAt(h, v, <<>>)) = Node(v.type, v.val)
    BY <1>0, ValuesAtPaths DEF Label
  <2>3. Unfold(h, v) = [path \in {<<>>} |-> Label(ValueAt(h, v, path))]
    BY <2>1, UnfoldFacts
  <2> QED BY <2>2, <2>3 DEF Leaf
<1> QED BY <1>4, <1>5, <1>6

-----------------------------------------------------------------------------
(* Sequences that follow one another. *)

LEMMA ConcatFacts ==
  ASSUME NEW S, NEW a \in Seq(S), NEW b \in Seq(S)
  PROVE  /\ a \o b \in Seq(S)
         /\ Len(a \o b) = Len(a) + Len(b)
         /\ \A i \in 1..Len(a) : (a \o b)[i] = a[i]
         /\ \A i \in 1..Len(b) : (a \o b)[Len(a) + i] = b[i]
OBVIOUS

LEMMA SameSequence ==
  ASSUME NEW S, NEW a \in Seq(S), NEW b \in Seq(S), Len(a) = Len(b), \A i \in 1..Len(a) : a[i] = b[i]
  PROVE  a = b
OBVIOUS

LEMMA ConcatAssociates ==
  ASSUME NEW S, NEW a \in Seq(S), NEW b \in Seq(S), NEW c \in Seq(S)
  PROVE  (a \o b) \o c = a \o (b \o c)
<1> DEFINE s == (a \o b) \o c
           t == a \o (b \o c)
<1>1. s \in Seq(S) /\ t \in Seq(S) /\ Len(s) = Len(t)
  OBVIOUS
<1>2. \A i \in 1..Len(s) : s[i] = t[i]
  OBVIOUS
<1> HIDE DEF s, t
<1>3. s = t
  BY <1>1, <1>2, SameSequence
<1> QED BY <1>3 DEF s, t

LEMMA ConcatNothing ==
  ASSUME NEW S, NEW a \in Seq(S)
  PROVE  a \o <<>> = a /\ <<>> \o a = a
OBVIOUS

LEMMA FirstIsFirst ==
  ASSUME NEW S, NEW x \in S, NEW y \in S, NEW a \in Seq(S), NEW b \in Seq(S),
         <<x>> \o a = <<y>> \o b
  PROVE  x = y /\ a = b
<1> DEFINE s == <<x>> \o a
           t == <<y>> \o b
<1>1. <<x>> \in Seq(S) /\ <<y>> \in Seq(S) /\ Len(<<x>>) = 1 /\ Len(<<y>>) = 1 /\ <<x>>[1] = x /\ <<y>>[1] = y
  OBVIOUS
<1>2. /\ Len(s) = 1 + Len(a) /\ s[1] = x /\ \A i \in 1..Len(a) : s[1 + i] = a[i]
      /\ Len(t) = 1 + Len(b) /\ t[1] = y /\ \A i \in 1..Len(b) : t[1 + i] = b[i]
  BY <1>1, ConcatFacts
<1>3. s = t
  OBVIOUS
<1> HIDE DEF s, t
<1>4. Len(a) = Len(b)
  BY <1>2, <1>3
<1>5. \A i \in 1..Len(a) : a[i] = b[i]
  BY <1>2, <1>3, <1>4
<1> QED BY <1>2, <1>3, <1>4, <1>5, SameSequence

(* FlattenSeq puts the parts one after the other. *)
Flat(e, f) == f = [i \in 1..Len(e) |-> IF i = 1 THEN e[i] ELSE f[i - 1] \o e[i]]

LEMMA FlatExists ==
  ASSUME NEW S, NEW e \in Seq(Seq(S)), Len(e) # 0
  PROVE  \E f \in [1..Len(e) -> Seq(S)] : Flat(e, f)
<1> DEFINE step == [i \in 1..Len(e) |-> [x \in Seq(S) |-> x \o e[i]]]
<1>0. Len(e) \in Nat /\ <<>> \in Seq(S) /\ \A i \in 1..Len(e) : e[i] \in Seq(S)
  OBVIOUS
<1>1. \A i \in 1..Len(e) : \A x \in Seq(S) : step[i][x] \in Seq(S) /\ step[i][x] = x \o e[i]
  BY <1>0
<1> HIDE DEF step
<1>2. PICK g \in [0..Len(e) -> Seq(S)] : Iteration(<<>>, step, Len(e), g)
  BY <1>0, <1>1, Iterates
<1>3. g[0] = <<>> /\ \A i \in 1..Len(e) : g[i] = g[i - 1] \o e[i]
  <2>1. \A i \in 0..Len(e) : g[i] = IF i = 0 THEN <<>> ELSE step[i][g[i - 1]]
    BY <1>2 DEF Iteration
  <2>2. 0 \in 0..Len(e)
    BY <1>0
  <2>3. \A i \in 1..Len(e) : i \in 0..Len(e) /\ i # 0 /\ i - 1 \in 0..Len(e)
    BY <1>0
  <2>4. \A i \in 1..Len(e) : g[i - 1] \in Seq(S) /\ g[i] = step[i][g[i - 1]]
    BY <2>1, <2>3
  <2> QED BY <1>1, <2>1, <2>2, <2>4
<1> DEFINE f == [i \in 1..Len(e) |-> g[i]]
<1>4. f \in [1..Len(e) -> Seq(S)] /\ \A i \in 1..Len(e) : f[i] = g[i]
  BY <1>0
<1>5. \A i \in 1..Len(e) : f[i] = IF i = 1 THEN e[i] ELSE f[i - 1] \o e[i]
  <2>1. ASSUME NEW i \in 1..Len(e), i = 1 PROVE f[i] = e[i]
    <3>1. g[i] = g[0] \o e[i]
      <4>1. i - 1 = 0
        BY <2>1
      <4> QED BY <1>3, <4>1
    <3>2. f[i] = <<>> \o e[i]
      BY <1>3, <1>4, <3>1
    <3> QED BY <1>0, <3>2, ConcatNothing
  <2>2. ASSUME NEW i \in 1..Len(e), i # 1 PROVE f[i] = f[i - 1] \o e[i]
    <3>1. i - 1 \in 1..Len(e)
      BY <1>0, <2>2
    <3> QED BY <1>3, <1>4, <3>1
  <2> QED BY <2>1, <2>2
<1> HIDE DEF f
<1>6. Flat(e, f)
  BY <1>4, <1>5 DEF Flat
<1> QED BY <1>4, <1>6

LEMMA FlattenFacts ==
  ASSUME NEW S, NEW e \in Seq(Seq(S))
  PROVE  /\ FlattenSeq(e) \in Seq(S)
         /\ Len(e) = 0 => FlattenSeq(e) = <<>>
         /\ Len(e) # 0 => \E f \in [1..Len(e) -> Seq(S)] : Flat(e, f) /\ FlattenSeq(e) = f[Len(e)]
<1>1. CASE Len(e) = 0
  <2>1. e = <<>>
    BY <1>1
  <2> QED BY <1>1, <2>1 DEF FlattenSeq
<1>2. CASE Len(e) # 0
  <2> DEFINE flat == CHOOSE f : Flat(e, f)
  <2>1. FlattenSeq(e) = flat[Len(e)]
    BY <1>2 DEF FlattenSeq, Flat
  <2>2. PICK f \in [1..Len(e) -> Seq(S)] : Flat(e, f)
    BY <1>2, FlatExists
  <2>3. Flat(e, flat)
    BY <2>2
  <2> HIDE DEF flat
  <2>4. flat \in [1..Len(e) -> Seq(S)]
    <3> DEFINE T == {i \in Nat : i + 1 \in 1..Len(e) => flat[i + 1] \in Seq(S)}
    <3>0. /\ Len(e) \in Nat /\ \A i \in 1..Len(e) : e[i] \in Seq(S)
          /\ \A i \in 1..Len(e) : flat[i] = IF i = 1 THEN e[i] ELSE flat[i - 1] \o e[i]
      <4>1. Len(e) \in Nat /\ \A i \in 1..Len(e) : e[i] \in Seq(S)
        OBVIOUS
      <4>2. flat = [i \in 1..Len(e) |-> IF i = 1 THEN e[i] ELSE flat[i - 1] \o e[i]]
        BY <2>3 DEF Flat
      <4>3. \A i \in 1..Len(e) : flat[i] = IF i = 1 THEN e[i] ELSE flat[i - 1] \o e[i]
        BY <4>2
      <4> QED BY <4>1, <4>3
    <3>1. 0 \in T
      BY <3>0
    <3>2. ASSUME NEW i \in Nat, i \in T PROVE i + 1 \in T
      <4> SUFFICES ASSUME i + 2 \in 1..Len(e) PROVE flat[i + 2] \in Seq(S)
        OBVIOUS
      <4>1. i + 1 \in 1..Len(e) /\ (i + 2) - 1 = i + 1 /\ i + 2 # 1
        BY <3>0
      <4>2. flat[i + 1] \in Seq(S) /\ e[i + 2] \in Seq(S)
        BY <3>0, <3>2, <4>1
      <4>3. flat[i + 2] = flat[i + 1] \o e[i + 2]
        BY <3>0, <4>1
      <4> QED BY <4>2, <4>3, ConcatFacts
    <3>3. Nat \subseteq T
      <4> HIDE DEF T
      <4> QED BY <3>1, <3>2, Induction
    <3>4. ASSUME NEW i \in 1..Len(e) PROVE flat[i] \in Seq(S)
      <4>1. i - 1 \in Nat /\ (i - 1) + 1 = i
        BY <3>0
      <4>2. i - 1 \in T
        BY <3>3, <4>1
      <4> QED BY <4>1, <4>2
    <3>5. flat = [i \in 1..Len(e) |-> flat[i]]
      BY <2>3 DEF Flat
    <3> QED BY <3>4, <3>5
  <2>5. flat[Len(e)] \in Seq(S)
    <3>1. Len(e) \in 1..Len(e)
      BY <1>2
    <3> QED BY <2>4, <3>1
  <2> QED BY <1>2, <2>1, <2>3, <2>4, <2>5
<1> QED BY <1>1, <1>2

(* Parts of which none continues as another can be told apart one by one.    *)
Then(a, b) == a \o b
Apart(S, x, y, I, same) == \A a, b \in Seq(S) : Then(x, a) = Then(y, b) => a = b /\ I \subseteq same
LEMMA ThenIsSeq ==
  ASSUME NEW S, NEW a \in Seq(S), NEW b \in Seq(S)
  PROVE  Then(a, b) \in Seq(S)
BY ConcatFacts DEF Then
LEMMA ThenAssociates ==
  ASSUME NEW S, NEW a \in Seq(S), NEW b \in Seq(S), NEW c \in Seq(S)
  PROVE  Then(Then(a, b), c) = Then(a, Then(b, c))
BY ConcatAssociates DEF Then
LEMMA ApartTogether ==
  ASSUME NEW S, NEW u \in Seq(S), NEW q \in Seq(S), NEW x \in Seq(S), NEW y \in Seq(S), NEW I, NEW J, NEW same,
         Apart(S, u, q, I, same), Apart(S, x, y, J, same)
  PROVE  Apart(S, Then(u, x), Then(q, y), I \cup J, same)
<1>3. ASSUME NEW a \in Seq(S), NEW b \in Seq(S), Then(Then(u, x), a) = Then(Then(q, y), b)
      PROVE  a = b /\ I \cup J \subseteq same
  <2>1. Then(u, Then(x, a)) = Then(Then(u, x), a) /\ Then(q, Then(y, b)) = Then(Then(q, y), b)
    BY ThenAssociates
  <2>2. Then(x, a) \in Seq(S) /\ Then(y, b) \in Seq(S)
    BY ThenIsSeq
  <2>4. Then(x, a) = Then(y, b) /\ I \subseteq same
    BY <1>3, <2>1, <2>2, Zenon DEF Apart
  <2>5. a = b /\ J \subseteq same
    BY <2>4 DEF Apart
  <2> QED BY <2>4, <2>5
<1> QED BY <1>3 DEF Apart

LEMMA FlatTellsApart ==
  ASSUME NEW S, NEW e \in Seq(Seq(S)), NEW d \in Seq(Seq(S)), Len(e) = Len(d), NEW same,
         \A i \in 1..Len(e) : Apart(S, e[i], d[i], {i}, same)
  PROVE  Apart(S, FlattenSeq(e), FlattenSeq(d), 1..Len(e), same)
<1> DEFINE n == Len(e)
<1>0. n \in Nat /\ \A i \in 1..n : e[i] \in Seq(S) /\ d[i] \in Seq(S)
  OBVIOUS
<1>1. CASE n = 0
  <2>1. FlattenSeq(e) = <<>> /\ FlattenSeq(d) = <<>>
    BY <1>1, FlattenFacts
  <2>2. 1..n = {}
    BY <1>1
  <2> QED BY <2>1, <2>2, ConcatNothing DEF Apart, Then
<1>2. CASE n # 0
  <2>1. PICK f \in [1..n -> Seq(S)] : Flat(e, f) /\ FlattenSeq(e) = f[n]
    BY <1>2, FlattenFacts
  <2>2. PICK g \in [1..n -> Seq(S)] : Flat(d, g) /\ FlattenSeq(d) = g[n]
    BY <1>2, FlattenFacts
  <2> HIDE DEF n
  <2>3. \A i \in 1..n : f[i] = IF i = 1 THEN e[i] ELSE f[i - 1] \o e[i]
    BY <2>1 DEF Flat, n
  <2>4. \A i \in 1..n : g[i] = IF i = 1 THEN d[i] ELSE g[i - 1] \o d[i]
    BY <2>2 DEF Flat, n
  <2> DEFINE T == {j \in Nat : j \in 1..n => Apart(S, f[j], g[j], 1..j, same)}
  <2>5. 0 \in T
    BY <1>0
  <2>6. ASSUME NEW j \in Nat, j \in T PROVE j + 1 \in T
    <3> SUFFICES ASSUME j + 1 \in 1..n PROVE Apart(S, f[j + 1], g[j + 1], 1..(j + 1), same)
      OBVIOUS
    <3>0. Apart(S, e[j + 1], d[j + 1], {j + 1}, same)
      BY DEF n
    <3>1. e[j + 1] \in Seq(S) /\ d[j + 1] \in Seq(S)
      BY <1>0
    <3>2. CASE j = 0
      <4>1. 1 \in 1..n /\ j + 1 = 1 /\ {1} = 1..1
        BY <1>0, <1>2, <3>2
      <4>2. f[1] = e[1] /\ g[1] = d[1]
        BY <2>3, <2>4, <4>1
      <4> QED BY <3>0, <4>1, <4>2
    <3>3. CASE j # 0
      <4>1. j \in 1..n /\ (j + 1) - 1 = j /\ j + 1 # 1 /\ 1..(j + 1) = (1..j) \cup {j + 1}
        BY <1>0, <3>3
      <4>2. f[j + 1] = Then(f[j], e[j + 1]) /\ g[j + 1] = Then(g[j], d[j + 1])
        BY <2>3, <2>4, <4>1 DEF Then
      <4>3. Apart(S, f[j], g[j], 1..j, same)
        BY <2>6, <4>1
      <4>4. f[j] \in Seq(S) /\ g[j] \in Seq(S)
        BY <2>1, <2>2, <4>1
      <4> HIDE DEF T
      <4>5. Apart(S, Then(f[j], e[j + 1]), Then(g[j], d[j + 1]), (1..j) \cup {j + 1}, same)
        BY <3>0, <3>1, <4>3, <4>4, ApartTogether
      <4> QED BY <4>1, <4>2, <4>5
    <3> QED BY <3>2, <3>3
  <2>7. Apart(S, f[n], g[n], 1..n, same)
    <3>1. Nat \subseteq T
      <4> HIDE DEF T
      <4> QED BY <2>5, <2>6, Induction
    <3>2. n \in 1..n
      BY <1>0, <1>2
    <3> QED BY <1>0, <3>1, <3>2
  <2> QED BY <2>1, <2>2, <2>7 DEF n
<1> QED BY <1>1, <1>2

-----------------------------------------------------------------------------
(* Keys in their order. *)

After(keys, known, k) == IF k \in keys THEN Append(known, k) ELSE known
SortEquation(keys, f) ==
  f = [i \in 0..Len(KeyOrder) |->
         IF i = 0 THEN <<>>
         ELSE IF KeyOrder[i] \in keys THEN Append(f[i - 1], KeyOrder[i]) ELSE f[i - 1]]

LEMMA KeysInOrder ==
  /\ Len(KeyOrder) = 6
  /\ KeyOrder[1] = "0" /\ KeyOrder[2] = "1" /\ KeyOrder[3] = "2"
  /\ KeyOrder[4] = "a" /\ KeyOrder[5] = "b" /\ KeyOrder[6] = "c"
BY DEF KeyOrder

LEMMA SortedSteps ==
  ASSUME NEW keys
  PROVE  Sorted(keys)
           = After(keys, After(keys, After(keys, After(keys, After(keys, After(keys, <<>>,
               "0"), "1"), "2"), "a"), "b"), "c")
<1> DEFINE f1 == After(keys, <<>>, "0")
           f2 == After(keys, f1, "1")
           f3 == After(keys, f2, "2")
           f4 == After(keys, f3, "a")
           f5 == After(keys, f4, "b")
           f6 == After(keys, f5, "c")
           g == [i \in 0..6 |-> CASE i = 0 -> <<>> [] i = 1 -> f1 [] i = 2 -> f2 [] i = 3 -> f3
                                  [] i = 4 -> f4 [] i = 5 -> f5 [] i = 6 -> f6]
           h == CHOOSE f : SortEquation(keys, f)
<1>1. Sorted(keys) = h[6]
  BY KeysInOrder DEF Sorted, SortEquation
<1>2. /\ f1 = After(keys, <<>>, "0") /\ f2 = After(keys, f1, "1") /\ f3 = After(keys, f2, "2")
      /\ f4 = After(keys, f3, "a") /\ f5 = After(keys, f4, "b") /\ f6 = After(keys, f5, "c")
  OBVIOUS
<1> HIDE DEF f1, f2, f3, f4, f5, f6
<1>3. SortEquation(keys, g)
  <2>1. g = [i \in 0..6 |-> g[i]] /\ g[0] = <<>> /\ g[1] = f1 /\ g[2] = f2 /\ g[3] = f3 /\ g[4] = f4
        /\ g[5] = f5 /\ g[6] = f6
    OBVIOUS
  <2> HIDE DEF g
  <2>2. \A i \in 0..6 : g[i] = IF i = 0 THEN <<>>
                               ELSE IF KeyOrder[i] \in keys THEN Append(g[i - 1], KeyOrder[i]) ELSE g[i - 1]
    <3> SUFFICES ASSUME NEW i \in 0..6
                 PROVE  g[i] = IF i = 0 THEN <<>>
                               ELSE IF KeyOrder[i] \in keys THEN Append(g[i - 1], KeyOrder[i]) ELSE g[i - 1]
      OBVIOUS
    <3>1. \/ i = 0
          \/ i = 1 /\ i - 1 = 0
          \/ i = 2 /\ i - 1 = 1
          \/ i = 3 /\ i - 1 = 2
          \/ i = 4 /\ i - 1 = 3
          \/ i = 5 /\ i - 1 = 4
          \/ i = 6 /\ i - 1 = 5
      OBVIOUS
    <3> QED BY <1>2, <2>1, <3>1, KeysInOrder DEF After
  <2> QED BY <2>1, <2>2, KeysInOrder DEF SortEquation
<1>4. SortEquation(keys, h)
  BY <1>3
<1> HIDE DEF h, g
<1>5. \A i \in 0..6 : h[i] = IF i = 0 THEN <<>>
                             ELSE IF KeyOrder[i] \in keys THEN Append(h[i - 1], KeyOrder[i]) ELSE h[i - 1]
  BY <1>4, KeysInOrder DEF SortEquation
<1>6. /\ h[0] = <<>> /\ h[1] = After(keys, h[0], "0") /\ h[2] = After(keys, h[1], "1")
      /\ h[3] = After(keys, h[2], "2") /\ h[4] = After(keys, h[3], "a")
      /\ h[5] = After(keys, h[4], "b") /\ h[6] = After(keys, h[5], "c")
  <2>1. /\ 0 \in 0..6 /\ 1 \in 0..6 /\ 2 \in 0..6 /\ 3 \in 0..6 /\ 4 \in 0..6 /\ 5 \in 0..6 /\ 6 \in 0..6
        /\ 1 - 1 = 0 /\ 2 - 1 = 1 /\ 3 - 1 = 2 /\ 4 - 1 = 3 /\ 5 - 1 = 4 /\ 6 - 1 = 5
    OBVIOUS
  <2> QED BY <1>5, <2>1, KeysInOrder DEF After
<1> QED BY <1>1, <1>2, <1>6

LEMMA AfterFacts ==
  ASSUME NEW keys, NEW known \in Seq(keys), NEW k
  PROVE  /\ After(keys, known, k) \in Seq(keys)
         /\ ToSet(known) \subseteq ToSet(After(keys, known, k))
         /\ k \in keys => k \in ToSet(After(keys, known, k))
<1>1. CASE k \in keys
  <2> DEFINE s == Append(known, k)
  <2>1. s \in Seq(keys) /\ Len(s) = Len(known) + 1 /\ s[Len(known) + 1] = k
        /\ \A i \in 1..Len(known) : s[i] = known[i]
    BY <1>1
  <2>2. After(keys, known, k) = s
    BY <1>1 DEF After
  <2> HIDE DEF s
  <2>3. DOMAIN s = 1..(Len(known) + 1) /\ DOMAIN known = 1..Len(known) /\ Len(known) \in Nat
    BY <2>1
  <2> QED BY <2>1, <2>2, <2>3 DEF ToSet
<1>2. CASE k \notin keys
  BY <1>2 DEF After
<1> QED BY <1>1, <1>2

LEMMA SortedFacts ==
  ASSUME NEW keys \in SUBSET Keys
  PROVE  Sorted(keys) \in Seq(keys) /\ ToSet(Sorted(keys)) = keys
<1> DEFINE f1 == After(keys, <<>>, "0")
           f2 == After(keys, f1, "1")
           f3 == After(keys, f2, "2")
           f4 == After(keys, f3, "a")
           f5 == After(keys, f4, "b")
           f6 == After(keys, f5, "c")
<1>0. Sorted(keys) = f6
  BY SortedSteps
<1>1. f1 \in Seq(keys) /\ ("0" \in keys => "0" \in ToSet(f1))
  <2>1. <<>> \in Seq(keys)
    OBVIOUS
  <2> QED BY <2>1, AfterFacts
<1> HIDE DEF f1
<1>2. f2 \in Seq(keys) /\ ToSet(f1) \subseteq ToSet(f2) /\ ("1" \in keys => "1" \in ToSet(f2))
  BY <1>1, AfterFacts
<1> HIDE DEF f2
<1>3. f3 \in Seq(keys) /\ ToSet(f2) \subseteq ToSet(f3) /\ ("2" \in keys => "2" \in ToSet(f3))
  BY <1>2, AfterFacts
<1> HIDE DEF f3
<1>4. f4 \in Seq(keys) /\ ToSet(f3) \subseteq ToSet(f4) /\ ("a" \in keys => "a" \in ToSet(f4))
  BY <1>3, AfterFacts
<1> HIDE DEF f4
<1>5. f5 \in Seq(keys) /\ ToSet(f4) \subseteq ToSet(f5) /\ ("b" \in keys => "b" \in ToSet(f5))
  BY <1>4, AfterFacts
<1> HIDE DEF f5
<1>6. f6 \in Seq(keys) /\ ToSet(f5) \subseteq ToSet(f6) /\ ("c" \in keys => "c" \in ToSet(f6))
  BY <1>5, AfterFacts
<1> HIDE DEF f6
<1>7. \A k \in keys : k \in ToSet(f6)
  BY <1>1, <1>2, <1>3, <1>4, <1>5, <1>6 DEF Keys
<1>8. ToSet(f6) \subseteq keys
  <2>1. \A i \in DOMAIN f6 : f6[i] \in keys
    BY <1>6
  <2> QED BY <2>1 DEF ToSet
<1> QED BY <1>0, <1>6, <1>7, <1>8

(* A slice's keys are known from their number. *)
LEMMA IndexesByNumber ==
  ASSUME NEW K \in Indexes, NEW L \in Indexes, Len(Sorted(K)) = Len(Sorted(L))
  PROVE  K = L
<1>2. ASSUME NEW M, M = {} PROVE Len(Sorted(M)) = 0
  BY <1>2, SortedSteps DEF After
<1>3. ASSUME NEW M, M = {"0"} PROVE Len(Sorted(M)) = 1
  BY <1>3, SortedSteps DEF After
<1>4. ASSUME NEW M, M = {"0", "1"} PROVE Len(Sorted(M)) = 2
  <2>1. "0" \in M /\ "1" \in M /\ "2" \notin M /\ "a" \notin M /\ "b" \notin M /\ "c" \notin M
    BY <1>4
  <2>2. Sorted(M) = Append(Append(<<>>, "0"), "1")
    BY <2>1, SortedSteps DEF After
  <2>3. Len(Append(Append(<<>>, "0"), "1")) = 2
    OBVIOUS
  <2> QED BY <2>2, <2>3
<1>5. ASSUME NEW M, M = {"0", "1", "2"} PROVE Len(Sorted(M)) = 3
  <2>1. "0" \in M /\ "1" \in M /\ "2" \in M /\ "a" \notin M /\ "b" \notin M /\ "c" \notin M
    BY <1>5
  <2>2. Sorted(M) = Append(Append(Append(<<>>, "0"), "1"), "2")
    BY <2>1, SortedSteps DEF After
  <2>3. Len(Append(Append(Append(<<>>, "0"), "1"), "2")) = 3
    OBVIOUS
  <2> QED BY <2>2, <2>3
<1> DEFINE ByLength(M, n) == /\ n = 0 => M = {}
                             /\ n = 1 => M = {"0"}
                             /\ n = 2 => M = {"0", "1"}
                             /\ n = 3 => M = {"0", "1", "2"}
<1>6. ASSUME NEW M \in Indexes
      PROVE  Len(Sorted(M)) \in 0..3 /\ ByLength(M, Len(Sorted(M)))
  <2>1. CASE M = {}
    <3>1. Len(Sorted(M)) = 0
      BY <1>2, <2>1, Zenon
    <3>2. 0 \in 0..3 /\ ByLength(M, 0)
      BY <2>1
    <3> QED BY <3>1, <3>2, Zenon
  <2>2. CASE M = {"0"}
    <3>1. Len(Sorted(M)) = 1
      BY <1>3, <2>2, Zenon
    <3>2. 1 \in 0..3 /\ ByLength(M, 1)
      BY <2>2
    <3> QED BY <3>1, <3>2, Zenon
  <2>3. CASE M = {"0", "1"}
    <3>1. Len(Sorted(M)) = 2
      BY <1>4, <2>3, Zenon
    <3>2. 2 \in 0..3 /\ ByLength(M, 2)
      BY <2>3
    <3> QED BY <3>1, <3>2, Zenon
  <2>4. CASE M = {"0", "1", "2"}
    <3>1. Len(Sorted(M)) = 3
      BY <1>5, <2>4, Zenon
    <3>2. 3 \in 0..3 /\ ByLength(M, 3)
      BY <2>4
    <3> QED BY <3>1, <3>2, Zenon
  <2> QED BY <2>1, <2>2, <2>3, <2>4 DEF Indexes
<1>7. PICK n \in 0..3 : n = Len(Sorted(K)) /\ ByLength(K, n) /\ ByLength(L, n)
  BY <1>6
<1>8. n = 0 \/ n = 1 \/ n = 2 \/ n = 3
  OBVIOUS
<1> QED BY <1>7, <1>8

-----------------------------------------------------------------------------
(* What a value unfolds to is a tree. *)

Texts ==
  {"", "nil", "n", "0", "1"} \cup Keys \cup Containers
    \cup {v.type : v \in Scalars} \cup {v.val : v \in Scalars}

NodeOf(node, keys) ==
  /\ node = Node(node.type, node.val) /\ node.type \in Texts /\ node.val \in Texts
  /\ keys \subseteq Keys
  /\ node.type \notin Containers => keys = {}
  /\ node.type = "nil" => node.val = ""
  /\ node.type \in Containers => node.val \in {"", "nil"} /\ (node.val = "nil" => keys = {})
  /\ node.type \in SliceTypes => keys \in Indexes

KeysAfter(t, p) == {k \in Keys : Append(p, k) \in DOMAIN t}

IsTree(t) ==
  /\ t = [p \in DOMAIN t |-> t[p]]
  /\ DOMAIN t \subseteq Seq(Keys)
  /\ <<>> \in DOMAIN t
  /\ \A p \in DOMAIN t : Len(p) <= Deepest /\ NodeOf(t[p], KeysAfter(t, p))
  /\ \A p \in Seq(Keys), k \in Keys : Append(p, k) \in DOMAIN t => p \in DOMAIN t

LEMMA FrontOfAppend ==
  ASSUME NEW p \in Seq(Keys), NEW k \in Keys
  PROVE  /\ Append(p, k) \in Seq(Keys) /\ Append(p, k) # <<>>
         /\ Len(Append(p, k)) = Len(p) + 1 /\ Append(p, k)[Len(p) + 1] = k
         /\ Front(Append(p, k)) = p
BY FrontOfSequence

LEMMA NextKeysAppend ==
  ASSUME NEW S, NEW t, DOMAIN t \subseteq Seq(S), NEW p \in Seq(S)
  PROVE  NextKeys(t, p) = {k \in S : Append(p, k) \in DOMAIN t}
<1> DEFINE after == {k \in S : Append(p, k) \in DOMAIN t}
<1>1. ASSUME NEW k \in NextKeys(t, p) PROVE k \in after
  <2>1. PICK q \in DOMAIN t : q # <<>> /\ Front(q) = p /\ k = q[Len(q)]
    BY <1>1 DEF NextKeys
  <2>2. PICK front \in Seq(S), j \in S : q = Append(front, j) /\ Front(q) = front
    BY <2>1, SplitSequence
  <2>3. front = p
    BY <2>1, <2>2
  <2>4. k = j
    BY <2>1, <2>2, FrontOfSequence
  <2> QED BY <2>2, <2>3, <2>4
<1>2. ASSUME NEW k \in after PROVE k \in NextKeys(t, p)
  <2>1. k \in S /\ Append(p, k) \in DOMAIN t
    OBVIOUS
  <2> DEFINE q == Append(p, k)
  <2>2. q # <<>> /\ Front(q) = p /\ Len(q) = Len(p) + 1 /\ q[Len(p) + 1] = k
    BY <2>1, FrontOfSequence
  <2> HIDE DEF q
  <2>3. q \in {r \in DOMAIN t : r # <<>> /\ Front(r) = p} /\ q[Len(q)] = k
    BY <2>1, <2>2 DEF q
  <2> QED BY <2>3 DEF NextKeys
<1> QED BY <1>1, <1>2

LEMMA NextKeysAreAfter ==
  ASSUME NEW t, DOMAIN t \subseteq Seq(Keys), NEW p \in Seq(Keys)
  PROVE  NextKeys(t, p) = KeysAfter(t, p)
BY NextKeysAppend DEF KeysAfter

LEMMA LabelsAreNodes ==
  ASSUME NEW h, WellFormed(h), NEW v \in Values(h), NEW keys, keys \in {{}, DOMAIN Items(h, v)}
  PROVE  NodeOf(Label(v), keys)
<1>0. v \in Found(h)
  BY DEF Found
<1>1. keys \subseteq Keys /\ (~IsObject(v) => keys = {})
  BY <1>0, ItemsAreValues
<1>2. CASE v.type \notin Containers
  <2>1. v \in Scalars /\ Label(v) = Node(v.type, v.val) /\ ~IsObject(v)
    BY <1>2, ObjectsOfValues DEF Label, IsObject
  <2>2. v.type \in Texts /\ v.val \in Texts /\ v.type \notin SliceTypes
    BY <1>2, <2>1 DEF Texts, Containers
  <2>3. v.type = "nil" => v.val = ""
    BY <2>1, ScalarValues DEF Nil, Scalar
  <2>4. Node(v.type, v.val).type = v.type /\ Node(v.type, v.val).val = v.val
    BY DEF Node
  <2> QED BY <1>1, <1>2, <2>1, <2>2, <2>3, <2>4 DEF NodeOf
<1>3. CASE v.type \in Containers
  <2> DEFINE val == IF IsObject(v) THEN "" ELSE "nil"
  <2>1. Label(v) = Node(v.type, val)
    <3>1. IsObject(v) => v.val = ""
      <4>1. IsObject(v) => v = Ref(h[v.addr].type, v.addr)
        BY ObjectsOfValues
      <4>2. Ref(h[v.addr].type, v.addr).val = ""
        BY RefFields
      <4> QED BY <4>1, <4>2
    <3> QED BY <1>3, <3>1 DEF Label
  <2>2. v.type \in Texts /\ val \in Texts /\ val \in {"", "nil"} /\ v.type # "nil"
    BY <1>3 DEF Texts, Containers, MapTypes, SliceTypes
  <2>3. val = "nil" => keys = {}
    BY <1>1
  <2>4. v.type \in SliceTypes => keys \in Indexes
    <3>1. {} \in Indexes
      BY DEF Indexes
    <3>2. IsObject(v) => Items(h, v) = h[v.addr].items /\ v.addr \in DOMAIN h /\ v.type = h[v.addr].type
      BY <1>0, ItemsAreValues, ObjectsOfValues
    <3>3. IsObject(v) /\ v.type \in SliceTypes => DOMAIN Items(h, v) \in Indexes
      BY <3>2 DEF WellFormed, Packed
    <3> QED BY <1>1, <3>1, <3>3
  <2>5. Node(v.type, val).type = v.type /\ Node(v.type, val).val = val
    BY DEF Node
  <2> HIDE DEF val
  <2> QED BY <1>1, <1>3, <2>1, <2>2, <2>3, <2>4, <2>5 DEF NodeOf
<1> QED BY <1>2, <1>3

LEMMA UnfoldIsTree ==
  ASSUME NEW h, WellFormed(h), NEW v \in Values(h)
  PROVE  IsTree(Unfold(h, v))
<1> DEFINE t == Unfold(h, v)
<1>0. v \in Found(h) /\ Deepest \in Nat
  BY DepthConstants DEF Found, Deepest
<1>1. /\ t = [path \in DOMAIN t |-> t[path]] /\ DOMAIN t = Led(h, v, Deepest)
      /\ \A path \in DOMAIN t : t[path] = Label(ValueAt(h, v, path))
  BY UnfoldFacts
<1> HIDE DEF t
<1>2. \A p \in DOMAIN t : p \in Seq(Keys) /\ Len(p) <= Deepest /\ Leads(h, v, p)
  BY <1>1 DEF Led
<1>3. <<>> \in DOMAIN t
  <2>1. <<>> \in Seq(Keys) /\ Len(<<>>) = 0
    OBVIOUS
  <2> QED BY <1>0, <1>1, <2>1, LeadsOfNothing DEF Led
<1>4. ASSUME NEW p \in Seq(Keys), NEW k \in Keys
      PROVE  Append(p, k) \in DOMAIN t
               <=> /\ Len(p) + 1 <= Deepest /\ p \in DOMAIN t
                   /\ k \in DOMAIN Items(h, ValueAt(h, v, p))
  <2>1. Leads(h, v, Append(p, k)) <=> Leads(h, v, p) /\ k \in DOMAIN Items(h, ValueAt(h, v, p))
    BY <1>0, LeadsOfAppend
  <2>2. Append(p, k) \in Seq(Keys) /\ Len(Append(p, k)) = Len(p) + 1
    BY FrontOfAppend
  <2>3. Len(p) + 1 <= Deepest => Len(p) <= Deepest
    BY <1>0
  <2> QED BY <1>1, <2>1, <2>2, <2>3 DEF Led
<1>5. ASSUME NEW p \in DOMAIN t PROVE NodeOf(t[p], KeysAfter(t, p))
  <2> DEFINE w == ValueAt(h, v, p)
  <2>1. w \in Values(h) /\ t[p] = Label(w)
    BY <1>1, <1>2, LeadsOrMisses
  <2>2. DOMAIN Items(h, w) \subseteq Keys
    BY <2>1, ItemsAreValues DEF Found
  <2>3. KeysAfter(t, p) = IF Len(p) + 1 <= Deepest THEN DOMAIN Items(h, w) ELSE {}
    BY <1>2, <1>4, <2>2 DEF KeysAfter
  <2> HIDE DEF w
  <2> QED BY <2>1, <2>3, LabelsAreNodes
<1>6. IsTree(t)
  BY <1>1, <1>2, <1>3, <1>4, <1>5 DEF IsTree
<1> QED BY <1>6 DEF t

-----------------------------------------------------------------------------
(* What is written of a node begins with its type, and tells where it ends.  *)

Tokens == [what : {"mark", "frame", "length"}, text : Texts, n : Nat]

LEMMA TokensDiffer ==
  /\ \A x \in Texts : Mark(x) \in Tokens /\ Frame(x) \in Tokens
  /\ \A n \in Nat : Length(n) \in Tokens
  /\ \A x, y \in Texts : (Mark(x) = Mark(y) => x = y) /\ (Frame(x) = Frame(y) => x = y) /\ Mark(x) # Frame(y)
  /\ \A n, m \in Nat : Length(n) = Length(m) => n = m
<1>1. "" \in Texts
  BY DEF Texts
<1> QED BY <1>1 DEF Tokens, Mark, Frame, Length

Element(node, w, k) == IF node.type \in MapTypes THEN <<Frame(k)>> \o w[k] ELSE w[k]
Parts(node, keys, w) == [i \in 1..Len(keys) |-> Element(node, w, keys[i])]
FirstToken(node) == IF node.type = "nil" THEN Mark("n") ELSE Frame(node.type)
Body(node, keys, w) == Then(<<Length(Len(keys))>>, FlattenSeq(Parts(node, keys, w)))
LaterTokens(node, keys, w) ==
  IF node.type = "nil" THEN <<>>
  ELSE IF node.type \notin Containers THEN <<Frame(node.val)>>
  ELSE IF node.val = "nil" THEN <<Mark("0")>>
  ELSE Then(<<Mark("1")>>, Body(node, keys, w))

LEMMA SomeTexts ==
  /\ {"", "nil", "n", "0", "1"} \subseteq Texts /\ Keys \subseteq Texts
  /\ "nil" \notin Containers /\ "nil" # ""
BY DEF Texts, Containers, MapTypes, SliceTypes

LEMMA SingleToken ==
  ASSUME NEW x \in Tokens
  PROVE  <<x>> \in Seq(Tokens)
OBVIOUS

LEMMA PartsAreSequences ==
  ASSUME NEW node, NEW K \in SUBSET Keys, NEW w \in [K -> Seq(Tokens)]
  PROVE  /\ Parts(node, Sorted(K), w) \in Seq(Seq(Tokens))
         /\ Len(Parts(node, Sorted(K), w)) = Len(Sorted(K))
         /\ \A i \in 1..Len(Sorted(K)) : /\ Sorted(K)[i] \in K
                                         /\ Parts(node, Sorted(K), w)[i] = Element(node, w, Sorted(K)[i])
<1> DEFINE s == Sorted(K)
<1>1. s \in Seq(K)
  BY SortedFacts
<1> HIDE DEF s
<1>2. Len(s) \in Nat /\ \A i \in 1..Len(s) : s[i] \in K
  BY <1>1
<1>3. ASSUME NEW k \in K PROVE Element(node, w, k) \in Seq(Tokens)
  <2>1. w[k] \in Seq(Tokens) /\ Frame(k) \in Tokens
    BY TokensDiffer, SomeTexts
  <2> QED BY <2>1, SingleToken, ConcatFacts DEF Element
<1>4. \A i \in 1..Len(s) : Element(node, w, s[i]) \in Seq(Tokens)
  BY <1>2, <1>3
<1> DEFINE e == Parts(node, s, w)
<1>5. e = [i \in 1..Len(s) |-> Element(node, w, s[i])]
  BY DEF Parts
<1> HIDE DEF e
<1>6. \A i \in 1..Len(s) : e[i] = Element(node, w, s[i])
  BY <1>5
<1>7. e \in Seq(Seq(Tokens)) /\ Len(e) = Len(s)
  <2>1. e \in [1..Len(s) -> Seq(Tokens)]
    BY <1>4, <1>5
  <2> QED BY <1>2, <2>1
<1> QED BY <1>2, <1>6, <1>7 DEF e, s

LEMMA BodyIsText ==
  ASSUME NEW node, NEW K \in SUBSET Keys, NEW w \in [K -> Seq(Tokens)]
  PROVE  /\ FlattenSeq(Parts(node, Sorted(K), w)) \in Seq(Tokens)
         /\ Length(Len(Sorted(K))) \in Tokens
         /\ Body(node, Sorted(K), w) \in Seq(Tokens)
<1>1. FlattenSeq(Parts(node, Sorted(K), w)) \in Seq(Tokens)
  BY PartsAreSequences, FlattenFacts
<1>2. Len(Sorted(K)) \in Nat
  <2>1. Sorted(K) \in Seq(K)
    BY SortedFacts
  <2> QED BY <2>1
<1>3. Length(Len(Sorted(K))) \in Tokens
  BY <1>2, TokensDiffer
<1> QED BY <1>1, <1>3, SingleToken, ThenIsSeq DEF Body

LEMMA ThenTwice ==
  ASSUME NEW S, NEW a \in Seq(S), NEW b \in Seq(S), NEW c \in Seq(S), NEW f \in Seq(S)
  PROVE  Then(Then(a, Then(b, c)), f) = Then(a, Then(b, Then(c, f)))
<1>1. Then(b, c) \in Seq(S)
  BY ThenIsSeq
<1>2. Then(Then(a, Then(b, c)), f) = Then(a, Then(Then(b, c), f))
  BY <1>1, ThenAssociates
<1>3. Then(Then(b, c), f) = Then(b, Then(c, f))
  BY ThenAssociates
<1> QED BY <1>2, <1>3

LEMMA AfterOne ==
  ASSUME NEW S, NEW x \in S, NEW p \in Seq(S)
  PROVE  /\ Then(<<x>>, p) \in Seq(S) /\ Len(Then(<<x>>, p)) = 1 + Len(p) /\ Then(<<x>>, p)[1] = x
         /\ \A i \in 1..Len(p) : Then(<<x>>, p)[1 + i] = p[i]
<1>1. <<x>> \in Seq(S) /\ Len(<<x>>) = 1 /\ <<x>>[1] = x
  OBVIOUS
<1>2. /\ <<x>> \o p \in Seq(S) /\ Len(<<x>> \o p) = 1 + Len(p) /\ (<<x>> \o p)[1] = x
      /\ \A i \in 1..Len(p) : (<<x>> \o p)[1 + i] = p[i]
  BY <1>1, ConcatFacts
<1> QED BY <1>2 DEF Then

LEMMA ThreeInOne ==
  ASSUME NEW S, NEW x \in S, NEW y \in S, NEW l \in S
  PROVE  <<x, y, l>> = Then(<<x>>, Then(<<y>>, <<l>>))
<1> DEFINE p == Then(<<y>>, <<l>>)
           q == Then(<<x>>, p)
           t == <<x, y, l>>
<1>0. /\ <<y>> \in Seq(S) /\ Len(<<y>>) = 1 /\ <<y>>[1] = y
      /\ <<l>> \in Seq(S) /\ Len(<<l>>) = 1 /\ <<l>>[1] = l
      /\ <<x>> \in Seq(S) /\ Len(<<x>>) = 1 /\ <<x>>[1] = x
  OBVIOUS
<1>1. p \in Seq(S) /\ Len(p) = 2 /\ p[1] = y /\ p[2] = l
  BY <1>0, ConcatFacts DEF Then
<1>7. p \in Seq(S)
  BY <1>1
<1> HIDE DEF p
<1>2. /\ q \in Seq(S) /\ Len(q) = 1 + Len(p) /\ q[1] = x
      /\ \A i \in 1..Len(p) : q[1 + i] = p[i]
  BY <1>7, AfterOne
<1> HIDE DEF q
<1>3. Len(q) = 3 /\ q[1] = x /\ q[2] = y /\ q[3] = l
  <2>1. 1 \in 1..Len(p) /\ 2 \in 1..Len(p) /\ 1 + 1 = 2 /\ 1 + 2 = 3
    BY <1>1
  <2> QED BY <1>1, <1>2, <2>1
<1>4. t \in Seq(S) /\ Len(t) = 3 /\ t[1] = x /\ t[2] = y /\ t[3] = l
  OBVIOUS
<1> HIDE DEF t
<1>5. \A i \in 1..3 : q[i] = t[i]
  <2>1. \A i \in 1..3 : i = 1 \/ i = 2 \/ i = 3
    OBVIOUS
  <2> QED BY <1>3, <1>4, <2>1
<1>6. q = t
  BY <1>2, <1>3, <1>4, <1>5, SameSequence
<1> QED BY <1>6 DEF q, t, p

LEMMA ThreeAndMore ==
  ASSUME NEW x \in Tokens, NEW y \in Tokens, NEW l \in Tokens, NEW f \in Seq(Tokens)
  PROVE  <<x, y, l>> \o f = Then(<<x>>, Then(<<y>>, Then(<<l>>, f)))
<1>1. <<x>> \in Seq(Tokens) /\ <<y>> \in Seq(Tokens) /\ <<l>> \in Seq(Tokens)
  BY SingleToken
<1>2. <<x, y, l>> \o f = Then(<<x, y, l>>, f)
  BY DEF Then
<1>3. <<x, y, l>> = Then(<<x>>, Then(<<y>>, <<l>>))
  BY ThreeInOne
<1>4. Then(Then(<<x>>, Then(<<y>>, <<l>>)), f) = Then(<<x>>, Then(<<y>>, Then(<<l>>, f)))
  <2> DEFINE r == <<x>>
             s == <<y>>
             t == <<l>>
  <2>1. r \in Seq(Tokens) /\ s \in Seq(Tokens) /\ t \in Seq(Tokens)
    BY <1>1
  <2> HIDE DEF r, s, t
  <2>2. Then(Then(r, Then(s, t)), f) = Then(r, Then(s, Then(t, f)))
    BY <2>1, ThenTwice
  <2> QED BY <2>2 DEF r, s, t
<1> QED BY <1>2, <1>3, <1>4

LEMMA WrittenInParts ==
  ASSUME NEW node, NEW K \in SUBSET Keys, NEW w \in [K -> Seq(Tokens)], NodeOf(node, K)
  PROVE  /\ WriteNode(node, Sorted(K), w) = Then(<<FirstToken(node)>>, LaterTokens(node, Sorted(K), w))
         /\ FirstToken(node) \in Tokens /\ LaterTokens(node, Sorted(K), w) \in Seq(Tokens)
         /\ WriteNode(node, Sorted(K), w) \in Seq(Tokens)
<1> DEFINE f == FlattenSeq(Parts(node, Sorted(K), w))
           l == Length(Len(Sorted(K)))
<1>0. f \in Seq(Tokens) /\ l \in Tokens /\ Body(node, Sorted(K), w) \in Seq(Tokens)
      /\ Body(node, Sorted(K), w) = Then(<<l>>, f)
  BY BodyIsText DEF Body
<1>1. FirstToken(node) \in Tokens
  BY TokensDiffer, SomeTexts DEF FirstToken, NodeOf
<1>2. LaterTokens(node, Sorted(K), w) \in Seq(Tokens)
  <2>1. <<>> \in Seq(Tokens)
    OBVIOUS
  <2>2. Frame(node.val) \in Tokens /\ Mark("0") \in Tokens /\ Mark("1") \in Tokens
    BY TokensDiffer, SomeTexts DEF NodeOf
  <2> QED BY <1>0, <2>1, <2>2, SingleToken, ThenIsSeq DEF LaterTokens
<1>3. WriteNode(node, Sorted(K), w) = Then(<<FirstToken(node)>>, LaterTokens(node, Sorted(K), w))
  <2>1. CASE node.type = "nil"
    BY <1>1, <2>1, SingleToken, ConcatNothing DEF WriteNode, FirstToken, LaterTokens, Then
  <2>2. CASE node.type # "nil" /\ node.type \notin Containers
    <3>1. WriteNode(node, Sorted(K), w) = <<Frame(node.type), Frame(node.val)>>
      BY <2>2 DEF WriteNode, CanonicalTypeID
    <3>2. FirstToken(node) = Frame(node.type) /\ LaterTokens(node, Sorted(K), w) = <<Frame(node.val)>>
      BY <2>2 DEF FirstToken, LaterTokens
    <3> QED BY <3>1, <3>2 DEF Then
  <2>3. CASE node.type \in Containers /\ node.val = "nil"
    <3>1. WriteNode(node, Sorted(K), w) = <<Frame(node.type), Mark("0")>>
      BY <2>3, SomeTexts DEF WriteNode, CanonicalTypeID
    <3>2. FirstToken(node) = Frame(node.type) /\ LaterTokens(node, Sorted(K), w) = <<Mark("0")>>
      BY <2>3, SomeTexts DEF FirstToken, LaterTokens
    <3> QED BY <3>1, <3>2 DEF Then
  <2>4. CASE node.type \in Containers /\ node.val # "nil"
    <3>1. WriteNode(node, Sorted(K), w) = <<Frame(node.type), Mark("1"), l>> \o f
      BY <2>4, SomeTexts DEF WriteNode, CanonicalTypeID, Parts, Element
    <3>2. FirstToken(node) = Frame(node.type) /\ LaterTokens(node, Sorted(K), w) = Then(<<Mark("1")>>, Then(<<l>>, f))
      BY <1>0, <2>4, SomeTexts DEF FirstToken, LaterTokens
    <3>4. Mark("1") \in Tokens /\ Frame(node.type) \in Tokens
      BY TokensDiffer, SomeTexts DEF NodeOf
    <3> HIDE DEF f, l
    <3>5. <<Frame(node.type), Mark("1"), l>> \o f
            = Then(<<Frame(node.type)>>, Then(<<Mark("1")>>, Then(<<l>>, f)))
      BY <1>0, <3>4, ThreeAndMore
    <3> QED BY <3>1, <3>2, <3>5, Zenon
  <2> QED BY <2>1, <2>2, <2>3, <2>4
<1> QED BY <1>1, <1>2, <1>3, SingleToken, ThenIsSeq

LEMMA FirstApart ==
  ASSUME NEW S, NEW x \in S, NEW y \in S, NEW a \in Seq(S), NEW b \in Seq(S),
         Then(<<x>>, a) = Then(<<y>>, b)
  PROVE  x = y /\ a = b
<1>1. <<x>> \o a = <<y>> \o b
  BY DEF Then
<1> QED BY <1>1, FirstIsFirst

LEMMA FirstThenRest ==
  ASSUME NEW S, NEW x \in S, NEW y \in S, NEW u \in Seq(S), NEW w \in Seq(S),
         NEW a \in Seq(S), NEW b \in Seq(S), Then(Then(<<x>>, u), a) = Then(Then(<<y>>, w), b)
  PROVE  x = y /\ Then(u, a) = Then(w, b)
<1> DEFINE r == <<x>>
           s == <<y>>
<1>1. r \in Seq(S) /\ s \in Seq(S)
  OBVIOUS
<1> HIDE DEF r, s
<1>2. Then(Then(r, u), a) = Then(r, Then(u, a))
  BY <1>1, ThenAssociates
<1>3. Then(Then(s, w), b) = Then(s, Then(w, b))
  BY <1>1, ThenAssociates
<1>4. Then(u, a) \in Seq(S) /\ Then(w, b) \in Seq(S)
  BY ThenIsSeq
<1> DEFINE c == Then(u, a)
           d == Then(w, b)
<1>5. Then(r, c) = Then(s, d)
  BY <1>2, <1>3 DEF r, s
<1>6. c \in Seq(S) /\ d \in Seq(S)
  BY <1>4
<1> HIDE DEF c, d
<1>7. Then(<<x>>, c) = Then(<<y>>, d)
  BY <1>5 DEF r, s
<1>8. x = y /\ c = d
  BY <1>6, <1>7, FirstApart
<1> QED BY <1>8 DEF c, d

AllApart(K, L, u, w, same) == \A k \in K \cap L : Apart(Tokens, u[k], w[k], {k}, same)

ElementsTell(m, K, L, u, w, same) ==
  \A k \in K, l \in L : (m.type \notin MapTypes => k = l) =>
    \A a, b \in Seq(Tokens) :
      Then(Element(m, u, k), a) = Then(Element(m, w, l), b) => a = b /\ k = l /\ k \in same
BodiesTell(m, K, L, u, w, same) ==
  \A a, b \in Seq(Tokens) :
    Then(Body(m, Sorted(K), u), a) = Then(Body(m, Sorted(L), w), b) => a = b /\ K = L /\ K \subseteq same

LEMMA ElementsApart ==
  ASSUME NEW m, NEW K \in SUBSET Keys, NEW L \in SUBSET Keys,
         NEW u \in [K -> Seq(Tokens)], NEW w \in [L -> Seq(Tokens)], NEW same,
         AllApart(K, L, u, w, same)
  PROVE  ElementsTell(m, K, L, u, w, same)
<1> SUFFICES ASSUME NEW k \in K, NEW l \in L, m.type \notin MapTypes => k = l,
                    NEW a \in Seq(Tokens), NEW b \in Seq(Tokens),
                    Then(Element(m, u, k), a) = Then(Element(m, w, l), b)
             PROVE  a = b /\ k = l /\ k \in same
  BY DEF ElementsTell
<1>0. u[k] \in Seq(Tokens) /\ w[l] \in Seq(Tokens)
  OBVIOUS
<1>1. CASE m.type \in MapTypes
  <2>1. Frame(k) \in Tokens /\ Frame(l) \in Tokens /\ (Frame(k) = Frame(l) => k = l)
    BY TokensDiffer, SomeTexts
  <2>2. Element(m, u, k) = Then(<<Frame(k)>>, u[k]) /\ Element(m, w, l) = Then(<<Frame(l)>>, w[l])
    BY <1>1 DEF Element, Then
  <2>3. Then(Then(<<Frame(k)>>, u[k]), a) = Then(Then(<<Frame(l)>>, w[l]), b)
    BY <2>2
  <2> DEFINE x == Frame(k)
             y == Frame(l)
             v == u[k]
             z == w[l]
  <2>4. x \in Tokens /\ y \in Tokens /\ v \in Seq(Tokens) /\ z \in Seq(Tokens)
        /\ Then(Then(<<x>>, v), a) = Then(Then(<<y>>, z), b)
    BY <1>0, <2>1, <2>3
  <2> HIDE DEF x, y, v, z
  <2>5. x = y /\ Then(v, a) = Then(z, b)
    BY <2>4, FirstThenRest
  <2>6. k = l /\ Then(u[k], a) = Then(w[l], b)
    BY <2>1, <2>5 DEF x, y, v, z
  <2>7. Apart(Tokens, u[k], w[l], {k}, same)
    BY <2>6 DEF AllApart
  <2> QED BY <2>6, <2>7 DEF Apart
<1>2. CASE m.type \notin MapTypes
  <2>1. k = l /\ Then(u[k], a) = Then(w[l], b)
    BY <1>2 DEF Element
  <2>2. Apart(Tokens, u[k], w[l], {k}, same)
    BY <2>1 DEF AllApart
  <2> QED BY <2>1, <2>2 DEF Apart
<1> QED BY <1>1, <1>2

LEMMA BodiesApart ==
  ASSUME NEW m, NEW K \in SUBSET Keys, NEW L \in SUBSET Keys,
         NEW u \in [K -> Seq(Tokens)], NEW w \in [L -> Seq(Tokens)], NEW same,
         AllApart(K, L, u, w, same),
         m.type \notin MapTypes => K \in Indexes /\ L \in Indexes
  PROVE  BodiesTell(m, K, L, u, w, same)
<1> SUFFICES ASSUME NEW a \in Seq(Tokens), NEW b \in Seq(Tokens),
                    Then(Body(m, Sorted(K), u), a) = Then(Body(m, Sorted(L), w), b)
             PROVE  a = b /\ K = L /\ K \subseteq same
  BY DEF BodiesTell
<1> DEFINE p == Sorted(K)
           q == Sorted(L)
           e == Parts(m, p, u)
           d == Parts(m, q, w)
           c == FlattenSeq(e)
           f == FlattenSeq(d)
           x == Length(Len(p))
           y == Length(Len(q))
<1>1. c \in Seq(Tokens) /\ f \in Seq(Tokens) /\ x \in Tokens /\ y \in Tokens
      /\ Then(Then(<<x>>, c), a) = Then(Then(<<y>>, f), b)
  BY BodyIsText DEF Body
<1>2. p \in Seq(K) /\ ToSet(p) = K /\ q \in Seq(L) /\ ToSet(q) = L
  BY SortedFacts
<1>3. /\ e \in Seq(Seq(Tokens)) /\ Len(e) = Len(p)
      /\ \A i \in 1..Len(p) : p[i] \in K /\ e[i] = Element(m, u, p[i])
  BY PartsAreSequences
<1>4. /\ d \in Seq(Seq(Tokens)) /\ Len(d) = Len(q)
      /\ \A i \in 1..Len(q) : q[i] \in L /\ d[i] = Element(m, w, q[i])
  BY PartsAreSequences
<1>5. m.type \notin MapTypes /\ Len(p) = Len(q) => K = L
  BY IndexesByNumber
<1> HIDE DEF c, f, x, y
<1>6. x = y /\ Then(c, a) = Then(f, b)
  BY <1>1, FirstThenRest
<1>7. Len(p) = Len(q)
  <2>1. Len(p) \in Nat /\ Len(q) \in Nat
    BY <1>2
  <2> QED BY <1>6, <2>1, TokensDiffer DEF x, y
<1>8. m.type \notin MapTypes => p = q
  BY <1>5, <1>7
<1> HIDE DEF p, q, e, d
<1>15. ElementsTell(m, K, L, u, w, same)
  BY ElementsApart
<1> DEFINE both == {i \in 1..Len(e) : p[i] = q[i] /\ p[i] \in same}
<1>9. \A i \in 1..Len(e) : Apart(Tokens, e[i], d[i], {i}, both)
  <2> SUFFICES ASSUME NEW i \in 1..Len(e), NEW r \in Seq(Tokens), NEW s \in Seq(Tokens),
                      Then(e[i], r) = Then(d[i], s)
               PROVE  r = s /\ {i} \subseteq both
    BY DEF Apart
  <2>1. p[i] \in K /\ q[i] \in L /\ e[i] = Element(m, u, p[i]) /\ d[i] = Element(m, w, q[i])
    BY <1>3, <1>4, <1>7
  <2>2. m.type \notin MapTypes => p[i] = q[i]
    BY <1>8
  <2>3. Then(Element(m, u, p[i]), r) = Then(Element(m, w, q[i]), s)
    BY <2>1
  <2> DEFINE k == p[i]
             l == q[i]
  <2>5. /\ k \in K /\ l \in L /\ (m.type \notin MapTypes => k = l)
        /\ Then(Element(m, u, k), r) = Then(Element(m, w, l), s)
    BY <2>1, <2>2, <2>3
  <2> HIDE DEF k, l
  <2>6. r = s /\ k = l /\ k \in same
    BY <1>15, <2>5 DEF ElementsTell
  <2>4. r = s /\ p[i] = q[i] /\ p[i] \in same
    BY <2>6 DEF k, l
  <2> QED BY <2>4
<1>10. Apart(Tokens, c, f, 1..Len(e), both)
  <2> HIDE DEF both
  <2> QED BY <1>3, <1>4, <1>7, <1>9, FlatTellsApart DEF c, f
<1>11. a = b /\ 1..Len(e) \subseteq both
  BY <1>6, <1>10 DEF Apart
<1>12. \A i \in 1..Len(p) : p[i] = q[i] /\ p[i] \in same
  BY <1>3, <1>11
<1>13. DOMAIN p = 1..Len(p) /\ DOMAIN q = 1..Len(q)
  BY <1>2
<1>14. K \subseteq L /\ L \subseteq K /\ K \subseteq same
  BY <1>2, <1>7, <1>12, <1>13 DEF ToSet
<1> QED BY <1>11, <1>14

NodesTell(m, n, K, L, u, w, same) ==
  \A a, b \in Seq(Tokens) :
    Then(WriteNode(m, Sorted(K), u), a) = Then(WriteNode(n, Sorted(L), w), b)
      => a = b /\ m = n /\ K = L /\ K \subseteq same

LEMMA NodesApart ==
  ASSUME NEW m, NEW n, NEW K, NEW L, NodeOf(m, K), NodeOf(n, L),
         NEW u \in [K -> Seq(Tokens)], NEW w \in [L -> Seq(Tokens)], NEW same,
         AllApart(K, L, u, w, same)
  PROVE  NodesTell(m, n, K, L, u, w, same)
<1> SUFFICES ASSUME NEW a \in Seq(Tokens), NEW b \in Seq(Tokens),
                    Then(WriteNode(m, Sorted(K), u), a) = Then(WriteNode(n, Sorted(L), w), b)
             PROVE  a = b /\ m = n /\ K = L /\ K \subseteq same
  BY DEF NodesTell
<1> DEFINE p == LaterTokens(m, Sorted(K), u)
           q == LaterTokens(n, Sorted(L), w)
           x == FirstToken(m)
           y == FirstToken(n)
<1>0. /\ K \subseteq Keys /\ m = Node(m.type, m.val) /\ m.type \in Texts /\ m.val \in Texts
      /\ L \subseteq Keys /\ n = Node(n.type, n.val) /\ n.type \in Texts /\ n.val \in Texts
  BY DEF NodeOf
<1>1. /\ p \in Seq(Tokens) /\ q \in Seq(Tokens) /\ x \in Tokens /\ y \in Tokens
      /\ Then(Then(<<x>>, p), a) = Then(Then(<<y>>, q), b)
  BY <1>0, WrittenInParts
<1> HIDE DEF p, q, x, y
<1>2. x = y /\ Then(p, a) = Then(q, b)
  BY <1>1, FirstThenRest
<1>3. m.type = n.type
  BY <1>0, <1>2, TokensDiffer, SomeTexts DEF x, y, FirstToken
<1>4. CASE m.type = "nil"
  <2>1. p = <<>> /\ q = <<>>
    BY <1>3, <1>4 DEF p, q, LaterTokens
  <2>2. a = b
    BY <1>2, <2>1, ConcatNothing DEF Then
  <2>3. m.val = n.val /\ K = {} /\ L = {}
    BY <1>3, <1>4, SomeTexts DEF NodeOf
  <2> QED BY <1>0, <1>3, <2>2, <2>3
<1>5. CASE m.type # "nil" /\ m.type \notin Containers
  <2> DEFINE r == Frame(m.val)
             s == Frame(n.val)
  <2>1. p = <<r>> /\ q = <<s>> /\ r \in Tokens /\ s \in Tokens
    BY <1>0, <1>3, <1>5, TokensDiffer DEF p, q, LaterTokens
  <2>2. <<r>> \o a = <<s>> \o b
    BY <1>2, <2>1 DEF Then
  <2> HIDE DEF r, s
  <2>3. r = s /\ a = b
    BY <2>1, <2>2, FirstIsFirst
  <2>4. m.val = n.val /\ K = {} /\ L = {}
    BY <1>0, <1>3, <1>5, <2>3, TokensDiffer DEF NodeOf, r, s
  <2> QED BY <1>0, <1>3, <2>3, <2>4
<1>6. CASE m.type \in Containers
  <2> DEFINE c == Body(m, Sorted(K), u)
             d == Body(n, Sorted(L), w)
             r == IF m.val = "nil" THEN Mark("0") ELSE Mark("1")
             s == IF n.val = "nil" THEN Mark("0") ELSE Mark("1")
             e == IF m.val = "nil" THEN <<>> ELSE c
             f == IF n.val = "nil" THEN <<>> ELSE d
  <2>1. c \in Seq(Tokens) /\ d \in Seq(Tokens)
    BY <1>0, BodyIsText
  <2>2. r \in Tokens /\ s \in Tokens /\ (r = s => (m.val = "nil" <=> n.val = "nil"))
    BY TokensDiffer, SomeTexts
  <2>3. e \in Seq(Tokens) /\ f \in Seq(Tokens)
    BY <2>1
  <2>4. p = Then(<<r>>, e) /\ q = Then(<<s>>, f)
    <3>1. <<Mark("0")>> = Then(<<Mark("0")>>, <<>>)
      BY SomeTexts, TokensDiffer, SingleToken, ConcatNothing DEF Then
    <3>2. m.type # "nil" /\ n.type # "nil" /\ n.type \in Containers
      BY <1>3, <1>6, SomeTexts
    <3> HIDE DEF c, d
    <3>3. p = IF m.val = "nil" THEN <<Mark("0")>> ELSE Then(<<Mark("1")>>, c)
      BY <1>6, <3>2 DEF p, c, LaterTokens
    <3>4. q = IF n.val = "nil" THEN <<Mark("0")>> ELSE Then(<<Mark("1")>>, d)
      BY <3>2 DEF q, d, LaterTokens
    <3>5. p = Then(<<r>>, e)
      BY <3>1, <3>3
    <3>6. q = Then(<<s>>, f)
      BY <3>1, <3>4
    <3> QED BY <3>5, <3>6
  <2> HIDE DEF r, s, e, f
  <2>5. r = s /\ Then(e, a) = Then(f, b)
    BY <1>2, <2>2, <2>3, <2>4, FirstThenRest
  <2>6. m.val = n.val
    <3>1. m.val \in {"", "nil"} /\ n.val \in {"", "nil"}
      BY <1>3, <1>6 DEF NodeOf
    <3>2. m.val = "nil" <=> n.val = "nil"
      BY <2>2, <2>5
    <3>3. CASE m.val = "nil"
      BY <3>2, <3>3
    <3>4. CASE m.val # "nil"
      <4>1. m.val = "" /\ n.val = ""
        BY <3>1, <3>2, <3>4
      <4> QED BY <4>1
    <3> QED BY <3>3, <3>4
  <2>7. m = n
    BY <1>0, <1>3, <2>6
  <2>8. CASE m.val = "nil"
    <3>1. e = <<>> /\ f = <<>>
      BY <2>6, <2>8 DEF e, f
    <3>2. a = b
      BY <2>5, <3>1, ConcatNothing DEF Then
    <3>3. K = {} /\ L = {}
      BY <1>3, <1>6, <2>6, <2>8 DEF NodeOf
    <3> QED BY <2>7, <3>2, <3>3
  <2>9. CASE m.val # "nil"
    <3>1. e = c /\ f = d
      BY <2>6, <2>9 DEF e, f
    <3>2. Then(Body(m, Sorted(K), u), a) = Then(Body(m, Sorted(L), w), b)
      BY <2>5, <2>7, <3>1
    <3>3. m.type \notin MapTypes => K \in Indexes /\ L \in Indexes
      BY <1>3, <1>6 DEF NodeOf, Containers
    <3>5. K \in SUBSET Keys /\ L \in SUBSET Keys
      BY <1>0
    <3>4. a = b /\ K = L /\ K \subseteq same
      <4>1. BodiesTell(m, K, L, u, w, same)
        BY <3>3, <3>5, BodiesApart
      <4> QED BY <3>2, <4>1 DEF BodiesTell
    <3> QED BY <2>7, <3>4
  <2> QED BY <2>8, <2>9
<1> QED BY <1>4, <1>5, <1>6

-----------------------------------------------------------------------------
(* Recursion on a tree, from the leaves to the root. *)

DeepIn(t, n) == {p \in DOMAIN t : Len(p) + n > Deepest}

LEMMA DeepFacts ==
  ASSUME NEW t, IsTree(t)
  PROVE  /\ Deepest \in Nat /\ DeepIn(t, 0) = {} /\ DeepIn(t, Deepest + 1) = DOMAIN t
         /\ \A n \in Nat : DeepIn(t, n) \subseteq DeepIn(t, n + 1)
         /\ \A n \in Nat : \A p \in DeepIn(t, n + 1) : \A k \in KeysAfter(t, p) : Append(p, k) \in DeepIn(t, n)
<1>1. Deepest \in Nat
  BY DepthConstants DEF Deepest
<1>2. \A p \in DOMAIN t : p \in Seq(Keys) /\ Len(p) \in Nat /\ Len(p) <= Deepest
  <2>1. \A p \in DOMAIN t : p \in Seq(Keys) /\ Len(p) <= Deepest
    BY DEF IsTree
  <2>2. \A p \in Seq(Keys) : Len(p) \in Nat
    OBVIOUS
  <2> QED BY <2>1, <2>2
<1>3. DeepIn(t, 0) = {} /\ DeepIn(t, Deepest + 1) = DOMAIN t
  <2>1. \A p \in DOMAIN t : ~(Len(p) + 0 > Deepest) /\ Len(p) + (Deepest + 1) > Deepest
    BY <1>1, <1>2
  <2> QED BY <2>1 DEF DeepIn
<1>4. ASSUME NEW n \in Nat PROVE DeepIn(t, n) \subseteq DeepIn(t, n + 1)
  BY <1>1, <1>2 DEF DeepIn
<1>5. ASSUME NEW n \in Nat, NEW p \in DeepIn(t, n + 1), NEW k \in KeysAfter(t, p)
      PROVE  Append(p, k) \in DeepIn(t, n)
  <2>1. p \in DOMAIN t /\ Len(p) + (n + 1) > Deepest /\ Append(p, k) \in DOMAIN t /\ k \in Keys
    BY DEF DeepIn, KeysAfter
  <2>2. Len(Append(p, k)) = Len(p) + 1 /\ Len(p) \in Nat
    BY <1>2, <2>1, FrontOfAppend
  <2>3. Len(Append(p, k)) + n > Deepest
    BY <1>1, <2>1, <2>2
  <2> QED BY <2>1, <2>3 DEF DeepIn
<1> QED BY <1>1, <1>3, <1>4, <1>5

LEMMA TreeInduction ==
  ASSUME NEW t, IsTree(t), NEW S,
         \A p \in DOMAIN t : (\A k \in KeysAfter(t, p) : Append(p, k) \in S) => p \in S
  PROVE  DOMAIN t \subseteq S
<1> DEFINE T == {n \in Nat : DeepIn(t, n) \subseteq S}
<1>1. 0 \in T
  BY DeepFacts
<1>2. ASSUME NEW n \in Nat, n \in T PROVE n + 1 \in T
  <2>1. ASSUME NEW p \in DeepIn(t, n + 1) PROVE p \in S
    <3>1. \A k \in KeysAfter(t, p) : Append(p, k) \in S
      BY <1>2, DeepFacts
    <3> QED BY <3>1 DEF DeepIn
  <2> QED BY <2>1
<1>3. Nat \subseteq T
  <2> HIDE DEF T
  <2> QED BY <1>1, <1>2, Induction
<1>4. Deepest + 1 \in T
  BY <1>3, DeepFacts
<1> QED BY <1>4, DeepFacts

LEMMA KeysOfTree ==
  ASSUME NEW t, IsTree(t), NEW p \in DOMAIN t
  PROVE  /\ p \in Seq(Keys) /\ NextKeys(t, p) = KeysAfter(t, p)
         /\ \A k \in KeysAfter(t, p) : k \in Keys /\ Append(p, k) \in DOMAIN t
         /\ NodeOf(t[p], KeysAfter(t, p))
BY NextKeysAreAfter DEF IsTree, KeysAfter

(* The canonical form is defined on every tree. *)
WriteAt(t, w, p) ==
  WriteNode(t[p], Sorted(NextKeys(t, p)), [k \in NextKeys(t, p) |-> w[Append(p, k)]])
WriteEquation(t, w, D) == w = [p \in D |-> WriteAt(t, w, p)]
Canonical(t) == CHOOSE w : WriteEquation(t, w, DOMAIN t)
CanonicalBelow(t, p) == [k \in KeysAfter(t, p) |-> Canonical(t)[Append(p, k)]]

LEMMA WriteIsLocal ==
  ASSUME NEW t, NEW f, NEW g, NEW p, \A k \in NextKeys(t, p) : f[Append(p, k)] = g[Append(p, k)]
  PROVE  WriteAt(t, f, p) = WriteAt(t, g, p)
<1>1. [k \in NextKeys(t, p) |-> f[Append(p, k)]] = [k \in NextKeys(t, p) |-> g[Append(p, k)]]
  OBVIOUS
<1> QED BY <1>1 DEF WriteAt

LEMMA WriteExists ==
  ASSUME NEW t, IsTree(t)
  PROVE  \E w : WriteEquation(t, w, DOMAIN t)
<1> DEFINE S == {n \in Nat : \E w : WriteEquation(t, w, DeepIn(t, n))}
<1>1. 0 \in S
  <2> DEFINE f == [p \in DeepIn(t, 0) |-> WriteAt(t, <<>>, p)]
  <2>1. f = [p \in DeepIn(t, 0) |-> WriteAt(t, f, p)]
    BY DeepFacts
  <2> HIDE DEF f
  <2>2. WriteEquation(t, f, DeepIn(t, 0))
    BY <2>1 DEF WriteEquation
  <2> QED BY <2>2
<1>2. ASSUME NEW n \in Nat, n \in S PROVE n + 1 \in S
  <2>1. PICK f : WriteEquation(t, f, DeepIn(t, n))
    BY <1>2
  <2> DEFINE g == [p \in DeepIn(t, n + 1) |-> WriteAt(t, f, p)]
  <2>2. \A p \in DeepIn(t, n) : g[p] = f[p]
    <3>1. \A p \in DeepIn(t, n) : p \in DeepIn(t, n + 1)
      BY DeepFacts
    <3>2. \A p \in DeepIn(t, n) : f[p] = WriteAt(t, f, p)
      BY <2>1 DEF WriteEquation
    <3> QED BY <3>1, <3>2
  <2>3. ASSUME NEW p \in DeepIn(t, n + 1) PROVE WriteAt(t, f, p) = WriteAt(t, g, p)
    <3>1. ASSUME NEW k \in NextKeys(t, p) PROVE f[Append(p, k)] = g[Append(p, k)]
      <4>1. p \in DOMAIN t
        BY DEF DeepIn
      <4>2. k \in KeysAfter(t, p)
        BY <4>1, KeysOfTree
      <4>3. Append(p, k) \in DeepIn(t, n)
        BY <4>2, DeepFacts
      <4> QED BY <2>2, <4>3
    <3> HIDE DEF g
    <3> QED BY <3>1, WriteIsLocal
  <2>4. WriteEquation(t, g, DeepIn(t, n + 1))
    BY <2>3 DEF WriteEquation
  <2> HIDE DEF g
  <2> QED BY <2>4
<1>3. Nat \subseteq S
  <2> HIDE DEF S
  <2> QED BY <1>1, <1>2, Induction
<1>4. Deepest + 1 \in S
  BY <1>3, DeepFacts
<1> QED BY <1>4, DeepFacts

LEMMA CanonicalFacts ==
  ASSUME NEW t, IsTree(t)
  PROVE  /\ WriteCanonicalValue(t) = Canonical(t)[<<>>]
         /\ \A p \in DOMAIN t :
              /\ Canonical(t)[p] = WriteNode(t[p], Sorted(KeysAfter(t, p)), CanonicalBelow(t, p))
              /\ CanonicalBelow(t, p) \in [KeysAfter(t, p) -> Seq(Tokens)]
              /\ Canonical(t)[p] \in Seq(Tokens)
<1>1. WriteCanonicalValue(t) = Canonical(t)[<<>>]
  BY DEF WriteCanonicalValue, Canonical, WriteEquation, WriteAt
<1>2. ASSUME NEW p \in DOMAIN t
      PROVE  Canonical(t)[p] = WriteNode(t[p], Sorted(KeysAfter(t, p)), CanonicalBelow(t, p))
  <2> DEFINE w == Canonical(t)
  <2>1. WriteEquation(t, w, DOMAIN t)
    BY WriteExists DEF Canonical
  <2> HIDE DEF w
  <2>2. w[p] = WriteAt(t, w, p)
    BY <2>1 DEF WriteEquation
  <2>3. w[p] = WriteNode(t[p], Sorted(KeysAfter(t, p)), [k \in KeysAfter(t, p) |-> w[Append(p, k)]])
    BY <2>2, KeysOfTree DEF WriteAt
  <2> QED BY <2>3 DEF w, CanonicalBelow
<1> DEFINE T == {p \in DOMAIN t : Canonical(t)[p] \in Seq(Tokens)}
<1>3. ASSUME NEW p \in DOMAIN t, \A k \in KeysAfter(t, p) : Append(p, k) \in T
      PROVE  p \in T /\ CanonicalBelow(t, p) \in [KeysAfter(t, p) -> Seq(Tokens)]
  <2> DEFINE K == KeysAfter(t, p)
             w == CanonicalBelow(t, p)
  <2>1. w \in [K -> Seq(Tokens)]
    BY <1>3 DEF CanonicalBelow
  <2>2. NodeOf(t[p], K) /\ K \in SUBSET Keys
    BY KeysOfTree
  <2>3. Canonical(t)[p] = WriteNode(t[p], Sorted(K), w)
    BY <1>2
  <2> HIDE DEF K, w
  <2>4. WriteNode(t[p], Sorted(K), w) \in Seq(Tokens)
    BY <2>1, <2>2, WrittenInParts
  <2> QED BY <2>1, <2>3, <2>4 DEF K, w
<1>4. DOMAIN t \subseteq T
  <2> HIDE DEF T
  <2> QED BY <1>3, TreeInduction
<1>5. \A p \in DOMAIN t : \A k \in KeysAfter(t, p) : Append(p, k) \in T
  BY <1>4, KeysOfTree
<1> QED BY <1>1, <1>2, <1>3, <1>4, <1>5

(* No tree is written as the beginning of what another one is written as. *)
SameCanonical(s, t, p) == {k \in Keys : Canonical(s)[Append(p, k)] = Canonical(t)[Append(p, k)]}
Tells(s, t, p) ==
  \A a, b \in Seq(Tokens) :
    Then(Canonical(s)[p], a) = Then(Canonical(t)[p], b) =>
      /\ a = b /\ Canonical(s)[p] = Canonical(t)[p] /\ s[p] = t[p]
      /\ KeysAfter(s, p) = KeysAfter(t, p) /\ KeysAfter(s, p) \subseteq SameCanonical(s, t, p)

LEMMA NodeTells ==
  ASSUME NEW s, IsTree(s), NEW t, IsTree(t), NEW p \in DOMAIN s, p \in DOMAIN t,
         \A k \in KeysAfter(s, p) \cap KeysAfter(t, p) : Tells(s, t, Append(p, k))
  PROVE  Tells(s, t, p)
<1> DEFINE m == s[p]
           n == t[p]
           K == KeysAfter(s, p)
           L == KeysAfter(t, p)
           u == CanonicalBelow(s, p)
           w == CanonicalBelow(t, p)
           same == SameCanonical(s, t, p)
<1>1. /\ NodeOf(m, K) /\ K \in SUBSET Keys /\ u \in [K -> Seq(Tokens)]
      /\ Canonical(s)[p] = WriteNode(m, Sorted(K), u)
      /\ \A k \in K : u[k] = Canonical(s)[Append(p, k)]
  BY KeysOfTree, CanonicalFacts DEF CanonicalBelow
<1>2. /\ NodeOf(n, L) /\ L \in SUBSET Keys /\ w \in [L -> Seq(Tokens)]
      /\ Canonical(t)[p] = WriteNode(n, Sorted(L), w)
      /\ \A k \in L : w[k] = Canonical(t)[Append(p, k)]
  BY KeysOfTree, CanonicalFacts DEF CanonicalBelow
<1>3. AllApart(K, L, u, w, same)
  <2> SUFFICES ASSUME NEW k \in K \cap L, NEW a \in Seq(Tokens), NEW b \in Seq(Tokens),
                      Then(u[k], a) = Then(w[k], b)
               PROVE  a = b /\ {k} \subseteq same
    BY DEF AllApart, Apart
  <2>1. u[k] = Canonical(s)[Append(p, k)] /\ w[k] = Canonical(t)[Append(p, k)] /\ k \in Keys
    BY <1>1, <1>2
  <2>2. Tells(s, t, Append(p, k))
    OBVIOUS
  <2> HIDE DEF K, L, u, w
  <2> QED BY <2>1, <2>2 DEF Tells, SameCanonical
<1>4. u = [k \in K |-> u[k]] /\ w = [k \in L |-> w[k]]
  BY DEF CanonicalBelow
<1> SUFFICES ASSUME NEW a \in Seq(Tokens), NEW b \in Seq(Tokens),
                    Then(Canonical(s)[p], a) = Then(Canonical(t)[p], b)
             PROVE  a = b /\ m = n /\ K = L /\ K \subseteq same /\ Canonical(s)[p] = Canonical(t)[p]
  BY DEF Tells
<1>5. Then(WriteNode(m, Sorted(K), u), a) = Then(WriteNode(n, Sorted(L), w), b)
  BY <1>1, <1>2
<1> HIDE DEF m, n, K, L, u, w, same
<1>6. a = b /\ m = n /\ K = L /\ K \subseteq same
  <2>1. NodeOf(m, K) /\ NodeOf(n, L) /\ u \in [K -> Seq(Tokens)] /\ w \in [L -> Seq(Tokens)]
    BY <1>1, <1>2
  <2>2. NodesTell(m, n, K, L, u, w, same)
    BY <1>3, <2>1, NodesApart
  <2> QED BY <1>5, <2>2 DEF NodesTell
<1>7. \A k \in K : u[k] = w[k]
  BY <1>1, <1>2, <1>6 DEF same, SameCanonical
<1>8. u = w
  BY <1>4, <1>6, <1>7
<1> QED BY <1>1, <1>2, <1>6, <1>8

LEMMA TreesTell ==
  ASSUME NEW s, IsTree(s), NEW t, IsTree(t)
  PROVE  \A p \in DOMAIN s : p \in DOMAIN t => Tells(s, t, p)
<1> DEFINE T == {p \in DOMAIN s : p \in DOMAIN t => Tells(s, t, p)}
<1>1. ASSUME NEW p \in DOMAIN s, \A k \in KeysAfter(s, p) : Append(p, k) \in T PROVE p \in T
  <2> SUFFICES ASSUME p \in DOMAIN t PROVE Tells(s, t, p)
    OBVIOUS
  <2>1. \A k \in KeysAfter(s, p) \cap KeysAfter(t, p) : Tells(s, t, Append(p, k))
    BY <1>1, KeysOfTree
  <2> QED BY <2>1, NodeTells
<1>2. DOMAIN s \subseteq T
  <2> HIDE DEF T
  <2> QED BY <1>1, TreeInduction
<1> QED BY <1>2

(* The canonical form of a tree tells all of it. *)
LEMMA CanonicalFormTells ==
  ASSUME NEW s, IsTree(s), NEW t, IsTree(t), WriteCanonicalValue(s) = WriteCanonicalValue(t)
  PROVE  s = t
<1> DEFINE G == {p \in Seq(Keys) : /\ p \in DOMAIN s <=> p \in DOMAIN t
                                   /\ p \in DOMAIN s => Canonical(s)[p] = Canonical(t)[p]}
<1>0. <<>> \in Seq(Tokens) /\ <<>> \in Seq(Keys)
  OBVIOUS
<1>1. <<>> \in G
  BY <1>0, CanonicalFacts DEF IsTree
<1>2. ASSUME NEW p \in Seq(Keys), p \in G, p \in DOMAIN s
      PROVE  s[p] = t[p] /\ KeysAfter(s, p) = KeysAfter(t, p) /\ KeysAfter(s, p) \subseteq SameCanonical(s, t, p)
  <2>1. p \in DOMAIN t /\ Canonical(s)[p] = Canonical(t)[p]
    BY <1>2
  <2>2. Tells(s, t, p)
    BY <1>2, <2>1, TreesTell
  <2>3. Then(Canonical(s)[p], <<>>) = Then(Canonical(t)[p], <<>>)
    BY <2>1
  <2> QED BY <1>0, <2>2, <2>3 DEF Tells
<1>3. ASSUME NEW p \in Seq(Keys), p \in G, NEW k \in Keys PROVE Append(p, k) \in G
  <2>1. Append(p, k) \in Seq(Keys)
    OBVIOUS
  <2>2. CASE p \in DOMAIN s
    <3>1. KeysAfter(s, p) = KeysAfter(t, p) /\ KeysAfter(s, p) \subseteq SameCanonical(s, t, p)
      BY <1>2, <1>3, <2>2
    <3> QED BY <2>1, <3>1 DEF KeysAfter, SameCanonical
  <2>3. CASE p \notin DOMAIN s
    <3>1. p \notin DOMAIN t
      BY <1>3, <2>3
    <3>2. Append(p, k) \notin DOMAIN s /\ Append(p, k) \notin DOMAIN t
      BY <2>3, <3>1 DEF IsTree
    <3> QED BY <2>1, <3>2
  <2> QED BY <2>2, <2>3
<1>4. Seq(Keys) \subseteq G
  <2> HIDE DEF G
  <2> QED BY <1>1, <1>3, PathInduction
<1>5. DOMAIN s \subseteq Seq(Keys) /\ DOMAIN t \subseteq Seq(Keys)
  BY DEF IsTree
<1>6. DOMAIN s = DOMAIN t
  BY <1>4, <1>5
<1>7. \A p \in DOMAIN s : s[p] = t[p]
  BY <1>2, <1>4, <1>5
<1>8. s = [p \in DOMAIN s |-> s[p]] /\ t = [p \in DOMAIN t |-> t[p]]
  BY DEF IsTree
<1> QED BY <1>6, <1>7, <1>8

LEMMA CommitmentTells ==
  ASSUME NEW s, IsTree(s), NEW t, IsTree(t), NEW x, NEW y,
         ContextCommitment(s, x) = ContextCommitment(t, y)
  PROVE  x = y /\ s = t
<1> DEFINE a == WriteCanonicalValue(s)
           b == WriteCanonicalValue(t)
           c == Decimal(x)
           d == Decimal(y)
           S == Tokens \cup {c, d}
<1>1. a \in Seq(S) /\ b \in Seq(S)
  <2>1. a \in Seq(Tokens) /\ b \in Seq(Tokens)
    BY CanonicalFacts DEF IsTree
  <2> QED BY <2>1
<1>2. c \in S /\ d \in S /\ (c = d => x = y)
  BY DEF Decimal
<1>3. <<c>> \o a = <<d>> \o b
  BY DEF ContextCommitment
<1> HIDE DEF a, b, c, d, S
<1>4. c = d /\ a = b
  BY <1>1, <1>2, <1>3, FirstIsFirst
<1>5. s = t
  BY <1>4, CanonicalFormTells DEF a, b
<1> QED BY <1>2, <1>4, <1>5

-----------------------------------------------------------------------------
(* Stored forms: trees over the keys of values and the fields of a tag.     *)

Fields == {"$gsas_kind", "$gsas_type", "$gsas_value"}
Names == Keys \cup Fields

LEMMA ConsNames ==
  ASSUME NEW k \in Names, NEW path \in Seq(Names)
  PROVE  /\ <<k>> \o path \in Seq(Names)
         /\ Len(<<k>> \o path) = Len(path) + 1
         /\ <<k>> \o path # <<>>
         /\ (<<k>> \o path)[1] = k
         /\ \A i \in 1..Len(path) : (<<k>> \o path)[i + 1] = path[i]
<1>1. k \in Names /\ path \in Seq(Names)
  OBVIOUS
<1> QED BY <1>1, ConsOfSequence

LEMMA HeadOfNames ==
  ASSUME NEW path \in Seq(Names)
  PROVE  /\ path # <<>> => path = <<Head(path)>> \o Tail(path) /\ Head(path) \in Names /\ Tail(path) \in Seq(Names)
         /\ \A k \in Names : Head(<<k>> \o path) = k /\ Tail(<<k>> \o path) = path
BY HeadOfSequence

LEMMA FrontOfNames ==
  ASSUME NEW p \in Seq(Names), NEW k \in Names
  PROVE  /\ Append(p, k) \in Seq(Names) /\ Append(p, k) # <<>>
         /\ Len(Append(p, k)) = Len(p) + 1 /\ Append(p, k)[Len(p) + 1] = k
         /\ Front(Append(p, k)) = p
BY FrontOfSequence

LEMMA SplitNames ==
  ASSUME NEW path \in Seq(Names), path # <<>>
  PROVE  \E front \in Seq(Names), k \in Names : path = Append(front, k) /\ Front(path) = front
BY SplitSequence

LEMMA AppendToCons ==
  ASSUME NEW k \in Names, NEW p \in Seq(Names), NEW j \in Names
  PROVE  Append(<<k>> \o p, j) = <<k>> \o Append(p, j)
<1> DEFINE a == Append(<<k>> \o p, j)
           b == <<k>> \o Append(p, j)
<1>1. a \in Seq(Names) /\ b \in Seq(Names) /\ Len(a) = Len(p) + 2 /\ Len(b) = Len(p) + 2 /\ Len(p) \in Nat
  OBVIOUS
<1>2. \A i \in 1..(Len(p) + 2) : a[i] = b[i]
  OBVIOUS
<1> HIDE DEF a, b
<1>3. a = b
  BY <1>1, <1>2
<1> QED BY <1>3 DEF a, b

NamesAfter(t, p) == {k \in Names : Append(p, k) \in DOMAIN t}

LEMMA NextNamesAreAfter ==
  ASSUME NEW t, DOMAIN t \subseteq Seq(Names), NEW p \in Seq(Names)
  PROVE  NextKeys(t, p) = NamesAfter(t, p)
BY NextKeysAppend DEF NamesAfter

-----------------------------------------------------------------------------
(* Trees put together of trees. *)

IsForm(t) ==
  /\ t = [p \in DOMAIN t |-> t[p]]
  /\ DOMAIN t \subseteq Seq(Names)
  /\ <<>> \in DOMAIN t

Forms(items) == DOMAIN items \subseteq Names /\ \A k \in DOMAIN items : IsForm(items[k])

LEMMA LeafFacts ==
  ASSUME NEW type, NEW val
  PROVE  /\ IsForm(Leaf(type, val)) /\ DOMAIN Leaf(type, val) = {<<>>}
         /\ Leaf(type, val)[<<>>] = Node(type, val)
         /\ Leaf(type, val)[<<>>].type = type /\ Leaf(type, val)[<<>>].val = val
<1>1. <<>> \in Seq(Names)
  OBVIOUS
<1> QED BY <1>1 DEF Leaf, IsForm, Node

LEMMA TreeFacts ==
  ASSUME NEW type, NEW val, NEW items, Forms(items)
  PROVE  /\ IsForm(Tree(type, val, items))
         /\ Tree(type, val, items)[<<>>] = Node(type, val)
         /\ Tree(type, val, items)[<<>>].type = type /\ Tree(type, val, items)[<<>>].val = val
         /\ \A k \in Names : \A p \in Seq(Names) :
              <<k>> \o p \in DOMAIN Tree(type, val, items) <=> k \in DOMAIN items /\ p \in DOMAIN items[k]
         /\ \A k \in DOMAIN items : \A p \in DOMAIN items[k] :
              Tree(type, val, items)[<<k>> \o p] = items[k][p]
         /\ \A p \in DOMAIN Tree(type, val, items) :
              p # <<>> => /\ Head(p) \in DOMAIN items /\ Tail(p) \in DOMAIN items[Head(p)]
                          /\ p = <<Head(p)>> \o Tail(p)
<1> DEFINE t == Tree(type, val, items)
           K == DOMAIN items
           B(k) == {<<k>> \o p : p \in DOMAIN items[k]}
           D == {<<>>} \cup UNION {B(k) : k \in K}
           F(p) == IF p = <<>> THEN Node(type, val) ELSE items[Head(p)][Tail(p)]
<1>1. t = [p \in D |-> F(p)]
  BY DEF Tree
<1>2. \A k \in K : k \in Names /\ DOMAIN items[k] \subseteq Seq(Names)
  BY DEF Forms, IsForm
<1>3. ASSUME NEW k \in Names, NEW p \in Seq(Names)
      PROVE  (<<k>> \o p \in D <=> k \in K /\ p \in DOMAIN items[k])
  <2> DEFINE q == <<k>> \o p
  <2>1. q # <<>> /\ Head(q) = k /\ Tail(q) = p
    BY ConsNames, HeadOfNames
  <2>2. ASSUME k \in K, p \in DOMAIN items[k] PROVE q \in D
    <3>1. q \in B(k)
      BY <2>2
    <3> HIDE DEF B
    <3> QED BY <2>2, <3>1
  <2>3. ASSUME q \in D PROVE k \in K /\ p \in DOMAIN items[k]
    <3>1. PICK j \in K : q \in B(j)
      <4> HIDE DEF B, q
      <4> QED BY <2>1, <2>3
    <3>2. PICK r \in DOMAIN items[j] : q = <<j>> \o r
      BY <3>1
    <3>3. j \in Names /\ r \in Seq(Names)
      BY <1>2
    <3>4. Head(<<j>> \o r) = j /\ Tail(<<j>> \o r) = r
      BY <3>3, HeadOfNames
    <3>5. k = j /\ p = r
      <4> HIDE DEF q
      <4> QED BY <2>1, <3>2, <3>4
    <3> QED BY <3>5
  <2> HIDE DEF D
  <2> QED BY <2>2, <2>3
<1>4. ASSUME NEW p \in D, p # <<>>
      PROVE  p \in Seq(Names) /\ Head(p) \in K /\ Tail(p) \in DOMAIN items[Head(p)] /\ p = <<Head(p)>> \o Tail(p)
  <2>1. PICK j \in K : p \in B(j)
    <3> HIDE DEF B
    <3> QED BY <1>4
  <2>2. PICK r \in DOMAIN items[j] : p = <<j>> \o r
    BY <2>1
  <2>3. j \in Names /\ r \in Seq(Names)
    BY <1>2
  <2>4. Head(<<j>> \o r) = j /\ Tail(<<j>> \o r) = r /\ <<j>> \o r \in Seq(Names)
    BY <2>3, HeadOfNames, ConsNames
  <2>5. Head(p) = j /\ Tail(p) = r /\ p \in Seq(Names)
    BY <2>2, <2>4
  <2> QED BY <2>2, <2>5
<1>5. <<>> \in D /\ <<>> \in Seq(Names)
  OBVIOUS
<1>6. ASSUME NEW k \in K, NEW p \in DOMAIN items[k] PROVE t[<<k>> \o p] = items[k][p]
  <2> DEFINE q == <<k>> \o p
  <2>1. k \in Names /\ p \in Seq(Names)
    BY <1>2
  <2>2. q # <<>> /\ Head(q) = k /\ Tail(q) = p
    BY <2>1, ConsNames, HeadOfNames
  <2>3. q \in D
    BY <1>3, <2>1
  <2> HIDE DEF q, D
  <2>4. t[q] = F(q)
    BY <1>1, <2>3
  <2>5. F(q) = items[k][p]
    BY <2>2
  <2> QED BY <2>4, <2>5 DEF q
<1> HIDE DEF D
<1>7. DOMAIN t = D /\ t = [p \in DOMAIN t |-> t[p]]
  BY <1>1
<1>8. t[<<>>] = Node(type, val)
  BY <1>1, <1>5
<1>9. Node(type, val).type = type /\ Node(type, val).val = val
  BY DEF Node
<1>10. IsForm(t)
  <2>1. D \subseteq Seq(Names)
    BY <1>4, <1>5
  <2> HIDE DEF t
  <2> QED BY <1>5, <1>7, <2>1 DEF IsForm
<1> HIDE DEF t
<1>11. \A p \in D : p # <<>> => /\ Head(p) \in DOMAIN items /\ Tail(p) \in DOMAIN items[Head(p)]
                                /\ p = <<Head(p)>> \o Tail(p)
  BY <1>4
<1> QED BY <1>3, <1>6, <1>7, <1>8, <1>9, <1>10, <1>11 DEF t

(* A tree tells what it was put together of. *)
FunctionOfForms(items) == Forms(items) /\ items = [k \in DOMAIN items |-> items[k]]

LEMMA TreeTells ==
  ASSUME NEW type, NEW val, NEW items, FunctionOfForms(items),
         NEW kind, NEW word, NEW others, FunctionOfForms(others),
         Tree(type, val, items) = Tree(kind, word, others)
  PROVE  type = kind /\ val = word /\ items = others
<1> DEFINE s == Tree(type, val, items)
           t == Tree(kind, word, others)
<1>0. <<>> \in Seq(Names)
  OBVIOUS
<1>00. /\ Forms(items) /\ items = [k \in DOMAIN items |-> items[k]]
       /\ Forms(others) /\ others = [k \in DOMAIN others |-> others[k]]
  BY DEF FunctionOfForms
<1>1. /\ s[<<>>].type = type /\ s[<<>>].val = val
      /\ \A k \in Names : \A p \in Seq(Names) : <<k>> \o p \in DOMAIN s <=> k \in DOMAIN items /\ p \in DOMAIN items[k]
      /\ \A k \in DOMAIN items : \A p \in DOMAIN items[k] : s[<<k>> \o p] = items[k][p]
  BY <1>00, TreeFacts
<1>2. /\ t[<<>>].type = kind /\ t[<<>>].val = word
      /\ \A k \in Names : \A p \in Seq(Names) : <<k>> \o p \in DOMAIN t <=> k \in DOMAIN others /\ p \in DOMAIN others[k]
      /\ \A k \in DOMAIN others : \A p \in DOMAIN others[k] : t[<<k>> \o p] = others[k][p]
  BY <1>00, TreeFacts
<1>3. s = t
  OBVIOUS
<1> HIDE DEF s, t
<1>4. /\ \A k \in DOMAIN items : k \in Names /\ IsForm(items[k])
      /\ \A k \in DOMAIN others : k \in Names /\ IsForm(others[k])
  BY <1>00 DEF Forms
<1>5. ASSUME NEW k \in DOMAIN items \cup DOMAIN others
      PROVE  k \in DOMAIN items /\ k \in DOMAIN others /\ items[k] = others[k]
  <2>1. k \in Names
    BY <1>4
  <2>2. \A p \in Seq(Names) : (k \in DOMAIN items /\ p \in DOMAIN items[k]) <=> (k \in DOMAIN others /\ p \in DOMAIN others[k])
    BY <1>1, <1>2, <1>3, <2>1
  <2>3. (k \in DOMAIN items => <<>> \in DOMAIN items[k]) /\ (k \in DOMAIN others => <<>> \in DOMAIN others[k])
    BY <1>4 DEF IsForm
  <2>4. k \in DOMAIN items /\ k \in DOMAIN others
    BY <1>0, <2>2, <2>3
  <2>5. DOMAIN items[k] \subseteq Seq(Names) /\ DOMAIN others[k] \subseteq Seq(Names)
    BY <1>4, <2>4 DEF IsForm
  <2>6. DOMAIN items[k] = DOMAIN others[k]
    BY <2>2, <2>4, <2>5
  <2>7. \A p \in DOMAIN items[k] : items[k][p] = others[k][p]
    BY <1>1, <1>2, <1>3, <2>4, <2>6
  <2>8. items[k] = [p \in DOMAIN items[k] |-> items[k][p]] /\ others[k] = [p \in DOMAIN others[k] |-> others[k][p]]
    BY <1>4, <2>4 DEF IsForm
  <2> QED BY <2>4, <2>6, <2>7, <2>8
<1>6. items = others
  BY <1>00, <1>5
<1> QED BY <1>1, <1>2, <1>3, <1>6

-----------------------------------------------------------------------------
(* The copy of a stored form, from the leaves to the root. *)

CloneNode(node, items) ==
  IF node.type \in {"nil", "bool", "string"} THEN Leaf(node.type, node.val)
  ELSE IF node.type \notin {"object", "list"} THEN NoTree
  ELSE IF \E k \in DOMAIN items : items[k] = NoTree THEN NoTree
  ELSE Tree(node.type, "", items)
CloneAt(t, f, p) == CloneNode(t[p], [k \in NextKeys(t, p) |-> f[Append(p, k)]])
StoredEquation(t, f) == f = [p \in DOMAIN t |-> CloneAt(t, f, p)]

(* Its recursion has a solution, and every solution is the form itself. *)
Clonable(t) ==
  /\ \E f : StoredEquation(t, f)
  /\ \A f : StoredEquation(t, f) => f[<<>>] = t

StoredForm(t) == IsForm(t) /\ Clonable(t) /\ t # NoTree

LEMMA ClonablesStay ==
  ASSUME NEW t, Clonable(t)
  PROVE  CloneStored(t) = t
<1> DEFINE f == CHOOSE g : StoredEquation(t, g)
<1>1. CloneStored(t) = f[<<>>]
  BY DEF CloneStored, StoredEquation, CloneAt, CloneNode
<1>2. StoredEquation(t, f)
  BY DEF Clonable
<1> HIDE DEF f
<1> QED BY <1>1, <1>2 DEF Clonable

LEMMA RefusedIsNoForm ==
  ASSUME NEW t, t[<<>>].type # "refused"
  PROVE  t # NoTree
<1>1. NoTree[<<>>].type = "refused"
  BY LeafFacts DEF NoTree
<1> QED BY <1>1

LEMMA CloneOfPlain ==
  ASSUME NEW node, node.type \in {"nil", "bool", "string"}, NEW items
  PROVE  CloneNode(node, items) = Leaf(node.type, node.val)
BY DEF CloneNode

LEMMA LeavesAreStored ==
  ASSUME NEW type \in {"nil", "bool", "string"}, NEW val
  PROVE  StoredForm(Leaf(type, val))
<1> DEFINE t == Leaf(type, val)
<1>1. IsForm(t) /\ DOMAIN t = {<<>>} /\ t[<<>>].type = type /\ t[<<>>].val = val
  BY LeafFacts
<1>2. t # NoTree
  BY <1>1, RefusedIsNoForm
<1> DEFINE c == t
<1>3. ASSUME NEW f PROVE CloneAt(t, f, <<>>) = c
  <2>1. CloneNode(t[<<>>], [k \in NextKeys(t, <<>>) |-> f[Append(<<>>, k)]]) = Leaf(type, val)
    BY <1>1, CloneOfPlain
  <2> QED BY <2>1 DEF CloneAt
<1> HIDE DEF t
<1> DEFINE f == [p \in DOMAIN t |-> c]
<1>4. StoredEquation(t, f)
  BY <1>1, <1>3 DEF StoredEquation
<1>5. \A g : StoredEquation(t, g) => g[<<>>] = t
  BY <1>1, <1>3 DEF StoredEquation
<1> QED BY <1>1, <1>2, <1>4, <1>5 DEF StoredForm, Clonable, t

LEMMA NamesBelow ==
  ASSUME NEW type, NEW val, NEW items, Forms(items), NEW k \in DOMAIN items, NEW q \in DOMAIN items[k]
  PROVE  /\ Tree(type, val, items)[<<k>> \o q] = items[k][q]
         /\ NextKeys(Tree(type, val, items), <<k>> \o q) = NextKeys(items[k], q)
         /\ \A j \in NextKeys(items[k], q) :
              Append(q, j) \in DOMAIN items[k] /\ Append(<<k>> \o q, j) = <<k>> \o Append(q, j)
<1> DEFINE t == Tree(type, val, items)
           p == <<k>> \o q
<1>1. k \in Names /\ IsForm(items[k]) /\ q \in Seq(Names) /\ DOMAIN items[k] \subseteq Seq(Names)
  BY DEF Forms, IsForm
<1>2. /\ IsForm(t) /\ t[p] = items[k][q]
      /\ \A j \in Names : \A r \in Seq(Names) : <<j>> \o r \in DOMAIN t <=> j \in DOMAIN items /\ r \in DOMAIN items[j]
  BY TreeFacts
<1>3. p \in Seq(Names)
  BY <1>1, ConsNames
<1>4. \A j \in Names : Append(p, j) = <<k>> \o Append(q, j)
  BY <1>1, AppendToCons
<1>5. \A j \in Names : Append(q, j) \in Seq(Names)
  BY <1>1, FrontOfNames
<1> HIDE DEF t, p
<1>6. NextKeys(t, p) = NamesAfter(t, p)
  BY <1>2, <1>3, NextNamesAreAfter DEF IsForm
<1>7. NextKeys(items[k], q) = NamesAfter(items[k], q)
  BY <1>1, NextNamesAreAfter
<1>8. \A j \in Names : Append(p, j) \in DOMAIN t <=> Append(q, j) \in DOMAIN items[k]
  BY <1>1, <1>2, <1>4, <1>5
<1>9. NamesAfter(t, p) = NamesAfter(items[k], q)
  BY <1>8 DEF NamesAfter
<1>10. ASSUME NEW j \in NextKeys(items[k], q)
       PROVE  Append(q, j) \in DOMAIN items[k] /\ Append(p, j) = <<k>> \o Append(q, j)
  <2>1. j \in Names /\ Append(q, j) \in DOMAIN items[k]
    BY <1>7 DEF NamesAfter
  <2> QED BY <1>4, <2>1
<1> QED BY <1>2, <1>6, <1>7, <1>9, <1>10 DEF t, p

Agree(t, k, f, g) == \A r \in DOMAIN t : f[<<k>> \o r] = g[r]

LEMMA CloneBelow ==
  ASSUME NEW type, NEW val, NEW items, Forms(items), NEW k \in DOMAIN items, NEW q \in DOMAIN items[k],
         NEW f, NEW g, Agree(items[k], k, f, g)
  PROVE  CloneAt(Tree(type, val, items), f, <<k>> \o q) = CloneAt(items[k], g, q)
<1> DEFINE t == Tree(type, val, items)
           p == <<k>> \o q
           N == NextKeys(items[k], q)
<1>1. t[p] = items[k][q] /\ NextKeys(t, p) = N
  BY NamesBelow
<1>2. ASSUME NEW j \in N PROVE f[Append(p, j)] = g[Append(q, j)]
  <2>1. Append(q, j) \in DOMAIN items[k] /\ Append(p, j) = <<k>> \o Append(q, j)
    BY NamesBelow
  <2> HIDE DEF p
  <2> QED BY <2>1 DEF Agree
<1> HIDE DEF t, p, N
<1>3. [j \in N |-> f[Append(p, j)]] = [j \in N |-> g[Append(q, j)]]
  BY <1>2
<1>4. CloneAt(t, f, p) = CloneNode(items[k][q], [j \in N |-> g[Append(q, j)]])
  BY <1>1, <1>3 DEF CloneAt
<1>5. CloneAt(items[k], g, q) = CloneNode(items[k][q], [j \in N |-> g[Append(q, j)]])
  BY DEF CloneAt, N
<1> QED BY <1>4, <1>5 DEF t, p

LEMMA CloneOfContainer ==
  ASSUME NEW type \in {"object", "list"}, NEW node, node.type = type,
         NEW items, \A k \in DOMAIN items : items[k] # NoTree
  PROVE  CloneNode(node, items) = Tree(type, "", items)
BY DEF CloneNode

LEMMA RootKeys ==
  ASSUME NEW type, NEW val, NEW items, Forms(items)
  PROVE  /\ NextKeys(Tree(type, val, items), <<>>) = DOMAIN items
         /\ \A k \in DOMAIN items : Append(<<>>, k) = <<k>> \o <<>>
<1> DEFINE t == Tree(type, val, items)
<1>0. <<>> \in Seq(Names) /\ \A k \in Names : Append(<<>>, k) = <<k>> \o <<>>
  OBVIOUS
<1>1. /\ IsForm(t)
      /\ \A k \in Names : \A r \in Seq(Names) : <<k>> \o r \in DOMAIN t <=> k \in DOMAIN items /\ r \in DOMAIN items[k]
  BY TreeFacts
<1> HIDE DEF t
<1>2. \A k \in DOMAIN items : k \in Names /\ <<>> \in DOMAIN items[k]
  BY DEF Forms, IsForm
<1>3. NextKeys(t, <<>>) = NamesAfter(t, <<>>)
  BY <1>0, <1>1, NextNamesAreAfter DEF IsForm
<1>4. \A k \in Names : Append(<<>>, k) \in DOMAIN t <=> k \in DOMAIN items
  BY <1>0, <1>1, <1>2
<1>5. NamesAfter(t, <<>>) = DOMAIN items
  BY <1>2, <1>4 DEF NamesAfter
<1> QED BY <1>0, <1>2, <1>3, <1>5 DEF t

LEMMA TreesAreStored ==
  ASSUME NEW type \in {"object", "list"}, NEW items, items = [k \in DOMAIN items |-> items[k]],
         DOMAIN items \subseteq Names, \A k \in DOMAIN items : StoredForm(items[k])
  PROVE  StoredForm(Tree(type, "", items))
<1> DEFINE none == ""
           t == Tree(type, none, items)
           K == DOMAIN items
<1>00. Tree(type, "", items) = t
  OBVIOUS
<1> HIDE DEF none
<1>0. Forms(items) /\ \A k \in K : items[k] # NoTree
  BY DEF Forms, StoredForm
<1>1. /\ IsForm(t) /\ t[<<>>].type = type
      /\ \A k \in K : \A p \in DOMAIN items[k] : t[<<k>> \o p] = items[k][p]
      /\ \A k \in Names : \A p \in Seq(Names) :
           <<k>> \o p \in DOMAIN t <=> k \in K /\ p \in DOMAIN items[k]
      /\ \A p \in DOMAIN t :
           p # <<>> => Head(p) \in K /\ Tail(p) \in DOMAIN items[Head(p)] /\ p = <<Head(p)>> \o Tail(p)
  <2>1. /\ IsForm(t) /\ t[<<>>].type = type
        /\ \A k \in DOMAIN items : \A p \in DOMAIN items[k] : t[<<k>> \o p] = items[k][p]
    BY <1>0, TreeFacts
  <2>2. \A k \in Names : \A p \in Seq(Names) :
          <<k>> \o p \in DOMAIN t <=> k \in DOMAIN items /\ p \in DOMAIN items[k]
    BY <1>0, TreeFacts
  <2>3. ASSUME NEW p \in DOMAIN t, p # <<>>
        PROVE  Head(p) \in DOMAIN items /\ Tail(p) \in DOMAIN items[Head(p)] /\ p = <<Head(p)>> \o Tail(p)
    <3>1. Forms(items)
      BY <1>0
    <3> QED BY <2>3, <3>1, TreeFacts
  <2> QED BY <2>1, <2>2, <2>3
<1>2. t # NoTree
  BY <1>1, RefusedIsNoForm
<1>3. NextKeys(t, <<>>) = K /\ \A k \in K : Append(<<>>, k) = <<k>> \o <<>>
  BY <1>0, RootKeys
<1>4. \A k \in K : k \in Names /\ DOMAIN items[k] \subseteq Seq(Names) /\ <<>> \in DOMAIN items[k]
  BY <1>0 DEF Forms, IsForm
<1>5. ASSUME NEW f, \A k \in K : f[<<k>> \o <<>>] = items[k]
      PROVE  CloneAt(t, f, <<>>) = t
  <2> DEFINE g == [k \in NextKeys(t, <<>>) |-> f[Append(<<>>, k)]]
  <2>1. g = [k \in K |-> f[Append(<<>>, k)]]
    BY <1>3
  <2>2. \A k \in K : f[Append(<<>>, k)] = items[k]
    BY <1>3, <1>5
  <2>3. g = items
    BY <2>1, <2>2
  <2>4. CloneNode(t[<<>>], items) = t
    <3> DEFINE node == t[<<>>]
    <3>1. node.type = type
      BY <1>1
    <3> HIDE DEF node
    <3>2. CloneNode(node, items) = Tree(type, "", items)
      BY <1>0, <3>1, CloneOfContainer
    <3> QED BY <1>00, <3>2 DEF node
  <2> HIDE DEF g, t
  <2>5. CloneAt(t, f, <<>>) = CloneNode(t[<<>>], items)
    BY <2>3 DEF CloneAt, g
  <2> QED BY <2>4, <2>5
<1>6. ASSUME NEW f, StoredEquation(t, f) PROVE f[<<>>] = t
  <2>1. ASSUME NEW k \in K PROVE f[<<k>> \o <<>>] = items[k]
    <3> DEFINE g == [p \in DOMAIN items[k] |-> f[<<k>> \o p]]
    <3>1. \A p \in DOMAIN items[k] : f[<<k>> \o p] = g[p]
      OBVIOUS
    <3> HIDE DEF g
    <3>0. Agree(items[k], k, f, g)
      BY <3>1 DEF Agree
    <3>2. ASSUME NEW p \in DOMAIN items[k] PROVE f[<<k>> \o p] = CloneAt(items[k], g, p)
      <4>1. CloneAt(t, f, <<k>> \o p) = CloneAt(items[k], g, p)
        BY <1>0, <3>0, CloneBelow
      <4>2. <<k>> \o p \in DOMAIN t
        BY <1>1, <1>4
      <4> HIDE DEF t
      <4>3. f[<<k>> \o p] = CloneAt(t, f, <<k>> \o p)
        BY <1>6, <4>2 DEF StoredEquation
      <4> QED BY <4>1, <4>3
    <3>3. StoredEquation(items[k], g)
      BY <3>2 DEF StoredEquation, g
    <3>4. g[<<>>] = items[k]
      BY <3>3 DEF StoredForm, Clonable
    <3> QED BY <1>4, <3>1, <3>4
  <2>2. CloneAt(t, f, <<>>) = t
    BY <1>5, <2>1
  <2>3. <<>> \in DOMAIN t
    BY <1>1 DEF IsForm
  <2> HIDE DEF t
  <2> QED BY <1>6, <2>2, <2>3 DEF StoredEquation
<1>7. \E f : StoredEquation(t, f)
  <2> DEFINE G(k) == CHOOSE g : StoredEquation(items[k], g)
             f == [p \in DOMAIN t |-> IF p = <<>> THEN t ELSE G(Head(p))[Tail(p)]]
  <2>1. ASSUME NEW k \in K PROVE StoredEquation(items[k], G(k)) /\ G(k)[<<>>] = items[k]
    <3>1. \E g : StoredEquation(items[k], g)
      BY DEF StoredForm, Clonable
    <3>2. StoredEquation(items[k], G(k))
      BY <3>1
    <3> HIDE DEF G
    <3> QED BY <3>2 DEF StoredForm, Clonable
  <2> HIDE DEF G
  <2>2. ASSUME NEW k \in K, NEW p \in DOMAIN items[k] PROVE f[<<k>> \o p] = G(k)[p]
    <3> DEFINE q == <<k>> \o p
    <3>1. k \in Names /\ p \in Seq(Names) /\ q \in DOMAIN t
      BY <1>1, <1>4
    <3>2. q # <<>> /\ Head(q) = k /\ Tail(q) = p
      BY <3>1, ConsNames, HeadOfNames
    <3> HIDE DEF q, t
    <3> QED BY <3>1, <3>2 DEF q
  <2>3. \A k \in K : f[<<k>> \o <<>>] = items[k]
    BY <1>4, <2>1, <2>2
  <2>4. f = [p \in DOMAIN t |-> f[p]] /\ f[<<>>] = t
    <3>1. <<>> \in DOMAIN t
      BY <1>1 DEF IsForm
    <3> HIDE DEF t
    <3> QED BY <3>1
  <2> HIDE DEF f
  <2>5. ASSUME NEW p \in DOMAIN t PROVE f[p] = CloneAt(t, f, p)
    <3>1. CASE p = <<>>
      <4>1. CloneAt(t, f, <<>>) = t
        BY <1>5, <2>3
      <4> HIDE DEF t
      <4> QED BY <2>4, <3>1, <4>1
    <3>2. CASE p # <<>>
      <4>1. PICK k \in K, q \in Seq(Names) : q \in DOMAIN items[k] /\ p = <<k>> \o q
        BY <1>1, <1>4, <3>2
      <4>2. \A r \in DOMAIN items[k] : f[<<k>> \o r] = G(k)[r]
        BY <2>2
      <4> DEFINE g == G(k)
      <4>3. \A r \in DOMAIN items[k] : f[<<k>> \o r] = g[r]
        BY <4>2
      <4>4. StoredEquation(items[k], g)
        BY <2>1
      <4> HIDE DEF g
      <4>0. Agree(items[k], k, f, g)
        BY <4>3 DEF Agree
      <4>5. CloneAt(t, f, <<k>> \o q) = CloneAt(items[k], g, q)
        BY <1>0, <4>0, <4>1, CloneBelow
      <4>6. g[q] = CloneAt(items[k], g, q)
        BY <4>1, <4>4 DEF StoredEquation
      <4> HIDE DEF t
      <4> QED BY <4>1, <4>3, <4>5, <4>6
    <3> QED BY <3>1, <3>2
  <2>6. StoredEquation(t, f)
    <3> HIDE DEF t
    <3> QED BY <2>4, <2>5 DEF StoredEquation
  <2> QED BY <2>6
<1> HIDE DEF t
<1>8. Clonable(t)
  BY <1>6, <1>7 DEF Clonable
<1>9. StoredForm(t)
  BY <1>1, <1>2, <1>8 DEF StoredForm
<1> QED BY <1>00, <1>9

-----------------------------------------------------------------------------
(* What a node is encoded as, given what its elements are. *)

LEMMA LeafTells ==
  ASSUME NEW a, NEW b, NEW c, NEW d, Leaf(a, b) = Leaf(c, d)
  PROVE  a = c /\ b = d
<1>1. Leaf(a, b)[<<>>].type = a /\ Leaf(a, b)[<<>>].val = b
  BY LeafFacts
<1>2. Leaf(c, d)[<<>>].type = c /\ Leaf(c, d)[<<>>].val = d
  BY LeafFacts
<1> QED BY <1>1, <1>2

TagFields(kind, type, value) ==
  [field \in Fields |->
     IF field = "$gsas_kind" THEN Leaf("string", kind)
     ELSE IF field = "$gsas_type" THEN Leaf("string", type)
     ELSE value]

Tagging(fields, type, value) ==
  /\ fields = [k \in DOMAIN fields |-> fields[k]] /\ DOMAIN fields \subseteq Names
  /\ \A k \in DOMAIN fields : StoredForm(fields[k])
  /\ Forms(fields)
  /\ fields["$gsas_type"] = Leaf("string", type) /\ fields["$gsas_value"] = value

LEMMA TagFacts ==
  ASSUME NEW kind, NEW type, NEW value, StoredForm(value)
  PROVE  /\ TaggedValue(kind, type, value) = Tree("object", "", TagFields(kind, type, value))
         /\ Tagging(TagFields(kind, type, value), type, value)
<1> DEFINE g == TagFields(kind, type, value)
<1>1. TaggedValue(kind, type, value) = Tree("object", "", g)
  BY DEF TaggedValue, TagFields, Fields, CanonicalTypeID
<1>2. g = [k \in DOMAIN g |-> g[k]] /\ DOMAIN g = Fields
  BY DEF TagFields
<1>3. Fields \subseteq Names
  BY DEF Names
<1>4. StoredForm(Leaf("string", kind)) /\ StoredForm(Leaf("string", type))
  BY LeavesAreStored
<1>5. /\ g["$gsas_kind"] = Leaf("string", kind) /\ g["$gsas_type"] = Leaf("string", type)
      /\ g["$gsas_value"] = value
  BY DEF TagFields, Fields
<1> HIDE DEF g
<1>6. \A k \in Fields : StoredForm(g[k])
  BY <1>4, <1>5 DEF Fields
<1>7. Forms(g)
  BY <1>2, <1>3, <1>6 DEF Forms, StoredForm
<1>8. Tagging(g, type, value)
  BY <1>2, <1>3, <1>5, <1>6, <1>7 DEF Tagging
<1> QED BY <1>1, <1>8 DEF g

LEMMA TagsAreStored ==
  ASSUME NEW kind, NEW type, NEW value, StoredForm(value)
  PROVE  StoredForm(TaggedValue(kind, type, value)) /\ TaggedValue(kind, type, value)[<<>>].type = "object"
<1> DEFINE g == TagFields(kind, type, value)
           none == ""
           object == "object"
<1>0. TaggedValue(kind, type, value) = Tree(object, none, g) /\ Tagging(g, type, value)
  BY TagFacts
<1> HIDE DEF g
<1>1. /\ g = [k \in DOMAIN g |-> g[k]] /\ DOMAIN g \subseteq Names /\ Forms(g)
      /\ \A k \in DOMAIN g : StoredForm(g[k])
  BY <1>0 DEF Tagging
<1>3. object \in {"object", "list"}
  OBVIOUS
<1>4. StoredForm(Tree(object, "", g))
  <2> HIDE DEF object
  <2> QED BY <1>1, <1>3, TreesAreStored
<1>5. Tree(object, none, g)[<<>>].type = object
  <2> HIDE DEF none, object
  <2> QED BY <1>1, TreeFacts
<1> QED BY <1>0, <1>4, <1>5

LEMMA TagTells ==
  ASSUME NEW kind, NEW type, NEW value, StoredForm(value),
         NEW sort, NEW name, NEW other, StoredForm(other),
         TaggedValue(kind, type, value) = TaggedValue(sort, name, other)
  PROVE  type = name /\ value = other
<1> DEFINE f == TagFields(kind, type, value)
           g == TagFields(sort, name, other)
           none == ""
           object == "object"
<1>0. /\ TaggedValue(kind, type, value) = Tree(object, none, f) /\ Tagging(f, type, value)
      /\ TaggedValue(sort, name, other) = Tree(object, none, g) /\ Tagging(g, name, other)
  BY TagFacts
<1> HIDE DEF f, g, none, object
<1>1. /\ f = [k \in DOMAIN f |-> f[k]] /\ Forms(f)
      /\ f["$gsas_type"] = Leaf("string", type) /\ f["$gsas_value"] = value
  BY <1>0 DEF Tagging
<1>2. /\ g = [k \in DOMAIN g |-> g[k]] /\ Forms(g)
      /\ g["$gsas_type"] = Leaf("string", name) /\ g["$gsas_value"] = other
  BY <1>0 DEF Tagging
<1>3. Tree(object, none, f) = Tree(object, none, g)
  BY <1>0
<1>4. f = g
  <2>1. FunctionOfForms(f) /\ FunctionOfForms(g)
    BY <1>1, <1>2 DEF FunctionOfForms
  <2> QED BY <1>3, <2>1, TreeTells
<1>5. type = name
  BY <1>1, <1>2, <1>4, LeafTells
<1> QED BY <1>1, <1>2, <1>4, <1>5

Plain(node) == node.type \in {"nil", "bool", "string"}
ValuePart(node, items) ==
  IF node.type \notin Containers THEN Leaf("string", node.val)
  ELSE IF node.val = "nil" THEN Leaf("nil", "")
  ELSE Tree(PlainType(node.type), "", items)

(* What the encodings of elements are. *)
Encodings(items, K) ==
  /\ items = [k \in K |-> items[k]] /\ K \subseteq Keys
  /\ \A k \in K : items[k] = NoTree \/ StoredForm(items[k])

LEMMA PlainTypes ==
  ASSUME NEW type
  PROVE  PlainType(type) \in {"object", "list"}
BY DEF PlainType

LEMMA EncodedInParts ==
  ASSUME NEW node, NEW K, NEW items, Encodings(items, K), EncodeProofValue(node, items) # NoTree
  PROVE  /\ Plain(node) => EncodeProofValue(node, items) = Leaf(node.type, node.val)
         /\ ~Plain(node) => /\ EncodeProofValue(node, items) = TaggedValue(KindOf(node.type), node.type, ValuePart(node, items))
                            /\ StoredForm(ValuePart(node, items))
                            /\ node.type \in Containers /\ node.val # "nil" => \A k \in K : StoredForm(items[k])
<1>1. Plain(node) => EncodeProofValue(node, items) = Leaf(node.type, node.val)
  BY DEF EncodeProofValue, Plain
<1>2. ASSUME ~Plain(node), node.type \notin Containers
      PROVE  /\ EncodeProofValue(node, items) = TaggedValue(KindOf(node.type), node.type, ValuePart(node, items))
             /\ StoredForm(ValuePart(node, items))
  <2>1. ValuePart(node, items) = Leaf("string", node.val)
    BY <1>2 DEF ValuePart
  <2>2. StoredForm(Leaf("string", node.val))
    BY LeavesAreStored
  <2>3. EncodeProofValue(node, items) = TaggedValue(KindOf(node.type), node.type, Leaf("string", node.val))
    BY <1>2 DEF EncodeProofValue, Plain
  <2> QED BY <2>1, <2>2, <2>3
<1>3. ASSUME ~Plain(node), node.type \in Containers, node.val = "nil"
      PROVE  /\ EncodeProofValue(node, items) = TaggedValue(KindOf(node.type), node.type, ValuePart(node, items))
             /\ StoredForm(ValuePart(node, items))
  <2>1. ValuePart(node, items) = Leaf("nil", "")
    BY <1>3 DEF ValuePart
  <2>2. StoredForm(Leaf("nil", ""))
    BY LeavesAreStored
  <2>3. EncodeProofValue(node, items) = TaggedValue(KindOf(node.type), node.type, Leaf("nil", ""))
    BY <1>3 DEF EncodeProofValue, Plain
  <2> QED BY <2>1, <2>2, <2>3
<1>4. ASSUME ~Plain(node), node.type \in Containers, node.val # "nil"
      PROVE  /\ EncodeProofValue(node, items) = TaggedValue(KindOf(node.type), node.type, ValuePart(node, items))
             /\ StoredForm(ValuePart(node, items)) /\ \A k \in K : StoredForm(items[k])
  <2> DEFINE type == PlainType(node.type)
             tree == Tree(type, "", items)
  <2>1. ValuePart(node, items) = tree
    BY <1>4 DEF ValuePart
  <2>2. EncodeProofValue(node, items) =
          IF \E k \in DOMAIN items : items[k] = NoTree THEN NoTree
          ELSE TaggedValue(KindOf(node.type), node.type, tree)
    BY <1>4 DEF EncodeProofValue, Plain
  <2>3. \A k \in DOMAIN items : items[k] # NoTree
    BY <2>2
  <2>4. DOMAIN items = K /\ K \subseteq Names /\ items = [k \in DOMAIN items |-> items[k]]
    BY DEF Encodings, Names
  <2>5. \A k \in DOMAIN items : StoredForm(items[k])
    BY <2>3, <2>4 DEF Encodings
  <2>6. type \in {"object", "list"}
    BY PlainTypes
  <2>7. StoredForm(tree)
    <3> HIDE DEF type
    <3> QED BY <2>4, <2>5, <2>6, TreesAreStored
  <2> HIDE DEF tree
  <2>8. EncodeProofValue(node, items) = TaggedValue(KindOf(node.type), node.type, tree)
    BY <2>2, <2>3
  <2> QED BY <2>1, <2>4, <2>5, <2>7, <2>8
<1> QED BY <1>1, <1>2, <1>3, <1>4

LEMMA EncodedIsStored ==
  ASSUME NEW node, NEW K, NEW items, Encodings(items, K)
  PROVE  EncodeProofValue(node, items) = NoTree \/ StoredForm(EncodeProofValue(node, items))
<1> SUFFICES ASSUME EncodeProofValue(node, items) # NoTree
             PROVE  StoredForm(EncodeProofValue(node, items))
  OBVIOUS
<1>1. CASE Plain(node)
  <2>1. EncodeProofValue(node, items) = Leaf(node.type, node.val)
    BY <1>1, EncodedInParts
  <2>2. StoredForm(Leaf(node.type, node.val))
    BY <1>1, LeavesAreStored DEF Plain
  <2> QED BY <2>1, <2>2
<1>2. CASE ~Plain(node)
  <2>1. /\ EncodeProofValue(node, items) = TaggedValue(KindOf(node.type), node.type, ValuePart(node, items))
        /\ StoredForm(ValuePart(node, items))
    BY <1>2, EncodedInParts
  <2> DEFINE value == ValuePart(node, items)
  <2> HIDE DEF value
  <2>2. StoredForm(TaggedValue(KindOf(node.type), node.type, value))
    BY <2>1, TagsAreStored DEF value
  <2> QED BY <2>1, <2>2 DEF value
<1> QED BY <1>1, <1>2

-----------------------------------------------------------------------------
(* What is encoded tells all of the node, and what its elements are. *)

LEMMA KindsOfEncoding ==
  ASSUME NEW node, NEW K, NEW items, Encodings(items, K), EncodeProofValue(node, items) # NoTree
  PROVE  Plain(node) <=> EncodeProofValue(node, items)[<<>>].type # "object"
<1>1. CASE Plain(node)
  <2>1. EncodeProofValue(node, items) = Leaf(node.type, node.val)
    BY <1>1, EncodedInParts
  <2>2. Leaf(node.type, node.val)[<<>>].type = node.type
    BY LeafFacts
  <2>3. node.type # "object"
    BY <1>1 DEF Plain
  <2> QED BY <1>1, <2>1, <2>2, <2>3
<1>2. CASE ~Plain(node)
  <2> DEFINE value == ValuePart(node, items)
  <2>1. /\ EncodeProofValue(node, items) = TaggedValue(KindOf(node.type), node.type, value)
        /\ StoredForm(value)
    BY <1>2, EncodedInParts
  <2> HIDE DEF value
  <2>2. TaggedValue(KindOf(node.type), node.type, value)[<<>>].type = "object"
    BY <2>1, TagsAreStored
  <2> QED BY <1>2, <2>1, <2>2
<1> QED BY <1>1, <1>2

(* The elements of two containers of one type tell which they are. *)
LEMMA ItemsTell ==
  ASSUME NEW type, NEW K, NEW u, Encodings(u, K), \A k \in K : StoredForm(u[k]),
         NEW L, NEW w, Encodings(w, L), \A k \in L : StoredForm(w[k]),
         NEW val, Tree(type, val, u) = Tree(type, val, w)
  PROVE  u = w
<1>2. /\ DOMAIN u = K /\ u = [k \in DOMAIN u |-> u[k]] /\ K \subseteq Names
      /\ DOMAIN w = L /\ w = [k \in DOMAIN w |-> w[k]] /\ L \subseteq Names
  BY DEF Encodings, Names
<1>3. Forms(u) /\ Forms(w)
  BY <1>2 DEF Forms, StoredForm
<1>4. FunctionOfForms(u) /\ FunctionOfForms(w)
  BY <1>2, <1>3 DEF FunctionOfForms
<1> QED BY <1>4, TreeTells

NodeEncodingTells(m, n, K, L, u, w) ==
  m = n /\ K = L /\ \A k \in K : u[k] = w[k] /\ u[k] # NoTree

LEMMA EncodedTells ==
  ASSUME NEW m, NEW K, NodeOf(m, K), NEW u, Encodings(u, K),
         NEW n, NEW L, NodeOf(n, L), NEW w, Encodings(w, L),
         EncodeProofValue(m, u) = EncodeProofValue(n, w), EncodeProofValue(m, u) # NoTree
  PROVE  NodeEncodingTells(m, n, K, L, u, w)
<1> DEFINE e == EncodeProofValue(m, u)
           x == ValuePart(m, u)
           y == ValuePart(n, w)
<1>1. Plain(m) <=> Plain(n)
  BY KindsOfEncoding
<1>2. /\ m = Node(m.type, m.val) /\ (m.type \notin Containers => K = {})
      /\ (m.type \in Containers => m.val \in {"", "nil"} /\ (m.val = "nil" => K = {}))
  BY DEF NodeOf
<1>3. /\ n = Node(n.type, n.val) /\ (n.type \notin Containers => L = {})
      /\ (n.type \in Containers => n.val \in {"", "nil"} /\ (n.val = "nil" => L = {}))
  BY DEF NodeOf
<1>4. m.type = n.type /\ m.val = n.val => m = n
  BY <1>2, <1>3
<1>5. CASE Plain(m)
  <2>1. Leaf(m.type, m.val) = Leaf(n.type, n.val)
    BY <1>1, <1>5, EncodedInParts
  <2>2. m.type = n.type /\ m.val = n.val
    BY <2>1, LeafTells
  <2>3. m.type \notin Containers /\ n.type \notin Containers
    BY <1>5, <2>2 DEF Plain, Containers, MapTypes, SliceTypes
  <2> QED BY <1>2, <1>3, <1>4, <2>2, <2>3 DEF NodeEncodingTells
<1>6. CASE ~Plain(m)
  <2>1. /\ EncodeProofValue(m, u) = TaggedValue(KindOf(m.type), m.type, x) /\ StoredForm(x)
        /\ (m.type \in Containers /\ m.val # "nil" => \A k \in K : StoredForm(u[k]))
    BY <1>6, EncodedInParts
  <2>2. /\ EncodeProofValue(n, w) = TaggedValue(KindOf(n.type), n.type, y) /\ StoredForm(y)
        /\ (n.type \in Containers /\ n.val # "nil" => \A k \in L : StoredForm(w[k]))
    BY <1>1, <1>6, EncodedInParts
  <2>3. m.type = n.type /\ x = y
    <3> DEFINE a == KindOf(m.type)
               b == KindOf(n.type)
    <3>1. TaggedValue(a, m.type, x) = TaggedValue(b, n.type, y)
      BY <2>1, <2>2
    <3> HIDE DEF a, b, x, y
    <3> QED BY <2>1, <2>2, <3>1, TagTells
  <2>4. CASE m.type \notin Containers
    <3>1. x = Leaf("string", m.val) /\ y = Leaf("string", n.val)
      BY <2>3, <2>4 DEF ValuePart
    <3>2. m.val = n.val
      <4> HIDE DEF x, y
      <4> QED BY <2>3, <3>1, LeafTells
    <3> QED BY <1>2, <1>3, <1>4, <2>3, <2>4, <3>2 DEF NodeEncodingTells
  <2>5. CASE m.type \in Containers
    <3> DEFINE type == PlainType(m.type)
    <3>1. /\ x = IF m.val = "nil" THEN Leaf("nil", "") ELSE Tree(type, "", u)
          /\ y = IF n.val = "nil" THEN Leaf("nil", "") ELSE Tree(type, "", w)
      BY <2>3, <2>5 DEF ValuePart
    <3>2. Leaf("nil", "")[<<>>].type = "nil"
      BY LeafFacts
    <3>3. type # "nil"
      BY PlainTypes
    <3> HIDE DEF x, y, type
    <3>4. ASSUME m.val # "nil" PROVE Tree(type, "", u)[<<>>].type = type
      <4>1. Forms(u)
        BY <1>2, <2>1, <2>5, <3>4 DEF Forms, Encodings, StoredForm, Names
      <4> DEFINE none == ""
      <4> HIDE DEF none
      <4>2. Tree(type, none, u)[<<>>].type = type
        BY <4>1, TreeFacts
      <4> QED BY <4>2 DEF none
    <3>5. ASSUME n.val # "nil" PROVE Tree(type, "", w)[<<>>].type = type
      <4>1. Forms(w)
        BY <1>3, <2>2, <2>3, <2>5, <3>5 DEF Forms, Encodings, StoredForm, Names
      <4> DEFINE none == ""
      <4> HIDE DEF none
      <4>2. Tree(type, none, w)[<<>>].type = type
        BY <4>1, TreeFacts
      <4> QED BY <4>2 DEF none
    <3>6. m.val = "nil" <=> n.val = "nil"
      BY <2>3, <3>1, <3>2, <3>3, <3>4, <3>5
    <3>7. m.val = n.val
      BY <1>2, <1>3, <2>3, <2>5, <3>6
    <3>8. CASE m.val = "nil"
      BY <1>2, <1>3, <1>4, <2>3, <2>5, <3>7, <3>8 DEF NodeEncodingTells
    <3>9. CASE m.val # "nil"
      <4>1. Tree(type, "", u) = Tree(type, "", w)
        BY <2>3, <3>1, <3>7, <3>9
      <4>2. (\A k \in K : StoredForm(u[k])) /\ (\A k \in L : StoredForm(w[k]))
        BY <2>1, <2>2, <2>3, <2>5, <3>7, <3>9
      <4>3. u = w
        <5> DEFINE none == ""
        <5>1. Encodings(u, K) /\ Encodings(w, L) /\ Tree(type, none, u) = Tree(type, none, w)
          BY <4>1
        <5> HIDE DEF none
        <5> QED BY <4>2, <5>1, ItemsTell
      <4>4. K = DOMAIN u /\ L = DOMAIN w
        BY DEF Encodings
      <4>5. \A k \in K : u[k] # NoTree
        BY <4>2 DEF StoredForm
      <4> QED BY <1>4, <2>3, <3>7, <4>3, <4>4, <4>5 DEF NodeEncodingTells
    <3> QED BY <3>8, <3>9
  <2> QED BY <2>4, <2>5
<1> QED BY <1>5, <1>6

(* The encoding is defined on every tree. *)
EncodeAt(t, f, p) ==
  IF EncodingDepth(t)[p] > ProofDepth THEN NoTree
  ELSE EncodeProofValue(t[p], [k \in NextKeys(t, p) |-> f[Append(p, k)]])
EncodeEquation(t, f, D) == f = [p \in D |-> EncodeAt(t, f, p)]
Encoded(t) == CHOOSE f : EncodeEquation(t, f, DOMAIN t)
EncodedBelow(t, p) == [k \in KeysAfter(t, p) |-> Encoded(t)[Append(p, k)]]

LEMMA EncodeIsLocal ==
  ASSUME NEW t, NEW f, NEW g, NEW p, \A k \in NextKeys(t, p) : f[Append(p, k)] = g[Append(p, k)]
  PROVE  EncodeAt(t, f, p) = EncodeAt(t, g, p)
<1>1. [k \in NextKeys(t, p) |-> f[Append(p, k)]] = [k \in NextKeys(t, p) |-> g[Append(p, k)]]
  OBVIOUS
<1> QED BY <1>1 DEF EncodeAt

LEMMA EncodeExists ==
  ASSUME NEW t, IsTree(t)
  PROVE  \E f : EncodeEquation(t, f, DOMAIN t)
<1> DEFINE S == {n \in Nat : \E f : EncodeEquation(t, f, DeepIn(t, n))}
<1>1. 0 \in S
  <2> DEFINE f == [p \in DeepIn(t, 0) |-> EncodeAt(t, <<>>, p)]
  <2>1. f = [p \in DeepIn(t, 0) |-> EncodeAt(t, f, p)]
    BY DeepFacts
  <2> HIDE DEF f
  <2>2. EncodeEquation(t, f, DeepIn(t, 0))
    BY <2>1 DEF EncodeEquation
  <2> QED BY <2>2
<1>2. ASSUME NEW n \in Nat, n \in S PROVE n + 1 \in S
  <2>1. PICK f : EncodeEquation(t, f, DeepIn(t, n))
    BY <1>2
  <2> DEFINE g == [p \in DeepIn(t, n + 1) |-> EncodeAt(t, f, p)]
  <2>2. \A p \in DeepIn(t, n) : g[p] = f[p]
    <3>1. \A p \in DeepIn(t, n) : p \in DeepIn(t, n + 1)
      BY DeepFacts
    <3>2. \A p \in DeepIn(t, n) : f[p] = EncodeAt(t, f, p)
      BY <2>1 DEF EncodeEquation
    <3> QED BY <3>1, <3>2
  <2>3. ASSUME NEW p \in DeepIn(t, n + 1) PROVE EncodeAt(t, f, p) = EncodeAt(t, g, p)
    <3>1. ASSUME NEW k \in NextKeys(t, p) PROVE f[Append(p, k)] = g[Append(p, k)]
      <4>1. p \in DOMAIN t
        BY DEF DeepIn
      <4>2. k \in KeysAfter(t, p)
        BY <4>1, KeysOfTree
      <4>3. Append(p, k) \in DeepIn(t, n)
        BY <4>2, DeepFacts
      <4> QED BY <2>2, <4>3
    <3> HIDE DEF g
    <3> QED BY <3>1, EncodeIsLocal
  <2>4. EncodeEquation(t, g, DeepIn(t, n + 1))
    BY <2>3 DEF EncodeEquation
  <2> HIDE DEF g
  <2> QED BY <2>4
<1>3. Nat \subseteq S
  <2> HIDE DEF S
  <2> QED BY <1>1, <1>2, Induction
<1>4. Deepest + 1 \in S
  BY <1>3, DeepFacts
<1> QED BY <1>4, DeepFacts

-----------------------------------------------------------------------------
(* The stored form of a tree. *)

LEMMA EncodedFacts ==
  ASSUME NEW t, IsTree(t)
  PROVE  \A p \in DOMAIN t :
           /\ Encoded(t)[p] = IF EncodingDepth(t)[p] > ProofDepth THEN NoTree
                              ELSE EncodeProofValue(t[p], EncodedBelow(t, p))
           /\ Encodings(EncodedBelow(t, p), KeysAfter(t, p))
<1> DEFINE T == {p \in DOMAIN t : Encoded(t)[p] = NoTree \/ StoredForm(Encoded(t)[p])}
<1>1. ASSUME NEW p \in DOMAIN t
      PROVE  Encoded(t)[p] = IF EncodingDepth(t)[p] > ProofDepth THEN NoTree
                             ELSE EncodeProofValue(t[p], EncodedBelow(t, p))
  <2> DEFINE f == Encoded(t)
  <2>1. EncodeEquation(t, f, DOMAIN t)
    BY EncodeExists DEF Encoded
  <2> HIDE DEF f
  <2>2. f[p] = EncodeAt(t, f, p)
    BY <2>1 DEF EncodeEquation
  <2>3. NextKeys(t, p) = KeysAfter(t, p)
    BY KeysOfTree
  <2>4. EncodeAt(t, f, p) = IF EncodingDepth(t)[p] > ProofDepth THEN NoTree
                            ELSE EncodeProofValue(t[p], [k \in KeysAfter(t, p) |-> f[Append(p, k)]])
    BY <2>3 DEF EncodeAt
  <2> QED BY <2>2, <2>4 DEF f, EncodedBelow
<1>2. ASSUME NEW p \in DOMAIN t, \A k \in KeysAfter(t, p) : Append(p, k) \in T
      PROVE  Encodings(EncodedBelow(t, p), KeysAfter(t, p))
  <2> DEFINE K == KeysAfter(t, p)
             u == EncodedBelow(t, p)
  <2>1. u = [k \in K |-> u[k]] /\ \A k \in K : u[k] = Encoded(t)[Append(p, k)]
    BY DEF EncodedBelow
  <2>2. K \subseteq Keys
    BY DEF KeysAfter
  <2>3. \A k \in K : u[k] = NoTree \/ StoredForm(u[k])
    BY <1>2, <2>1
  <2> HIDE DEF u, K
  <2>4. Encodings(u, K)
    BY <2>1, <2>2, <2>3 DEF Encodings
  <2> QED BY <2>4 DEF u, K
<1>3. ASSUME NEW p \in DOMAIN t, \A k \in KeysAfter(t, p) : Append(p, k) \in T PROVE p \in T
  <2>1. \/ EncodeProofValue(t[p], EncodedBelow(t, p)) = NoTree
        \/ StoredForm(EncodeProofValue(t[p], EncodedBelow(t, p)))
    BY <1>2, <1>3, EncodedIsStored
  <2> QED BY <1>1, <2>1
<1>4. DOMAIN t \subseteq T
  <2> HIDE DEF T
  <2> QED BY <1>3, TreeInduction
<1>5. \A p \in DOMAIN t : \A k \in KeysAfter(t, p) : Append(p, k) \in T
  BY <1>4, KeysOfTree
<1> QED BY <1>1, <1>2, <1>5

LEMMA RootIsEncoded ==
  ASSUME NEW t, IsTree(t), EncodeProofRoot(t) # NoTree
  PROVE  /\ EncodeProofRoot(t) = Tree(PlainType(t[<<>>].type), "", EncodedBelow(t, <<>>))
         /\ Encodings(EncodedBelow(t, <<>>), KeysAfter(t, <<>>))
         /\ \A k \in KeysAfter(t, <<>>) : StoredForm(EncodedBelow(t, <<>>)[k])
<1> DEFINE u == EncodedBelow(t, <<>>)
           K == KeysAfter(t, <<>>)
           e == Tree(PlainType(t[<<>>].type), "", u)
<1>0. <<>> \in DOMAIN t
  BY DEF IsTree
<1>1. NextKeys(t, <<>>) = K /\ Encodings(u, K)
  BY <1>0, KeysOfTree, EncodedFacts
<1>2. EncodeProofRoot(t) = IF \E k \in DOMAIN u : u[k] = NoTree THEN NoTree ELSE e
  <2> DEFINE f == Encoded(t)
             items == [k \in NextKeys(t, <<>>) |-> f[Append(<<>>, k)]]
  <2>1. EncodeProofRoot(t) = IF \E k \in DOMAIN items : items[k] = NoTree THEN NoTree
                             ELSE Tree(PlainType(t[<<>>].type), "", items)
    BY DEF EncodeProofRoot, Encoded, EncodeEquation, EncodeAt
  <2>2. items = u
    BY <1>1 DEF EncodedBelow
  <2> HIDE DEF items, u
  <2> QED BY <2>1, <2>2
<1> HIDE DEF u, K, e
<1>3. EncodeProofRoot(t) = e /\ \A k \in DOMAIN u : u[k] # NoTree
  BY <1>2
<1>4. \A k \in K : StoredForm(u[k])
  BY <1>1, <1>3 DEF Encodings
<1> QED BY <1>1, <1>3, <1>4 DEF u, K, e

(* The stored form of a tree is accepted and copied as it is. *)
LEMMA EncodingIsStored ==
  ASSUME NEW t, IsTree(t), EncodeProofRoot(t) # NoTree
  PROVE  CloneStored(EncodeProofRoot(t)) = EncodeProofRoot(t)
<1> DEFINE u == EncodedBelow(t, <<>>)
           K == KeysAfter(t, <<>>)
           type == PlainType(t[<<>>].type)
<1>1. EncodeProofRoot(t) = Tree(type, "", u) /\ Encodings(u, K) /\ \A k \in K : StoredForm(u[k])
  BY RootIsEncoded
<1>2. type \in {"object", "list"}
  BY PlainTypes
<1> HIDE DEF u, K, type
<1>3. u = [k \in DOMAIN u |-> u[k]] /\ DOMAIN u \subseteq Names /\ \A k \in DOMAIN u : StoredForm(u[k])
  BY <1>1 DEF Encodings, Names
<1>4. StoredForm(Tree(type, "", u))
  BY <1>2, <1>3, TreesAreStored
<1> QED BY <1>1, <1>4, ClonablesStay DEF StoredForm

SameEncoded(s, t, p) ==
  {k \in Keys : Encoded(s)[Append(p, k)] = Encoded(t)[Append(p, k)] /\ Encoded(s)[Append(p, k)] # NoTree}
SameBelow(s, t, p) ==
  s[p] = t[p] /\ KeysAfter(s, p) = KeysAfter(t, p) /\ KeysAfter(s, p) \subseteq SameEncoded(s, t, p)

LEMMA EncodedNodesTell ==
  ASSUME NEW s, IsTree(s), NEW t, IsTree(t), NEW p \in DOMAIN s, p \in DOMAIN t,
         Encoded(s)[p] = Encoded(t)[p], Encoded(s)[p] # NoTree
  PROVE  SameBelow(s, t, p)
<1> DEFINE m == s[p]
           n == t[p]
           K == KeysAfter(s, p)
           L == KeysAfter(t, p)
           u == EncodedBelow(s, p)
           w == EncodedBelow(t, p)
<1>1. NodeOf(m, K) /\ Encodings(u, K) /\ Encoded(s)[p] = EncodeProofValue(m, u)
  BY KeysOfTree, EncodedFacts
<1>2. NodeOf(n, L) /\ Encodings(w, L) /\ Encoded(t)[p] = EncodeProofValue(n, w)
  BY KeysOfTree, EncodedFacts
<1>3. /\ \A k \in K : k \in Keys /\ u[k] = Encoded(s)[Append(p, k)]
      /\ \A k \in L : k \in Keys /\ w[k] = Encoded(t)[Append(p, k)]
  BY DEF EncodedBelow, KeysAfter
<1>4. EncodeProofValue(m, u) = EncodeProofValue(n, w) /\ EncodeProofValue(m, u) # NoTree
  BY <1>1, <1>2
<1> HIDE DEF m, n, K, L, u, w
<1>5. NodeEncodingTells(m, n, K, L, u, w)
  BY <1>1, <1>2, <1>4, EncodedTells
<1>6. m = n /\ K = L /\ \A k \in K : u[k] = w[k] /\ u[k] # NoTree
  BY <1>5 DEF NodeEncodingTells
<1>7. K \subseteq SameEncoded(s, t, p)
  BY <1>3, <1>6 DEF SameEncoded
<1> QED BY <1>6, <1>7 DEF m, n, K, L, SameBelow

(* A root that is a container with elements: the only kind that is stored. *)
IsRoot(t) == t[<<>>].type \in {"object", "list"} /\ t[<<>>].val = ""

LEMMA EncodedRootsTell ==
  ASSUME NEW s, IsTree(s), NEW t, IsTree(t), IsRoot(s), IsRoot(t),
         EncodeProofRoot(s) = EncodeProofRoot(t), EncodeProofRoot(s) # NoTree
  PROVE  SameBelow(s, t, <<>>)
<1> DEFINE type == PlainType(s[<<>>].type)
           kind == PlainType(t[<<>>].type)
           K == KeysAfter(s, <<>>)
           L == KeysAfter(t, <<>>)
           u == EncodedBelow(s, <<>>)
           w == EncodedBelow(t, <<>>)
           none == ""
<1>1. EncodeProofRoot(s) = Tree(type, none, u) /\ Encodings(u, K) /\ \A k \in K : StoredForm(u[k])
  BY RootIsEncoded
<1>2. EncodeProofRoot(t) = Tree(kind, none, w) /\ Encodings(w, L) /\ \A k \in L : StoredForm(w[k])
  BY RootIsEncoded
<1>3. /\ \A k \in K : k \in Keys /\ u[k] = Encoded(s)[Append(<<>>, k)]
      /\ \A k \in L : k \in Keys /\ w[k] = Encoded(t)[Append(<<>>, k)]
  BY DEF EncodedBelow, KeysAfter
<1>4. type = s[<<>>].type /\ kind = t[<<>>].type
  BY DEF PlainType, IsRoot, MapTypes
<1>5. s[<<>>] = Node(s[<<>>].type, none) /\ t[<<>>] = Node(t[<<>>].type, none)
  <2>1. NodeOf(s[<<>>], K) /\ NodeOf(t[<<>>], L)
    BY KeysOfTree DEF IsTree
  <2>2. s[<<>>].val = none /\ t[<<>>].val = none
    BY DEF IsRoot
  <2> HIDE DEF K, L, none
  <2> QED BY <2>1, <2>2 DEF NodeOf
<1> HIDE DEF type, kind, K, L, u, w, none
<1>6. Tree(type, none, u) = Tree(kind, none, w)
  BY <1>1, <1>2
<1>7. DOMAIN u = K /\ DOMAIN w = L
  BY <1>1, <1>2 DEF Encodings
<1>8. FunctionOfForms(u) /\ FunctionOfForms(w)
  BY <1>1, <1>2, <1>7 DEF FunctionOfForms, Forms, Encodings, StoredForm, Names
<1>9. type = kind /\ u = w
  BY <1>6, <1>8, TreeTells
<1>10. K = L /\ s[<<>>] = t[<<>>]
  BY <1>4, <1>5, <1>7, <1>9
<1>11. K \subseteq SameEncoded(s, t, <<>>)
  BY <1>1, <1>3, <1>9, <1>10 DEF SameEncoded, StoredForm
<1> QED BY <1>10, <1>11 DEF SameBelow, K, L

(* The stored form of a tree tells all of it. *)
LEMMA EncodingTells ==
  ASSUME NEW s, IsTree(s), NEW t, IsTree(t), IsRoot(s), IsRoot(t),
         EncodeProofRoot(s) = EncodeProofRoot(t), EncodeProofRoot(s) # NoTree
  PROVE  s = t
<1> DEFINE G == {p \in Seq(Keys) :
                   /\ p \in DOMAIN s <=> p \in DOMAIN t
                   /\ p \in DOMAIN s => SameBelow(s, t, p)}
<1>0. <<>> \in Seq(Keys)
  OBVIOUS
<1>1. <<>> \in G
  BY <1>0, EncodedRootsTell DEF IsTree
<1>2. ASSUME NEW p \in Seq(Keys), p \in G, NEW k \in Keys PROVE Append(p, k) \in G
  <2> DEFINE q == Append(p, k)
  <2>1. q \in Seq(Keys)
    OBVIOUS
  <2>2. CASE p \in DOMAIN s
    <3>1. KeysAfter(s, p) = KeysAfter(t, p) /\ KeysAfter(s, p) \subseteq SameEncoded(s, t, p)
      BY <1>2, <2>2 DEF SameBelow
    <3>2. q \in DOMAIN s <=> q \in DOMAIN t
      BY <3>1 DEF KeysAfter
    <3>3. q \in DOMAIN s => Encoded(s)[q] = Encoded(t)[q] /\ Encoded(s)[q] # NoTree
      BY <3>1 DEF KeysAfter, SameEncoded
    <3> HIDE DEF q
    <3> QED BY <2>1, <3>2, <3>3, EncodedNodesTell DEF q
  <2>3. CASE p \notin DOMAIN s
    <3>1. p \notin DOMAIN t
      BY <1>2, <2>3
    <3>2. q \notin DOMAIN s /\ q \notin DOMAIN t
      BY <2>3, <3>1 DEF IsTree
    <3> QED BY <2>1, <3>2
  <2> QED BY <2>2, <2>3
<1>3. Seq(Keys) \subseteq G
  <2> HIDE DEF G
  <2> QED BY <1>1, <1>2, PathInduction
<1>4. DOMAIN s \subseteq Seq(Keys) /\ DOMAIN t \subseteq Seq(Keys)
  BY DEF IsTree
<1>5. DOMAIN s = DOMAIN t
  BY <1>3, <1>4
<1>6. \A p \in DOMAIN s : s[p] = t[p]
  BY <1>3, <1>4 DEF SameBelow
<1>7. s = [p \in DOMAIN s |-> s[p]] /\ t = [p \in DOMAIN t |-> t[p]]
  BY DEF IsTree
<1> QED BY <1>5, <1>6, <1>7

LEMMA ObjectsAreRoots ==
  ASSUME NEW h, WellFormed(h), NEW v \in Values(h), IsObject(v), v.type \in {"object", "list"}
  PROVE  IsRoot(Unfold(h, v))
<1>1. Unfold(h, v)[<<>>] = Label(v)
  <2>1. <<>> \in Seq(Keys) /\ Len(<<>>) = 0 /\ Deepest \in Nat
    BY DepthConstants DEF Deepest
  <2>2. <<>> \in Led(h, v, Deepest)
    BY <2>1, LeadsOfNothing DEF Led
  <2>3. ValueAt(h, v, <<>>) = v
    BY ValuesAtPaths DEF Found
  <2> QED BY <2>2, <2>3, UnfoldFacts
<1>2. v.val = ""
  <2>1. v = Ref(h[v.addr].type, v.addr)
    BY ObjectsOfValues
  <2>2. Ref(h[v.addr].type, v.addr).val = ""
    BY DEF Ref
  <2> QED BY <2>1, <2>2
<1>3. Label(v) = Node(v.type, v.val)
  BY DEF Label
<1>4. Node(v.type, v.val).type = v.type /\ Node(v.type, v.val).val = v.val
  BY DEF Node
<1> DEFINE t == Unfold(h, v)
<1>5. t[<<>>] = Node(v.type, v.val)
  BY <1>1, <1>3
<1> HIDE DEF t
<1>6. IsRoot(t)
  BY <1>2, <1>4, <1>5 DEF IsRoot
<1> QED BY <1>6 DEF t
=============================================================================
