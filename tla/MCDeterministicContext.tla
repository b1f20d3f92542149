------------------------ MODULE MCDeterministicContext ------------------------
(* Instances of DeterministicContext for TLC. *)
EXTENDS DeterministicContext

Object(type, items) == [type |-> type, items |-> items]
Host(n) == [owner |-> "host", n |-> n, path |-> <<>>]

MCScalars ==
  {Nil, Scalar("float", "NaN"), Scalar("float", "0"), Scalar("string", "1"), Scalar("int", "1")}

(* The host program begins with a map that holds itself, or one slice twice, *)
(* or something no context can hold;                                         *)
First ==
  {Object("object", ("a" :> v) @@ ("b" :> w)) :
     <<v, w>> \in {<<Ref("object", Host(1)), Ref("list", Host(2))>>,
                   <<Ref("list", Host(2)), Ref("list", Host(2))>>,
                   <<Ref("list", Host(2)), Scalar("float", "NaN")>>}}

(* with that slice, *)
Second(third) ==
  {Object("list", ("0" :> v) @@ ("1" :> Ref(third.type, Host(3)))) :
     v \in {Scalar("float", "NaN"), Scalar("string", "1")}}

(* and with a third object, which lies as deep as a context goes. *)
Third ==
  {Object("floats", "0" :> Scalar("float", "0")),
   Object("list", "0" :> Scalar("string", "1")),
   Object("table", "a" :> Ref("object", NoAddress))}

MCHeaps ==
  UNION {{(Host(1) :> first) @@ (Host(2) :> second) @@ (Host(3) :> third) :
            first \in First, second \in Second(third)} : third \in Third}

MCWritten ==
  {Scalar("float", "NaN"), Scalar("int", "1"), Nil, Ref("object", NoAddress), Ref("list", NoAddress)}
=============================================================================
