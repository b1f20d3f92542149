----------------------- MODULE MCCompositionOperators -----------------------
(* Instances of CompositionOperators for TLC. *)
EXTENDS CompositionOperators

(* All children are of one type. *)
OneType == [child \in Children |-> "T"]

(* The optional callbacks of all children. *)
Named == [child \in Children |-> {"name"}]
NamedAndConfigured == [child \in Children |-> {"name", "config"}]

(* The children start under different names and configurations, or alike.   *)
Starting(values) == [name |-> values[1], version |-> 0, source |-> 0, config |-> values[2]]
FirstChild == CHOOSE child \in Children : TRUE
OwnConfigurations ==
  [child \in Children |-> Starting(IF child = FirstChild THEN <<1, 0>> ELSE <<1, 1>>)]
OneName == [child \in Children |-> Starting(<<1, 0>>)]
OwnNamesAndConfigurations ==
  [child \in Children |-> Starting(IF child \in References THEN <<1, 0>> ELSE <<2, 1>>)]

(* A child that alternates shows its name only. *)
ConfiguredUnlessFickle ==
  [child \in Children |-> IF child \in Fickle THEN {"name"} ELSE {"name", "config"}]

(* The lists of up to two children, nil among them; with one that           *)
(* alternates only those next to itself or nil.                             *)
Listed(set) == {<<>>} \cup {<<c>> : c \in set} \cup {<<c, d>> : c, d \in set}
AllLists == Listed(Children \cup {Nil})
ListsApart == Listed((Children \ Fickle) \cup {Nil}) \cup Listed(Fickle \cup {Nil})

(* Which fields change, and to which values; a name is at least 1, so with  *)
(* configurations a second name can only give way to the first one, but     *)
(* for a child that alternates.                                             *)
UpTo(name, config) ==
  [f \in Fields |-> CASE f = "name" -> name [] f = "config" -> config [] OTHER -> 0]
NamesDrift == [child \in Children |-> UpTo(2, 0)]
ConfigurationsDrift == [child \in Children |-> UpTo(1, 1)]
BothDrift == [child \in Children |-> IF child \in Fickle THEN UpTo(2, 0) ELSE UpTo(1, 1)]
=============================================================================
