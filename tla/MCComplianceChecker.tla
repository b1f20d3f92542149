------------------------ MODULE MCComplianceChecker -------------------------
(* Instances of ComplianceChecker for TLC. *)
EXTENDS ComplianceChecker

(* Rows of the tables of core/determinism_enforcer.go. *)
MCBannedImports == {<<"time">>, <<"os">>, <<"math", "rand">>}
MCBannedFunctions == {<<"time", "Now">>, <<"rand", "Intn">>}
MCAllowedGoImports == {<<"math">>, <<"strings">>}
MCAllowedPythonImports == {<<"math">>, <<"json">>}

Import(path, alias) == [path |-> path, alias |-> alias, leading |-> TRUE]
Inline(path) == [path |-> path, alias |-> NoAlias, leading |-> FALSE]
Text(text, imports, features, calls) ==
  [text |-> text, packageLine |-> text = "go", imports |-> imports, features |-> features,
   calls |-> calls]

Go(imports) == Text("go", imports, {}, {})
Script(imports) == Text("script", imports, {}, {})

(* Go whose package clause follows a comment on its line, with and without  *)
(* a name for the package it imports.                                       *)
Hidden == Import(<<"os", "exec">>, NoAlias)
UnparsedGo ==
  {[Go(<<Hidden>>) EXCEPT !.packageLine = FALSE],
   [Go(<<[Hidden EXCEPT !.alias = "math"]>>) EXCEPT !.packageLine = FALSE]}

(* Sources without and with each single reason to refuse them, with an      *)
(* unknown package or a harmless one under another's name, and with imports *)
(* that the check does not find, as in "import math, os".                   *)
MCSources ==
  UnparsedGo \cup
  {Text("blank", <<>>, {}, {}),
   [Script(<<>>) EXCEPT !.packageLine = TRUE],
   Text("go", <<Import(<<"math">>, NoAlias)>>, {}, {<<"math", "Abs">>}),
   Go(<<Import(<<"math", "big">>, NoAlias)>>),
   Go(<<Import(<<"os", "exec">>, NoAlias)>>),
   Go(<<Import(<<"math">>, ".")>>),
   Text("go", <<Import(<<"math">>, "time")>>, {}, {<<"time", "Now">>}),
   Text("go", <<Import(<<"strings">>, NoAlias), Import(<<"math", "rand">>, "strings")>>,
        {}, {<<"strings", "Perm">>}),
   Text("go", <<>>, {"go statement"}, {}),
   [Go(<<Import(<<"strings">>, "_")>>) EXCEPT !.packageLine = FALSE],
   Script(<<Import(<<"math">>, NoAlias)>>),
   Script(<<Import(<<"math">>, NoAlias), Import(<<"os", "path">>, NoAlias)>>),
   Script(<<Import(<<"math">>, NoAlias), Inline(<<"os">>)>>),
   Text("script", <<>>, {"dynamic or global operation"}, {})}

MCPrimitives ==
  {{}, {"named", "configurable"}, {"named", "source"},
   {"configurable", "fingerprinted", "source"}}
=============================================================================
