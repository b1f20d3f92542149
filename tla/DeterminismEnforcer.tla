------------------------- MODULE DeterminismEnforcer -------------------------
(***************************************************************************)
(* The check of a primitive's source in core/determinism_enforcer.go, which *)
(* the compliance checker and the engine run on what DeterministicSource    *)
(* answers.  A source is a record of                                       *)
(*   text        "blank", "go" (the Go parser accepts it) or "script" (any  *)
(*               other)                                                     *)
(*   packageLine a line begins with a package clause                        *)
(*   imports     what the rules of the language import, in order, as        *)
(*               [path, alias, leading]: a path is the sequence of its      *)
(*               elements, the alias may be absent, and leading are the     *)
(*               first imports of the statements that begin a line, not     *)
(*               the second one of "import math, os"                        *)
(*   features    the other things that are looked for, in the form that is  *)
(*               looked for                                                 *)
(*   calls       the qualified calls, <<name before the dot, after it>>     *)
(***************************************************************************)
EXTENDS SequencesExt

CONSTANTS
  BannedImports,         \* bannedImports
  BannedFunctions,       \* bannedFunctions
  AllowedGoImports,      \* allowedGoImports
  AllowedPythonImports,  \* allowedPythonImports
  NoAlias                \* of an import without a name of its own

GoFeatures == {"package variable", "init function", "go statement"}
ScriptFeatures == {"dynamic or global operation"}

(* isBannedImport: a banned path, or one below it. *)
IsBannedImport(path) == \E banned \in BannedImports : IsPrefix(banned, path)

ImportsOf(source) == ToSet(source.imports)

(* Mutation: an import is only looked up in the table of the banned ones. *)
GoImportRefusedIfBanned(import) ==
  IsBannedImport(import.path) \/ import.alias \in {".", "_"}

GoImportRefused(import) ==
  \/ IsBannedImport(import.path)
  \/ import.path \notin AllowedGoImports
  \/ import.alias \in {".", "_"}

(* aliases: the name an import has in the file, and the last path of a name. *)
LocalName(import) == IF import.alias = NoAlias THEN Last(import.path) ELSE import.alias

ImportedAs(source, name) ==
  LET named == SelectSeq(source.imports, LAMBDA import : LocalName(import) = name)
  IN  IF named = <<>> THEN <<>> ELSE Last(named).path

GoCallRefused(source, call) ==
  \/ call \in BannedFunctions
  \/ ImportedAs(source, call[1]) # <<>> /\ IsBannedImport(ImportedAs(source, call[1]))

(* validateDeterministicGo *)
ValidateDeterministicGo(source) ==
  /\ source.text = "go"
  /\ \A import \in ImportsOf(source) : ~GoImportRefused(import)
  /\ source.features \cap GoFeatures = {}
  /\ \A call \in source.calls : ~GoCallRefused(source, call)

(* The module names that the pattern for imports finds, first element only: *)
(* the leading ones, where Go has the alias in that place.                  *)
ScriptImports(source) ==
  LET leading == {import \in ImportsOf(source) : import.leading}
  IN  IF source.text = "go"
      THEN {<<import.alias>> : import \in {i \in leading : i.alias \notin {NoAlias, "."}}}
      ELSE {<<Head(import.path)>> : import \in leading}

(* validateDeterministicScript *)
ValidateDeterministicScript(source) ==
  /\ \A root \in ScriptImports(source) : ~IsBannedImport(root) /\ root \in AllowedPythonImports
  /\ source.features \cap ScriptFeatures = {}
  /\ source.calls \cap BannedFunctions = {}

(* ValidatePrimitiveSource and ValidateDeterministic. *)
ValidatePrimitiveSource(source) ==
  /\ source.text # "blank"
  /\ IF source.packageLine THEN ValidateDeterministicGo(source)
                           ELSE ValidateDeterministicScript(source)
-----------------------------------------------------------------------------
(* What the check is for, said of what the language makes of a source:      *)
(* every import runs the initialisation of a package, found by the check or *)
(* not, and an import into the file's own scope hides whose function a call *)
(* goes to.                                                                 *)
PackagesRun(source) ==
  IF source.text = "go" THEN {import.path : import \in ImportsOf(source)}
                        ELSE {<<Head(import.path)>> : import \in ImportsOf(source)}

RunsAllowedPackages(source) ==
  PackagesRun(source) \subseteq
    (IF source.text = "go" THEN AllowedGoImports ELSE AllowedPythonImports)

Unqualified(source) == \E import \in ImportsOf(source) : import.alias = "."

Deterministic(source) ==
  /\ source.text # "blank"
  /\ RunsAllowedPackages(source)
  /\ source.text = "go" => source.features \cap GoFeatures = {} /\ ~Unqualified(source)
  /\ source.text = "script" => source.features \cap ScriptFeatures = {}

(* A source in which the check finds what the language does: Go with its    *)
(* package clause on a line, a script that imports nothing inside a line.   *)
PlainlyWritten(source) ==
  IF source.text = "go" THEN source.packageLine
                        ELSE \A import \in ImportsOf(source) : import.leading
=============================================================================
