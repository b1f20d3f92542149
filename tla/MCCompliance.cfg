CONSTANTS
  NoAlias = NoAlias
  Nil = Nil
  Failed = Failed
  BannedImports <- MCBannedImports
  BannedFunctions <- MCBannedFunctions
  AllowedGoImports <- MCAllowedGoImports
  AllowedPythonImports <- MCAllowedPythonImports
  Primitives <- MCPrimitives
  MaxDeployment = 2
  Names = {"", "A"}
  Fingerprints = {"f1", "f2"}
  Sources <- MCSources
  Results = {"r1", "r2"}
SPECIFICATION Spec
INVARIANTS TypeOK CompliantIsEarned ReportIsExact ProbeFollowsIdentity
CHECK_DEADLOCK FALSE
