SPECIFICATION FairSpec
CONSTANTS
  Unset = Unset
  ShellBase = "v2.18.0"
  ShellEnv = Unset
  Plan <- MCPlan
  Version <- MCVersion
  Default <- MCDefault
INVARIANTS VerdictIsTheTest FailureIsDiagnosed CleanupContract
PROPERTIES NeverTornDown AllReported
