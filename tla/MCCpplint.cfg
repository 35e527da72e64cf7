CONSTANTS
  NamespaceLines = 2
  NormalTrigger = 1
  TestTrigger = 2
  VerboseLevel = 0
  Header <- MCHeader
  Requires <- MCRequires
  Invocations <- MCInvocations
SPECIFICATION Spec
INVARIANTS
  TypeOK
  ElidedIsTheCode
  StackFollowsBraces
  TopLevelIncludesAreKept
  LongFunctionsAreReported
  VerdictsAreOwn
  
CHECK_DEADLOCK FALSE
