SPECIFICATION JsonSpec
CONSTANTS
  W = 8
  Radix = 4
  Sat = 60
  Kilo = 2
  Policies <- MCPolicies
  HttpStatuses <- MCHttpStatuses
  RetryAfters <- MCRetryAfters
  RetryAfterRoom = 4
  PolicyDefaults <- MCPolicyDefaults
  WaitCases <- MCWaits
  Null = Null
  ByteTexts <- MCByteTexts
  CodePoints <- MCCodePoints
  AuthRoom = 3
  Descs <- MCDescs
  Opts <- MCOpts
  Environments <- MCEnvironments
  Arguments <- MCArguments
  BodyDescs <- MCBodyDescs
  Requests <- MCRequests
  Chains <- MCChains
  Failures <- MCFailures
  Calls <- MCCalls
  Rows <- MCRows
  Words = {"a", "b", "c"}
  Atoms = {"1", "own"}
  JsonTexts <- MCJsonTexts
  JsonStrings <- MCJsonStrings
  Contents <- MCContents
  NumberTexts <- MCNumberTexts
  NumW = 7
  NumDigits = 2
  NumTop = 3
  F64_BITS = 11
  F64_SIG_FULL_BITS = 5
  F64_EXP_BITS = 5
  U64_SAFE_DIG = 3
  F64_MAX_DEC_DIG = 16
  DotDown = 3
  DotUpTo = 4
  RealTexts <- MCRealTexts
  Counts <- MCCounts
  WriteRadix = 2
  Members <- MCMembers
  ExtraTexts <- MCExtraTexts
  UsizeEnd = 64
  StrHead = 2
  ValSize = 3
  PoolInit <- MCPoolInit
  PoolMax <- MCPoolMax
  Needs <- MCNeeds
  Shortages <- MCShortages
INVARIANTS
  ClassifyAsDocumented
  WaitAsDocumented
  Sendable
  BodyAsAsked
  FailuresLeaveNothing
  JsonAsDefined
  ScalarsAsDefined
\* A question is answered once.
CHECK_DEADLOCK FALSE
