\* A withdrawal after an edit that keeps the revision.
SPECIFICATION Spec
CONSTANTS
  Slugs = {"terms", "privacy"}
  BadKeys = {"Terms"}
  Locales = {1, 2}
  Spellings = {"en", "de"}
  TagOf <- MCTagOf
  Texts = {1, 2}
  Versions = {1, 2}
  Headings = {0}
  Required = {}
  MaxInstant = 3
  Subjects = {"alice"}
  Configs <- EditConfigs
  GenerationModulus = 1
  Requests = {r1, r2}
  Quotes <- ServiceQuotes
  Paths = {"/inner", "/legal"}
  ExemptPaths = {"/legal"}
  LastInstant = 1
INVARIANT WithdrawalNamesTheTextLastRecorded
CHECK_DEADLOCK FALSE
