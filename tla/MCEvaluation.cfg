\* Slices of up to three records, five policies.
SPECIFICATION Spec
CONSTANTS
  Slugs = {"terms", "privacy"}
  BadKeys = {}
  Locales = {1, 2}
  Spellings = {"en", "de"}
  TagOf <- MCTagOf
  Texts = {1, 2}
  Versions = {1, 2}
  Headings = {0}
  Required = {}
  MaxInstant = 2
  Subjects = {"alice"}
  Document = "terms"
  Policies <- MCPolicies
  Given <- MCGiven
  MaxRecords = 3
INVARIANTS
  EvaluatesAsStated
  VerdictIgnoresOrder
PROPERTIES
  LateRecordsChangeNothing
  TimeOnlyBlocks
CHECK_DEADLOCK FALSE
