\* Tied records that differ in nothing but their locale.
SPECIFICATION Spec
CONSTANTS
  Slugs = {"terms", "privacy"}
  BadKeys = {}
  Locales = {1, 2}
  Spellings = {"en", "de"}
  TagOf <- MCTagOf
  Texts = {1, 2}
  Versions = {1, 2}
  Headings = {0}
  Required = {}
  MaxInstant = 2
  Subjects = {"alice"}
  Document = "terms"
  Policies <- MCPolicies
  Given <- TiedGiven
  MaxRecords = 2
INVARIANT ResultIgnoresOrder
CHECK_DEADLOCK FALSE
