\* Three requests of one subject over two documents, quoting what is, was or never was served.
SPECIFICATION Spec
CONSTANTS
  Slugs = {"terms", "privacy"}
  BadKeys = {"Terms"}
  Locales = {1, 2}
  Spellings = {"en", "de"}
  TagOf <- MCTagOf
  Texts = {1, 2}
  Versions = {1, 2}
  Headings = {0}
  Required = {}
  MaxInstant = 1
  Subjects = {"alice"}
  Configs <- ServiceConfigs
  GenerationModulus = 1
  Requests = {r1, r2, r3}
  Quotes <- ServiceQuotes
  Paths = {"/inner", "/legal"}
  ExemptPaths = {"/legal"}
  LastInstant = 1
SYMMETRY Symmetry
INVARIANTS
  TypeOK
  RecordsQuoteServedText
  HistoryDecidesAsLatest
PROPERTIES
  ContinuouslyOwedNeverPasses
  ContinuouslySettledNeverBlocked
  ImplementsStore
