\* One client through a cache, three replacements.
SPECIFICATION FairSpec
CONSTANTS
  Slugs = {"terms"}
  BadKeys = {}
  Locales = {1, 2}
  Spellings = {"en", "de"}
  TagOf <- MCTagOf
  Texts = {1, 2, 3}
  Versions = {1, 2}
  Headings = {0, 1}
  Required = {}
  MaxInstant = 0
  Subjects = {"alice"}
  GenerationModulus = 4
  Clients = {c1}
  Wanted <- MCWanted
  MaxReplacements = 3
  Configs <- ChangedTogether
INVARIANTS
  TypeOK
  RevalidatedTextIsCurrent
PROPERTIES
  RecordsOnlyWhatWasShown
  EventuallySettled
CHECK_DEADLOCK FALSE
