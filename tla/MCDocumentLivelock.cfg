\* A revision that changes neither text nor heading, and a reader who keeps trying.
SPECIFICATION FairSpec
CONSTANTS
  Slugs = {"terms"}
  BadKeys = {}
  Locales = {1, 2}
  Spellings = {"en", "de"}
  TagOf <- MCTagOf
  Texts = {1, 2, 3}
  Versions = {1, 2}
  Headings = {0, 1}
  Required = {}
  MaxInstant = 0
  Subjects = {"alice"}
  GenerationModulus = 4
  Clients = {c1}
  Wanted <- MCWanted
  MaxReplacements = 3
  Configs <- RevisedAlone
PROPERTY EventuallySettled
CHECK_DEADLOCK FALSE
