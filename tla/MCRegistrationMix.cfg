\* A registration that spans a replacement.
SPECIFICATION Spec
CONSTANTS
  Slugs = {"terms", "privacy"}
  BadKeys = {}
  Locales = {1}
  Spellings = {"en"}
  TagOf <- MCTagOf
  Texts = {1, 2}
  Versions = {1, 2}
  Headings = {0}
  Required = {}
  MaxInstant = 1
  Subjects = {"alice"}
  Configs <- MCConfigs
  GenerationModulus = 2
  Calls = {c1}
  Submissions <- MCSubmissions
INVARIANT NeverAMix
