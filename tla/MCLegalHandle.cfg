\* Two callers of `replace` and one reader; or two readers behind a shared cache.
SPECIFICATION BothSpec
CONSTANTS
  Slugs = {"imprint", "terms"}
  BadKeys = {"Terms"}
  Locales = {1, 2}
  Spellings = {"en", "EN", "de", "zz"}
  TagOf <- MCTagOf
  Texts = {1, 2}
  Versions = {1, 2}
  Headings = {0, 1, 2, 3}
  Required = {"terms"}
  MaxInstant = 3
  Subjects = {"alice"}
  Configs <- FewConfigs
  GenerationModulus = 3
  Replacers = {r1, r2}
  Readers = {d1}
  CatalogOrder <- MCCatalogOrder
  TitlesOf <- MCTitlesOf
  UpdatedOf <- MCUpdatedOf
  LocaleText <- MCLocaleText
  VersionText <- MCVersionText
  Visitors = {"german", "other"}
  Asked <- MCAsked
  DefaultLocale <- MCDefaultLocale
  MaxAge = 2
  MaxSwaps = 2
INVARIANTS
  TypeOK
  ServedIsWellFormed
  RevalidatedIndexIsCurrent
  IndexAgreesWithDocuments
  RetiredTextIsGone
  OwnLanguageIsServed
PROPERTY ImplementsRegister
