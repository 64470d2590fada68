\* Two documents in two languages; two acceptances at a time; two changes by the reader or
\* operators of the pages, one edit under the list.
SPECIFICATION FairSpec
CONSTANTS
  Slugs = {"terms", "privacy"}
  BadKeys = {}
  Locales = {1, 2}
  Spellings = {"en", "de"}
  TagOf <- MCTagOf
  Texts = {1, 2, 3}
  Versions = {1, 2}
  Headings = {0, 1}
  Required = {}
  MaxInstant = 0
  Subjects = {"alice"}
  GenerationModulus = 4
  Configs <- MCConfigs
  CatalogOrder <- MCCatalogOrder
  TitlesOf <- MCTitlesOf
  UpdatedOf <- MCUpdatedOf
  MaxChanges = 2
  Tasks = {t1, t2}
  Language = 2
  MaxEdits = 1
  MaxLost = 2
INVARIANTS
  NoOlderAnswerStays
  LinksLeadToTheirPages
  ListIsTrueWhenQuiet
PROPERTY EventuallyNothingListed
CHECK_DEADLOCK FALSE
