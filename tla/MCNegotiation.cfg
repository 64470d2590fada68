\* Every header of up to four of eight ranges, every set of four locales.
SPECIFICATION Spec
CONSTANTS
  Languages = {"de", "en"}
  Scripts = {"Latn"}
  Regions = {"AT", "CH"}
  Tags <- MCTags
  TextOrder <- MCTextOrder
  Ranges <- MCRanges
  Requested <- MCRequested
  Defaults <- MCDefaults
  MaxRanges = 3
  MaxHeaderUnits = 9
  MaxSent = 4
INVARIANTS
  AnswersAreHosted
  RequestedLanguageIsServed
  HeaderPreferenceDecides
PROPERTY HostingIsConservative
CHECK_DEADLOCK FALSE
