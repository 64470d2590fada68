\* Paths of up to 6 tokens, texts of up to 6 pieces, documents of up to 6 containers.
SPECIFICATION Spec
CONSTANTS
  Pieces = {"me", "export", "ed"}
  MountChoices <- MCMountChoices
  Extensions <- MCExtensions
  DocumentSlugs <- MCDocumentSlugs
  MaxPath = 6
  MaxPrefixes = 6
  MaxSlugLen = 3
  PiecesOf <- MCPiecesOf
  MaxPieces <- MCMaxPieces
  SlugChoices <- MCSlugChoices
  Destinations <- MCDestinations
  Profiles <- MCProfiles
INVARIANTS
  ExemptIsBelowAMount
  MandatoryRoutesAreOpen
  LinksAreReadAsBrowsersDo
  SlotsAreThePlaceholders
  ListsNameTheirTags
  NoTextIsLost
  RenderedAsHtml
CHECK_DEADLOCK FALSE
