CONSTANTS
  SymbolReach = 40
  LineReach = 8
  PrologueReach = 8
  UpperCase <- MCUpperCase
  StartupLine <- MCStartup
  Byte = 16
  AddrMask = 64
  Rn <- MCRn
  Sfrs <- MCSfrs
  DPL = 2
  DPH = 3
  HexAddrs <- MCHexAddrs
  RegisterRows <- MCRegisterRows
  PageSize = 24
  AddrWord = 4096
  MaxImage = 32
  Erased = 255
  CodeSize = 28
  MaxListing = 8
  DefaultListing = 3
  HexFiles <- MCHexFiles
  MapFiles <- MCMapFiles
  Starts <- MCStarts
  Data <- MCData
  Pca0md = 5
  WatchdogBit = 2
  Names <- MCNames
  Values <- MCValues
  MemRefs <- MCMemRefs
  Listings <- MCListings
  MaxEdits = 1
SPECIFICATION Spec
INVARIANTS TypeOK HexImageRight LocalsOfProc EditReadsBack EditStaysInside WatchAgreesWithPanel ListingAnchored LinesRoundTrip OnlyAnlBitIsShort
