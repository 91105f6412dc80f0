SPECIFICATION Spec
CONSTANTS
  SS = 3
  EOC = 99
  MaxFat12 = 4
  MaxFat16 = 6
  Configured = 2
  Pages = 12
  MaxLosses = 1
  Cards <- MCCards
  Image <- MCImage
  DirName <- MCDirName
  Names <- MCNames
  Contents <- MCContents
  Sizes = {2}
  Sfn <- MCSfn
INVARIANTS
  ChainsSound
  LinksSound
  FreeCountNotLow
  NoLostClusters
  AckedIsStored
  ReadsBack
PROPERTY ImplementsVault
CHECK_DEADLOCK FALSE
