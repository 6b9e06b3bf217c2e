SPECIFICATION OpsSpec
CONSTANTS
  MaxOps = 3
  MaxBatch = 2
  UnrefedResources = TRUE
  RingSize = 3
  Half = 64
  MaxCalls = 9
  Op2Ops <- AllOps
  Op2Numbers <- Halves
  Op2BigInts <- Bigs
  Op2Strings <- Texts
  StackBuffer = 4
  Op2MaxCalls = 1
  SvRust <- RustPairs
  SvJs <- JsPairs
  MaxStr = 6
  StoreLen = 8
  ElemSize = 2
  MaxSlices = 4
  CvNumbers <- CvHalves
  CvInts <- CvWhole
  CvCells <- Cells3
  CvMaxF32 = 280
INVARIANTS
  OpsAccountedFor
  ArgumentsArrive
  OutstandingExact
  RoundTrips
  PiecesApart
  ElementsInitialised
  ConversionsFaithful
PROPERTIES
  FinishedOpSettles
  ExitsExactlyWhenUnrefed
  RefinesTable
CHECK_DEADLOCK FALSE
