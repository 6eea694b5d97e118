CONSTANTS
  SectorSize <- MCSectorSize
  MasterSizes <- MCMasterWhole
  SlaveSizes <- MCSlaveSizes
  MaxSector <- MCMaxSector
  Widths <- MCWidthsProtocol
  LbaValues <- MCLbaValues
  NsectValues <- MCNsectValues
  Protocol = TRUE
SPECIFICATION Spec
INVARIANTS
  TransferLength
