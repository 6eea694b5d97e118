CONSTANTS
  SectorSize <- MCSectorSize
  MasterSizes <- MCMasterWhole
  SlaveSizes <- MCSlaveAbsent
  MaxSector <- MCMaxSector
  Widths <- MCWidthsProtocol
  LbaValues <- MCLbaValues
  NsectValues <- MCNsectValues
  Protocol = TRUE
SPECIFICATION Spec
PROPERTIES
  ImplementsDisk
VIEW AtaView
