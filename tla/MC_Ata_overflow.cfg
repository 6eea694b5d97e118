CONSTANTS
  SectorSize <- MCSectorSize
  MasterSizes <- MCMasterSizes
  SlaveSizes <- MCSlaveSizes
  MaxSector <- MCMaxSector
  Widths <- MCWidthsAny
  LbaValues <- MCLbaValues
  NsectValues <- MCNsectValues
  Protocol = FALSE
SPECIFICATION Spec
PROPERTIES
  BufferInBounds
\* An unconstrained guest can make the host fault (fseek on a NULL FILE).
CHECK_DEADLOCK FALSE
