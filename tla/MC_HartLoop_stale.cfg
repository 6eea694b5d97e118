CONSTANTS
  Exceptions <- MCExceptions
  Interrupts <- MCInterrupts
  DeviceCause <- MCDeviceCause
  MaxPosts <- MCMaxPosts
  Builds <- MCOrderedBuild
  Boot <- MCBoot
  TvecBase <- MCTvecBase
  TvecModes <- MCTvecModes
SPECIFICATION Spec
VIEW ControlView
PROPERTIES
  NoStalePending
