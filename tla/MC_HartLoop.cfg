CONSTANTS
  Exceptions <- MCExceptions
  Interrupts <- MCInterrupts
  DeviceCause <- MCDeviceCause
  MaxPosts <- MCMaxPosts
  Builds <- MCBuilds
  Boot <- MCBoot
  TvecBase <- MCTvecBase
  TvecModes <- MCTvecModes
SPECIFICATION Spec
VIEW ControlView
PROPERTIES
  TimerPreemptsLowerModes
