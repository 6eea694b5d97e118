CONSTANTS
  Exceptions <- MCExceptions
  Interrupts <- MCInterrupts
  Boot <- MCBoot
  TvecBase <- MCTvecBase
  TvecModes <- MCTvecDirect
SPECIFICATION Spec
VIEW ControlView
PROPERTIES
  InterruptPriority
