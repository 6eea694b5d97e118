CONSTANTS
  Exceptions <- MCExceptions
  Interrupts <- MCInterrupts
  Boot <- MCBoot
  TvecBase <- MCTvecBase
  TvecModes <- MCTvecBoth
SPECIFICATION Spec
PROPERTIES
  TrapVectorTarget
