CONSTANTS
  v1 = v1
  v2 = v2
  v3 = v3
  NULL = NULL
  VMs <- MCVMs
  NumSlots <- MCNumSlots
  MaxRegs <- MCMaxRegs
SYMMETRY VMSymmetry
SPECIFICATION Spec
\* The process stops at the NULL dereference of CreateNoParent.
CHECK_DEADLOCK FALSE
INVARIANTS
  CreateNeverFaults
