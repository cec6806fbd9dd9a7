SPECIFICATION Spec
CONSTANTS
  NCmds = 2
  Cap = 2
  MaxTimeouts = 1
  MaxLixo = 0
INVARIANTS
  FimLido
CHECK_DEADLOCK FALSE
