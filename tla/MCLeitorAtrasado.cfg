SPECIFICATION Spec
CONSTANTS
  NCmds = 2
  Cap = 2
  MaxTimeouts = 1
  MaxLixo = 0
INVARIANTS
  SaidaCerta
CHECK_DEADLOCK FALSE
