SPECIFICATION Spec
CONSTANTS
  NCmds = 3
  Cap = 2
  MaxTimeouts = 2
  MaxLixo = 1
INVARIANTS
  TypeOK
  CadaSaidaNoSeu
  FimNaoSePerde
  NadaForaDeOrdem
CHECK_DEADLOCK FALSE
