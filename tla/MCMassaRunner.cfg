SPECIFICATION Spec
CONSTANTS
  NHosts = 3
  NCmds = 2
  Canario = 1
  Workers = 2
  MaxFalhas = 1
  MaxExecucoes = 1
INVARIANTS
  TypeOK
  UmResultado
  TodosNoFim
  OkSoCompleto
  AbortarPara
  TravaDoCanario
VIEW SemRitmo
CHECK_DEADLOCK FALSE
