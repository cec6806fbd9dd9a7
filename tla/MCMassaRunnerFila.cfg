SPECIFICATION Spec
CONSTANTS
  NHosts = 3
  NCmds = 1
  Canario = 1
  Workers = 8
  MaxFalhas = 2
  MaxExecucoes = 1
INVARIANTS
  PausaTemDono
PROPERTIES
  NaoPerguntaMais
  SoAPausaPrende
VIEW SemRitmo
CHECK_DEADLOCK FALSE
