SPECIFICATION Spec
CONSTANTS
  t1 = t1
  t2 = t2
  s1 = s1
  Abas <- UmaTela
  Ssh = {}
  MaxSessoes = 1
  MaxFalhas = 1
  MaxCliques = 1
PROPERTIES
  CliqueAtendido
CHECK_DEADLOCK FALSE
