SPECIFICATION SpecSessao
CONSTANTS
  t1 = t1
  t2 = t2
  s1 = s1
  Abas <- DuasTelasUmSsh
  Ssh = {s1}
  MaxSessoes = 1
  MaxFalhas = 1
  MaxCliques = 1
SYMMETRY Simetria
INVARIANTS
  ContaCerta
  SemOrfao
CHECK_DEADLOCK FALSE
