SPECIFICATION Spec
CONSTANTS
  MaxLarg = 3
  MaxMudancas = 3
INVARIANTS
  TypeOK
  CreditoUnico
  NadaPerdido
  SinalPresente
PROPERTIES
  SoAvanca
  AlcancaAFonte
CHECK_DEADLOCK FALSE
