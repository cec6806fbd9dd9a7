SPECIFICATION SpecJanela
CONSTANTS
  \* Janelas
  Chaves = {"k1", "k2"}
  Destacaveis = {"k1"}
  NoCofre = {"k1"}
  MaxAbas = 2
  Teto = 1
  MaxPedidos = 1
  MaxGrupos = 0
  \* Painel
  Fichas <- AsFichas
  Inicial <- FichasDoInicio
  Termos = {"", "m2"}
  Pingam = {}
  Abertas <- PortasAbertas
  Sondadores = {"w1", "w2"}
  MaxFila = 1
  MaxGestosPa = 2
  MaxRecargas = 1
  \* Busca
  MaquinasBu = {"m1", "m2"}
  ProtosDe <- OsProtos
  NoDisco <- NoArquivo
  Textos <- OsTextos
  MaxLinhasBu = 1
  MaxCaixas = 1
  MaxEntradas = 2
  MaxEnter = 1
VIEW Visao
INVARIANT
  JanelaCerta
PROPERTIES
  DevolucaoChega
  EsperasAcabam
CHECK_DEADLOCK FALSE
