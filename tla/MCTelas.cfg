SPECIFICATION SpecTelas
CONSTANTS
  tela = tela
  shell = shell
  a1 = a1
  a2 = a2
  \* SessaoRemota
  Abas <- AsAbas
  Ssh = {shell}
  MaxSessoes = 1
  MaxFalhas = 3
  MaxCliques = 2
  \* ResizeRdp
  Tamanhos = {1, 3, 7, 11}
  MinimoResize = 2
  MinDisplay = 4
  MaxDisplay = 12
  AreaMax = 8
  Padrao = 5
  ResizeTentativas = 2
  MaxIncidentes = 2
  MaxLayouts = 1
  \* ClipboardTela
  AbasTela = {a1, a2}
  TextosCl = {1, 2}
  MaxCopias = 1
  MaxRemotas = 1
  MaxTrocas = 1
  MaxReligadas = 1
VIEW Visao
INVARIANTS
  TiposTelas
  RecusaSoComClique
  FechadaNaoInsiste
PROPERTIES
  FecharTermina
  
  ClipCerto
CHECK_DEADLOCK FALSE
