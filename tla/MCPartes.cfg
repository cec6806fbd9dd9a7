SPECIFICATION SpecPartes
CONSTANTS
  \* EntradaTela
  Teclas = {"ctrl", "f12", "w"}
  Combinacao <- CtrlF12
  Botoes = {"b1"}
  Teto = 2
  MaxTeclas = 4
  MaxPonteiro = 1
  MaxJuntos = 4
  MaxContexto = 1
  \* Transferencia
  Maquinas = {"m1", "m2"}
  Pastas = {"d1", "d2"}
  Lar = "d1"
  MaxConexoes = 1
  MaxNavega = 1
  MaxOperacoes = 2
  \* TerminalSsh
  Janela = 2
  CorpoMax = 2
  Passo = 1
  MaxHist = 1
  \* Segredos
  ConexoesSe = {"c1", "c2"}
  Creds = {"u", "n"}
  Usuario = "u"
  MaxChaves = 2
  Dano = FALSE
  \* Cadastro
  Nomes = {"m1", "m2"}
  ArquivosCa = {"padrao", "lojas"}
  Padrao = "padrao"
  Apontaveis = {"padrao", "lojas"}
  MaxOps = 2
  MaxHistorico = 2
  MaxQuedas = 1
  \* Atualizador
  Sistemas = {"linux", "windows", "fora"}
  MaxLista = 2
  Datas = {1, 2}
  \* Instancia
  Servicos = {"s1", "s2"}
  Apps = {"a1", "a2"}
  Versoes <- AsVersoes
  TeclasIn = {"k"}
  CapMsgs = 1
  MaxTrocas = 1
  MaxMortes = 1
  MaxFechos = 1
  MaxBuscas = 1
  MaxAcasosIn = 2
  \* AtalhoGlobal
  ModosAg = {"servico", "app"}
  TeclasAg = {"k"}
  MaxFalhas = 1
  MaxQuedasAg = 1
  MaxTrocasAg = 1
  MaxCliques = 2
  MaxApertos = 1
  \* Calibragem
  Segundo = 2
  Canario = 3
  Duracoes <- AsDuracoes
  Conexoes <- AsConexoes
  \* ChaveDoHost
  AbasSsh = {"t1"}
  AbasSftp = {"t2"}
  AbasRdp = {"t3"}
  HostDe <- OsHosts
  ChavesCh = {"k1", "k2"}
  Iniciais <- OsArquivos
  MaxTentativas = 1
  MaxAcasos = 1
VIEW Visao
INVARIANTS
  TiposPartes
  TransferenciaCerta
  TerminalCerto
  ConfiancaCerta
  CadastroInteiro
  AtualizacaoCerta
  InstanciaCerta
  AtalhoCerto
  PrazosCertos
PROPERTIES
  EntradaCerta
CHECK_DEADLOCK FALSE
