-------------------------------- MODULE Cadastro --------------------------------
(***************************************************************************)
(* The inventory: conexoes.ini, edited line by line and replaced whole     *)
(* (internal/iniutil, internal/conexoes); those who write it, which are    *)
(* the loop of the main window, the goroutines beside it (the buttons of a *)
(* detached window, the answer of the autostart portal) and the probes of  *)
(* the platform; the history of copies; the copy in memory that the Panel  *)
(* shows and the dialogs edit; and the default file that points to the one *)
(* in use (caminhos.go).  Of a connection are kept three keys that differ  *)
(* in who writes them: ronly (the dialog and the session), windows (the    *)
(* probes) and rdp_extras (the dialog, which never reads it).              *)
(***************************************************************************)
EXTENDS Integers, Sequences, SequencesExt

CONSTANTS
  Nomes,       \* names of sections
  ArquivosCa,  \* the inventories of this computer
  Padrao,      \* the one in the default directory
  Apontaveis,  \* those called conexoes.ini, alone in their directory
  MaxOps,      \* bound: operations begun
  MaxHistorico,\* copies kept (20)
  MaxQuedas    \* bound: crashes and failed writes

ASSUME CadastroAssumption ==
  /\ Padrao \in Apontaveis /\ Apontaveis \subseteq ArquivosCa
  /\ "nenhum" \notin ArquivosCa
  /\ MaxHistorico \in Nat \ {0} /\ {MaxOps, MaxQuedas} \subseteq Nat

VARIABLES
  discoCa,  \* per file: what its name and the name of its .tmp hold
  obraCa,   \* per writer: the operation under way
  loteCa,   \* the detection of platforms: its file, that it made its copy
  memCa,    \* the file in use, the copy in memory, the file the portal was asked for
  dlgCa,    \* the dialog on screen: of a connection, of the settings
  abasCa,   \* the session tabs: what each was opened with
  obsCa     \* history: see the properties

varsCa == <<discoCa, obraCa, loteCa, memCa, dlgCa, abasCa, obsCa>>

Sondas == {"s1", "s2"}
Escritores == {"laco", "lado"} \union Sondas

Falta == [ha |-> FALSE, ronly |-> 0, windows |-> 0, extras |-> 0]
Nula == [ronly |-> -1, windows |-> -1, extras |-> -1]
Vazio == [estado |-> "vazio", secs |-> [n \in Nomes |-> Falta], geral |-> FALSE,
          tema |-> 0, caminho |-> "nenhum"]
Misto == [Vazio EXCEPT !.estado = "misto"]
SemTmp == [Vazio EXCEPT !.estado = "sem"]

SemDlg == [tipo |-> "nenhum", nova |-> FALSE, nome |-> "", base |-> Falta, emUso |-> Padrao]
OpNula == [tipo |-> "nenhuma", arq |-> Padrao, nome |-> "", novo |-> "", campos |-> Nula]
Parado == [pc |-> "fora", op |-> OpNula, linhas |-> Vazio, fd |-> "sem"]

\* Carregar: the sections as they are read, ronly being no when it is not said.
Verdade(v) == IF v = 2 THEN 2 ELSE 1
Montar(s) == IF s.ha THEN [s EXCEPT !.ronly = Verdade(@)] ELSE s
Carregar(c) == [n \in Nomes |-> Montar(c.secs[n])]

\* garantirINI left the default file there: a [geral], and an example.
Inicial == [Vazio EXCEPT !.estado = "inteiro", !.geral = TRUE,
              !.secs = [n \in Nomes |-> IF n = CHOOSE m \in Nomes : TRUE
                                        THEN [ha |-> TRUE, ronly |-> 1, windows |-> 0, extras |-> 1]
                                        ELSE Falta]]

InitCa ==
  /\ discoCa = [f \in ArquivosCa |-> [ini |-> IF f = Padrao THEN Inicial
                                              ELSE [Inicial EXCEPT !.geral = FALSE],
                                    tmp |-> SemTmp, hist |-> <<>>]]
  /\ obraCa = [q \in Escritores |-> Parado]
  /\ loteCa = [ativo |-> FALSE, arq |-> Padrao, copiado |-> FALSE]
  /\ memCa = [usado |-> Padrao, inv |-> Carregar(Inicial), portal |-> "nenhum"]
  /\ dlgCa = SemDlg
  /\ abasCa = {}
  /\ obsCa = [ops |-> 0, quedas |-> 0, cruzou |-> FALSE, falhou |-> FALSE, volta |-> FALSE,
            primeira |-> FALSE,
              devido |-> [f \in ArquivosCa |-> discoCa[f].ini],
              antes |-> [f \in ArquivosCa |-> Vazio]]

(***************************************************************************)
(* The edit of the lines (salvarSecao, Criar, Remover, SalvarGeral).       *)
(***************************************************************************)
Com(v, novo) == IF novo = -1 THEN v ELSE novo
ComCampos(s, c) == [s EXCEPT !.ronly = Com(@, c.ronly), !.windows = Com(@, c.windows),
                             !.extras = Com(@, c.extras)]

Renomeada(c, nome, novo, s) ==
  [c EXCEPT !.secs = [n \in Nomes |-> IF n = novo THEN s
                                      ELSE IF n = nome THEN Falta ELSE @[n]]]

\* A section that is there keeps the keys that are not given; a value given as
\* empty (0) removes its key.
PodeSalvar(c, op) == c.secs[op.nome].ha /\ (op.novo # op.nome => ~c.secs[op.novo].ha)
SalvarSecao(c, op) == Renomeada(c, op.nome, op.novo, ComCampos(c.secs[op.nome], op.campos))

\* Only the keys of ordemChaves: neither windows nor rdp_extras are among them.
PodeCriar(c, op) == ~c.secs[op.nome].ha
CriarSecao(c, op) ==
  [c EXCEPT !.estado = "inteiro", !.secs[op.nome] = [Falta EXCEPT !.ha = TRUE, !.ronly = op.campos.ronly]]

PodeRemover(c, op) == c.secs[op.nome].ha
RemoverSecao(c, op) == [c EXCEPT !.secs[op.nome] = Falta]

\* A preference of the person; a file that has no [geral] gets one in a write of
\* its own, before the write that sets the key.
SalvarGeral(c, op) ==
  IF c.geral
  THEN IF op.tipo = "tema" THEN [c EXCEPT !.tema = 1 - @] ELSE [c EXCEPT !.caminho = op.novo]
  ELSE [c EXCEPT !.geral = TRUE, !.estado = "inteiro"]
DeGeral == {"tema", "caminho"}

Pode(c, op) ==
  CASE op.tipo \in {"salvar", "pref", "lote"} -> PodeSalvar(c, op)
    [] op.tipo = "criar" -> PodeCriar(c, op)
    [] op.tipo = "remover" -> PodeRemover(c, op)
    [] OTHER -> TRUE

Aplicar(c, op) ==
  IF c.estado = "misto" THEN c
  ELSE CASE op.tipo \in {"salvar", "pref", "lote"} -> SalvarSecao(c, op)
         [] op.tipo = "criar" -> CriarSecao(c, op)
         [] op.tipo = "remover" -> RemoverSecao(c, op)
         [] OTHER -> SalvarGeral(c, op)

\* The same, both writes of SalvarGeral done.
Feito(c, op) == IF op.tipo \in DeGeral /\ ~c.geral THEN Aplicar(Aplicar(c, op), op) ELSE Aplicar(c, op)

(***************************************************************************)
(* An operation, step by step.  Who writes has a descriptor of the .tmp;   *)
(* a rename by another turns it into one of the file itself.               *)
(***************************************************************************)
Ocupado(q) == obraCa[q].pc # "fora"
\* Variant: the probes of a detection have no lock among them.
SondasSoltas(q) == TRUE

SemTrava(q) == q \in Sondas => \A s \in Sondas : ~Ocupado(s)

ComecarCa(q, op) ==
  /\ ~Ocupado(q) /\ obsCa.ops < MaxOps
  /\ SemTrava(q)
  /\ obraCa' = [obraCa EXCEPT ![q] = [Parado EXCEPT
       !.pc = IF op.tipo \in DeGeral THEN "ler" ELSE "copia", !.op = op]]
  /\ obsCa' = [obsCa EXCEPT !.ops = @ + 1,
       !.cruzou = @ \/ \E p \in Escritores : /\ Ocupado(p) /\ obraCa[p].op.arq = op.arq
                                             /\ ~({p, q} \subseteq Sondas)]

\* guardarCopia and rotacionar: once in a whole Lote.
GuardarCopia(q) ==
  LET f == obraCa[q].op.arq  lote == obraCa[q].op.tipo = "lote"
      h == Append(discoCa[f].hist, discoCa[f].ini) IN
  /\ obraCa[q].pc = "copia"
  /\ discoCa' = IF lote /\ loteCa.copiado THEN discoCa
                ELSE [discoCa EXCEPT ![f].hist = IF Len(h) > MaxHistorico THEN Tail(h) ELSE h]
  /\ obsCa' = [obsCa EXCEPT !.antes[f] = IF lote /\ ~obsCa.primeira THEN @ ELSE obsCa.devido[f],
                            !.primeira = @ /\ ~lote]
  /\ loteCa' = IF lote THEN [loteCa EXCEPT !.copiado = TRUE] ELSE loteCa
  /\ obraCa' = [obraCa EXCEPT ![q].pc = "ler"]
  /\ UNCHANGED <<memCa, dlgCa, abasCa>>

\* recarregarIni, which the dialogs and the menus call when they are done; a
\* button of a session and a preference of the person do not.
Recarregado(q, d) ==
  IF q = "laco" /\ obraCa[q].op.tipo \in {"salvar", "criar", "remover"}
  THEN [memCa EXCEPT !.inv = Carregar(d[memCa.usado].ini)] ELSE memCa

Fim(q) == obraCa' = [obraCa EXCEPT ![q] = Parado]

Ler(q) ==
  LET op == obraCa[q].op  c == discoCa[op.arq].ini IN
  /\ obraCa[q].pc = "ler"
  /\ IF Pode(c, op)
     THEN obraCa' = [obraCa EXCEPT ![q].pc = "abrir", ![q].linhas = Aplicar(c, op)]
     ELSE Fim(q)
  /\ UNCHANGED <<discoCa, loteCa, memCa, dlgCa, abasCa, obsCa>>

\* GravarAtomico: os.WriteFile opens and truncates, then writes; then the rename.
AbrirTmp(q) ==
  LET f == obraCa[q].op.arq IN
  /\ obraCa[q].pc = "abrir"
  /\ discoCa' = [discoCa EXCEPT ![f].tmp = Vazio]
  /\ obraCa' = [obraCa EXCEPT ![q].pc = "escrever", ![q].fd = "tmp"]
  /\ UNCHANGED <<loteCa, memCa, dlgCa, abasCa, obsCa>>

\* Over what another wrote: the longer text leaves its tail.
Por(velho, novo) == IF velho.estado = "vazio" THEN {novo} ELSE {novo, Misto}
EscreverTmp(q) ==
  LET f == obraCa[q].op.arq  linhas == obraCa[q].linhas IN
  /\ obraCa[q].pc = "escrever"
  /\ CASE obraCa[q].fd = "tmp" ->
            \E c \in Por(discoCa[f].tmp, linhas) : discoCa' = [discoCa EXCEPT ![f].tmp = c]
       [] obraCa[q].fd = "ini" ->
            \E c \in Por(discoCa[f].ini, linhas) : discoCa' = [discoCa EXCEPT ![f].ini = c]
       [] OTHER -> UNCHANGED discoCa
  /\ obraCa' = [obraCa EXCEPT ![q].pc = "renomear"]
  /\ UNCHANGED <<loteCa, memCa, dlgCa, abasCa, obsCa>>

FalharEscrita(q) ==
  /\ obraCa[q].pc = "escrever" /\ obsCa.quedas < MaxQuedas
  /\ obsCa' = [obsCa EXCEPT !.quedas = @ + 1, !.falhou = TRUE]
  /\ Fim(q)
  /\ UNCHANGED <<discoCa, loteCa, memCa, dlgCa, abasCa>>

OutroFd(o, f) ==
  IF o.op.arq # f THEN o
  ELSE [o EXCEPT !.fd = IF @ = "tmp" THEN "ini" ELSE IF @ = "ini" THEN "solto" ELSE @]

\* No .tmp: another took it, and the operation ends in an error.
Renomear(q) ==
  LET op == obraCa[q].op  f == op.arq  t == discoCa[f].tmp
      d == [discoCa EXCEPT ![f].ini = t, ![f].tmp = SemTmp]
      resta == op.tipo \in DeGeral /\ obraCa[q].linhas.geral /\ ~discoCa[f].ini.geral IN
  /\ obraCa[q].pc = "renomear"
  /\ IF t.estado = "sem"
     THEN /\ Fim(q) /\ obsCa' = [obsCa EXCEPT !.falhou = TRUE]
          /\ UNCHANGED <<discoCa, memCa, dlgCa>>
     ELSE /\ discoCa' = d
          /\ obraCa' = [p \in Escritores |->
                          IF p # q THEN OutroFd(obraCa[p], f)
                          ELSE IF resta THEN [Parado EXCEPT !.pc = "ler", !.op = op] ELSE Parado]
          /\ obsCa' = IF resta THEN obsCa ELSE [obsCa EXCEPT !.devido[f] = Feito(@, op)]
          /\ memCa' = Recarregado(q, d)
          /\ dlgCa' = IF q = "laco" /\ dlgCa.tipo = "conexao" THEN SemDlg ELSE dlgCa
  /\ UNCHANGED <<loteCa, abasCa>>

(***************************************************************************)
(* Who begins one.                                                         *)
(***************************************************************************)
LacoLivre == ~Ocupado("laco")
SemDialogoCa == dlgCa.tipo = "nenhum"
NoDisco == UNCHANGED <<discoCa, loteCa, memCa, abasCa>>

\* The dialog of a connection begins with the connection as the Panel has it in
\* memory; or with the defaults; or, for a duplicate, with the fields of another
\* and the next name that the memory does not have.
AbrirDialogoCa(n, nova, base) ==
  /\ LacoLivre /\ SemDialogoCa /\ obsCa.ops < MaxOps
  /\ dlgCa' = [SemDlg EXCEPT !.tipo = "conexao", !.nova = nova, !.nome = n, !.base = base]
  /\ UNCHANGED <<discoCa, obraCa, loteCa, memCa, abasCa, obsCa>>

EditarConexao(n) == memCa.inv[n].ha /\ AbrirDialogoCa(n, FALSE, memCa.inv[n])
NovaConexao(n) == AbrirDialogoCa(n, TRUE, [Falta EXCEPT !.ronly = 1])
ProximoNome(n) == ~memCa.inv[n].ha
DuplicarConexao(n, origem) ==
  /\ memCa.inv[origem].ha /\ ProximoNome(n)
  /\ AbrirDialogoCa(n, TRUE, memCa.inv[origem])

SalvarDialogo(novo) ==
  /\ dlgCa.tipo = "conexao"
  /\ ComecarCa("laco",
       [tipo |-> IF dlgCa.nova THEN "criar" ELSE "salvar", arq |-> memCa.usado,
        nome |-> dlgCa.nome, novo |-> IF dlgCa.nova THEN dlgCa.nome ELSE novo,
        campos |-> [ronly |-> dlgCa.base.ronly, windows |-> -1, extras |-> 0]])
  /\ NoDisco /\ UNCHANGED dlgCa

CancelarDialogo ==
  /\ LacoLivre /\ ~SemDialogoCa
  /\ dlgCa' = SemDlg
  /\ UNCHANGED <<discoCa, obraCa, loteCa, memCa, abasCa, obsCa>>

RemoverConexao(n) ==
  /\ SemDialogoCa /\ memCa.inv[n].ha
  /\ ComecarCa("laco", [OpNula EXCEPT !.tipo = "remover", !.arq = memCa.usado, !.nome = n])
  /\ NoDisco /\ UNCHANGED dlgCa

\* lembrarGeral: a button of the top bar.
LembrarGeral ==
  /\ SemDialogoCa
  /\ ComecarCa("laco", [OpNula EXCEPT !.tipo = "tema", !.arq = memCa.usado])
  /\ NoDisco /\ UNCHANGED dlgCa

\* The settings keep the file that was in use when they opened.
AbrirAjustes ==
  /\ LacoLivre /\ SemDialogoCa
  /\ dlgCa' = [SemDlg EXCEPT !.tipo = "ajustes", !.emUso = memCa.usado]
  /\ UNCHANGED <<discoCa, obraCa, loteCa, memCa, abasCa, obsCa>>

TrocarAtalho ==
  /\ dlgCa.tipo = "ajustes"
  /\ ComecarCa("laco", [OpNula EXCEPT !.tipo = "tema", !.arq = dlgCa.emUso])
  /\ NoDisco /\ UNCHANGED dlgCa

\* The portal is asked by a goroutine, which writes what it answers, if it does.
TrocarAutostart ==
  /\ LacoLivre /\ dlgCa.tipo = "ajustes" /\ memCa.portal = "nenhum"
  /\ memCa' = [memCa EXCEPT !.portal = dlgCa.emUso]
  /\ UNCHANGED <<discoCa, obraCa, loteCa, dlgCa, abasCa, obsCa>>

ResponderPortal(ok) ==
  /\ memCa.portal # "nenhum"
  /\ memCa' = [memCa EXCEPT !.portal = "nenhum"]
  /\ IF ok THEN ComecarCa("lado", [OpNula EXCEPT !.tipo = "tema", !.arq = memCa.portal])
     ELSE UNCHANGED <<obraCa, obsCa>>
  /\ UNCHANGED <<discoCa, loteCa, dlgCa, abasCa>>

\* abrirConexao from the Panel: the tab is born with what is in memory.
AbrirAba(n) ==
  /\ LacoLivre /\ SemDialogoCa /\ memCa.inv[n].ha /\ abasCa = {}
  /\ abasCa' = {[nome |-> n, arq |-> memCa.usado, ronly |-> memCa.inv[n].ronly]}
  /\ obsCa' = [obsCa EXCEPT !.volta = @ \/
       (discoCa[memCa.usado].ini.secs[n].ha
        /\ Montar(discoCa[memCa.usado].ini.secs[n]).ronly # memCa.inv[n].ronly)]
  /\ UNCHANGED <<discoCa, obraCa, loteCa, memCa, dlgCa>>

\* gravarPreferencia: the file is the one in use now, whatever file the tab came
\* from; in the strip it is the loop that writes, in a window of its own not.
Preferencia(q, t) ==
  /\ q \in {"laco", "lado"} /\ (q = "laco" => SemDialogoCa)
  /\ ComecarCa(q, [tipo |-> "pref", arq |-> memCa.usado, nome |-> t.nome, novo |-> t.nome,
                   campos |-> [Nula EXCEPT !.ronly = 3 - t.ronly]])
  /\ abasCa' = (abasCa \ {t}) \union {[t EXCEPT !.ronly = 3 - @]}
  /\ UNCHANGED <<discoCa, loteCa, memCa, dlgCa>>

FecharAbaCa(t) ==
  /\ LacoLivre
  /\ abasCa' = abasCa \ {t}
  /\ UNCHANGED <<discoCa, obraCa, loteCa, memCa, dlgCa, obsCa>>

\* dlgPlataforma.rodar: the Lote, whose file is the one in use at the start.
DetectarPlataforma ==
  /\ LacoLivre /\ ~loteCa.ativo /\ obsCa.ops < MaxOps
  /\ loteCa' = [ativo |-> TRUE, arq |-> memCa.usado, copiado |-> FALSE]
  /\ obsCa' = [obsCa EXCEPT !.primeira = TRUE]
  /\ UNCHANGED <<discoCa, obraCa, memCa, dlgCa, abasCa>>

GravarPlataforma(s, n, v) ==
  /\ loteCa.ativo
  /\ ComecarCa(s, [tipo |-> "lote", arq |-> loteCa.arq, nome |-> n, novo |-> n,
                   campos |-> [Nula EXCEPT !.windows = v]])
  /\ NoDisco /\ UNCHANGED dlgCa

\* All the probes are in: the inventory is read again, from their goroutine.
FimDaDeteccao ==
  /\ loteCa.ativo /\ \A s \in Sondas : ~Ocupado(s)
  /\ loteCa' = [loteCa EXCEPT !.ativo = FALSE]
  /\ memCa' = [memCa EXCEPT !.inv = Carregar(discoCa[memCa.usado].ini)]
  /\ UNCHANGED <<discoCa, obraCa, dlgCa, abasCa, obsCa>>

\* recarregarIni of the top bar.
Recarregar ==
  /\ LacoLivre /\ memCa.inv # Carregar(discoCa[memCa.usado].ini)
  /\ memCa' = [memCa EXCEPT !.inv = Carregar(discoCa[memCa.usado].ini)]
  /\ UNCHANGED <<discoCa, obraCa, loteCa, dlgCa, abasCa, obsCa>>

\* trocarArquivoINI: the default file points to the directory of the new one.
TrocarArquivo(f) ==
  /\ dlgCa.tipo = "ajustes" /\ f # memCa.usado
  /\ memCa' = [memCa EXCEPT !.usado = f, !.inv = Carregar(discoCa[f].ini)]
  /\ ComecarCa("laco", [OpNula EXCEPT !.tipo = "caminho",
                          !.novo = IF f = Padrao THEN "nenhum" ELSE f])
  /\ UNCHANGED <<discoCa, loteCa, dlgCa, abasCa>>

\* caminhoINIPadrao: one hop, to the conexoes.ini of the directory pointed at.
LerCaminhoGeral == discoCa[Padrao].ini.caminho
CaminhoINIPadrao ==
  LET c == LerCaminhoGeral IN IF c \in Apontaveis THEN c ELSE Padrao

\* A crash, or the exit, and the start that follows.
Reiniciar ==
  /\ obsCa.quedas < MaxQuedas
  /\ obsCa' = [obsCa EXCEPT !.quedas = @ + 1]
  /\ obraCa' = [q \in Escritores |-> Parado]
  /\ loteCa' = [loteCa EXCEPT !.ativo = FALSE]
  /\ memCa' = [usado |-> CaminhoINIPadrao, inv |-> Carregar(discoCa[CaminhoINIPadrao].ini),
             portal |-> "nenhum"]
  /\ dlgCa' = SemDlg
  /\ abasCa' = {}
  /\ UNCHANGED discoCa

NextCa ==
  \/ \E q \in Escritores :
       \/ GuardarCopia(q) \/ Ler(q) \/ AbrirTmp(q) \/ EscreverTmp(q) \/ FalharEscrita(q)
       \/ Renomear(q)
       \/ \E t \in abasCa : Preferencia(q, t)
  \/ \E n \in Nomes :
       \/ RemoverConexao(n) \/ AbrirAba(n) \/ SalvarDialogo(n)
       \/ EditarConexao(n) \/ NovaConexao(n)
       \/ \E origem \in Nomes : DuplicarConexao(n, origem)
       \/ \E s \in Sondas, v \in 1..2 : GravarPlataforma(s, n, v)
  \/ \E t \in abasCa : FecharAbaCa(t)
  \/ \E f \in ArquivosCa : TrocarArquivo(f)
  \/ LembrarGeral \/ AbrirAjustes \/ TrocarAtalho \/ TrocarAutostart
  \/ \E ok \in BOOLEAN : ResponderPortal(ok)
  \/ CancelarDialogo \/ DetectarPlataforma \/ FimDaDeteccao \/ Recarregar \/ Reiniciar

SpecCa == InitCa /\ [][NextCa]_varsCa

(***************************************************************************)
(* Properties.                                                             *)
(***************************************************************************)
TiposCa ==
  /\ \A f \in ArquivosCa : /\ discoCa[f].ini.estado \in {"inteiro", "vazio", "misto"}
                           /\ discoCa[f].tmp.estado \in {"inteiro", "vazio", "misto", "sem"}
  /\ \A q \in Escritores : obraCa[q].pc \in {"fora", "copia", "ler", "abrir", "escrever", "renomear"}
  /\ memCa.usado \in ArquivosCa

\* "nunca deixa caminho num estado parcial" (iniutil.go 18-19): a start at any
\* moment finds a whole file.
IniInteiro == \A f \in ArquivosCa : discoCa[f].ini.estado = "inteiro"

\* The file has what was acknowledged, and nothing else, when nobody writes it.
Util(c) == <<c.secs, c.tema, c.caminho>>
Guardado ==
  \A f \in ArquivosCa :
    (\A q \in Escritores : Ocupado(q) => obraCa[q].op.arq # f)
      => Util(discoCa[f].ini) = Util(obsCa.devido[f])

\* The last copy of the history is the file as it was before the last operation
\* on connections, the probes of one detection being one (editar.go 108-125).
Desfazivel ==
  \A f \in ArquivosCa :
    discoCa[f].hist # <<>> => Last(discoCa[f].hist).secs = obsCa.antes[f].secs

\* Everything above, while the operations that do not share the lock of a Lote do
\* not overlap.
CadastroCerto ==
  obsCa.cruzou \/ obsCa.falhou \/ (IniInteiro /\ Guardado /\ Desfazivel)

\* The file chosen in the settings is the one of the next start (main.go 336-351):
\* of those that can be pointed at.
EscolhaLembrada ==
  LacoLivre /\ memCa.usado \in Apontaveis /\ ~obsCa.falhou /\ ~obsCa.cruzou
    => CaminhoINIPadrao = memCa.usado

\* The promises of the inventory and of the preferences, together.
CadastroInteiro == CadastroCerto /\ EscolhaLembrada

\* The same of any file.
EscolhaSempreLembrada ==
  LacoLivre /\ ~obsCa.falhou /\ ~obsCa.cruzou => CaminhoINIPadrao = memCa.usado

\* A preference ticked in the settings goes to the file the program is reading
\* (ajustesdlg.go 44-54).
PrefNoArquivoEmUso == dlgCa.tipo = "ajustes" => dlgCa.emUso = memCa.usado

\* "Quem marca somente leitura [...] espera achar assim na proxima vez"
\* (persistir.go 11-14): a tab is opened with what the file says.
AchaAssim == ~obsCa.volta
=============================================================================
