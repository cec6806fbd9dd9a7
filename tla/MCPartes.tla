----------------------------- MODULE MCPartes -----------------------------
(***************************************************************************)
(* An instance, for TLC, of the parts of the program whose promises are    *)
(* safety: the input queue, the SFTP tab, the terminal, the secrets, the   *)
(* keys of the servers, the inventory, the updater, the single instance,   *)
(* the global shortcut and the deadlines of the mass execution.            *)
(*                                                                         *)
(* These parts share no variable. caso, chosen at the start, is the part   *)
(* that runs; the others keep one initial state. One run checks them all   *)
(* and its behaviours are those of each part, one by one.                  *)
(***************************************************************************)
EXTENDS EntradaTela, Transferencia, TerminalSsh, Confianca, Cadastro, Atualizador,
        Instancia, AtalhoGlobal, Calibragem

VARIABLE caso

CtrlF12 == <<"ctrl", "f12">>
\* Two windows of one version, or one newer than the service the other one started.
AsVersoes == {[a \in {"a1", "a2"} |-> IF a = "a2" THEN n ELSE 1] : n \in {1, 2}}
\* In half seconds: around every step of the ladder and of the rounding.
AsDuracoes == {1, 9, 10, 11, 59, 60, 61, 120, 121, 400, 3600}
AsConexoes == {1, 6, 7, 19, 21, 40}

\* An SSH and an SFTP tab of one server, and an RDP tab of another.
OsHosts == [t1 |-> "h1", t2 |-> "h1", t3 |-> "h2"]
LinhaDe(h, forma) == [hosts |-> {h}, chave |-> "k1", forma |-> forma]
\* No known_hosts, one with a line nobody can read, one with a hashed name.
OsArquivos == {[existe |-> FALSE, linhas |-> <<>>],
               [existe |-> TRUE, linhas |-> <<LinhaDe("h1", "clara"), LinhaDe("h2", "ruim")>>],
               [existe |-> TRUE, linhas |-> <<LinhaDe("h1", "hash"), LinhaDe("h2", "clara")>>]}

Casos == {"entrada", "sftp", "terminal", "segredos", "cadastro", "atualizador", "instancia",
          "atalho", "prazos", "chaves"}

-----------------------------------------------------------------------------
\* A part that does not run starts in one of its initial states, always the same.
Quieto(c, simples) == caso = c \/ simples

\* The SSH tab and one of the others, the RDP one with a certificate kept or not.
DuasAbas ==
  /\ ~abaCh["t1"].fechada /\ abaCh["t2"].fechada # abaCh["t3"].fechada
  /\ certCh["h2"] \in IF abaCh["t3"].fechada THEN {{}} ELSE {{}, {"k2"}}

\* The input begins on the Panel, or on the VNC tab; of the rest, one state.
NaFrente ==
  /\ ~pontaEn["vnc"].ronly
  /\ <<janelaEn.sistema, janelaEn.aba>> \in
       IF caso = "entrada" THEN {<<"linux", "painel">>, <<"linux", "vnc">>, <<"outros", "painel">>}
       ELSE {<<"linux", "painel">>}

\* The choice among releases and the cleaning of the installers do not meet.
ListaOuDisco == Len(mundoAt.lista) <= 1 \/ discoAt = <<>>

InitPartes ==
  /\ caso \in Casos
  /\ InitEn /\ NaFrente
  /\ InitTr /\ InitTe /\ InitCa
  /\ IF caso = "segredos" THEN InitSe ELSE InitSe /\ iniSe.cofre = 0 /\ ~chSe.existe
  /\ InitIn /\ Quieto("instancia", \A a \in Apps : appIn[a].versao = 1)
  /\ InitAg /\ Quieto("atalho", lacoAg.modo = "app")
  /\ Init
  /\ InitCh /\ (\A h \in HostsCh : servCh[h] = "k1") /\ certCh["h1"] = {}
  /\ IF caso = "chaves" THEN DuasAbas
     ELSE ~arqCh.existe /\ (\A a \in AbasCh : abaCh[a].fechada) /\ certCh["h2"] = {}
  /\ InitAt /\ Quieto("atualizador", mundoAt.so = "fora" /\ mundoAt.lista = <<>>) /\ ListaOuDisco

\* Of the SFTP tab, any two of these: a copy or deletion, a second one, a new connection,
\* a change of path.  Three, the first operation with the last two, on one machine only.
AosPares ==
  LET m0 == CHOOSE m \in Maquinas : TRUE IN
  \/ limTr'.conexoes + limTr'.navega + limTr'.ops <= 2
  \/ limTr'.ops = 1 /\ abaTr'.host = m0 /\ tentTr'.host = m0

NextPartes ==
  /\ UNCHANGED caso
  /\ \/ /\ caso = "entrada" /\ NextEn
        /\ UNCHANGED <<varsTr, varsTe, varsSe, varsCa, varsAt, varsIn, varsAg, varsCh, vars>>
     \/ /\ caso = "sftp" /\ NextTr /\ AosPares
        /\ UNCHANGED <<varsEn, varsTe, varsSe, varsCa, varsAt, varsIn, varsAg, varsCh, vars>>
     \/ /\ caso = "terminal" /\ NextTe
        /\ UNCHANGED <<varsEn, varsTr, varsSe, varsCa, varsAt, varsIn, varsAg, varsCh, vars>>
     \/ /\ caso = "segredos" /\ NextSe
        /\ UNCHANGED <<varsEn, varsTr, varsTe, varsCa, varsAt, varsIn, varsAg, varsCh, vars>>
     \/ /\ caso = "cadastro" /\ NextCa
        /\ UNCHANGED <<varsEn, varsTr, varsTe, varsSe, varsAt, varsIn, varsAg, varsCh, vars>>
     \/ /\ caso = "atualizador" /\ NextAt
        /\ UNCHANGED <<varsEn, varsTr, varsTe, varsSe, varsCa, varsIn, varsAg, varsCh, vars>>
     \/ /\ caso = "instancia" /\ NextIn
        /\ UNCHANGED <<varsEn, varsTr, varsTe, varsSe, varsCa, varsAt, varsAg, varsCh, vars>>
     \/ /\ caso = "atalho" /\ NextAg
        /\ UNCHANGED <<varsEn, varsTr, varsTe, varsSe, varsCa, varsAt, varsIn, varsCh, vars>>
     \/ /\ caso = "prazos" /\ Next
        /\ UNCHANGED <<varsEn, varsTr, varsTe, varsSe, varsCa, varsAt, varsIn, varsAg, varsCh>>
     \/ /\ caso = "chaves" /\ NextCh
        /\ UNCHANGED <<varsEn, varsTr, varsTe, varsSe, varsCa, varsAt, varsIn, varsAg, vars>>

varsPartes == <<caso, varsEn, varsTr, varsTe, varsSe, varsCa, varsAt, varsIn, varsAg, varsCh, vars>>

\* What tells two states apart: the variables of the part that runs; those of the others
\* never leave the one initial state they have.  Of an SFTP tab that was closed, not its
\* panel and its listings, which nobody reads any more.  Of the terminal, but for the mode of the
\* paste and the marks of its history, that neither a step nor a property here reads but
\* to set those marks, and for what is left in mouseBotaoRel by a gesture that is over
\* and in the ends of a selection that is neither shown nor being made, which are
\* written before they are read again.  Of the inventory, with its two probes
\* as a set, for they are alike, and until its promise is off, which is for good.
VisaoCa ==
  IF obsCa.cruzou \/ obsCa.falhou THEN <<"fora">>
  ELSE <<discoCa, obraCa["laco"], obraCa["lado"], {obraCa[s] : s \in Sondas},
         loteCa, memCa, dlgCa, abasCa, obsCa>>

VisaoTr ==
  <<abaTr, tentTr, dlgTr, copias, discos, limTr,
    IF abaTr.fechado THEN <<>> ELSE <<painelTr, leituras>>>>

VisaoTe ==
  <<sessTe, telaTe, gestoTe.botao, gestoTe.relatando, gestoTe.ativa, gestoTe.arrastando,
    IF gestoTe.relatando \/ progTe.segura # {} THEN gestoTe.rel ELSE "nada",
    IF gestoTe.ativa \/ gestoTe.arrastando THEN <<gestoTe.a, gestoTe.b>> ELSE <<>>,
    progTe.modo \ {"colar"}, progTe.pediu \ {"colar"}, progTe.segura,
    modsTe, obsTe.cruzou>>

Visao ==
  <<caso, CASE caso = "entrada" -> varsEn [] caso = "sftp" -> VisaoTr
            [] caso = "terminal" -> VisaoTe
            [] caso = "segredos" -> varsSe
            [] caso = "cadastro" -> VisaoCa [] caso = "atualizador" -> varsAt
            [] caso = "instancia" -> varsIn [] caso = "atalho" -> varsAg
            [] caso = "chaves" -> varsCh
            [] caso = "prazos" -> vars>>

SpecPartes == InitPartes /\ [][NextPartes]_varsPartes

\* The part that runs keeps the types of its variables.
TiposPartes ==
  CASE caso = "entrada" -> TiposEn [] caso = "sftp" -> TiposTr
    [] caso = "terminal" -> TiposTe [] caso = "segredos" -> TiposSe
    [] caso = "cadastro" -> TiposCa [] caso = "atualizador" -> TiposAt
    [] caso = "instancia" -> TiposIn [] caso = "atalho" -> TiposAg
    [] caso = "chaves" -> TiposCh [] caso = "prazos" -> TypeOK
=============================================================================
