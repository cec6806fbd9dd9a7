------------------------------ MODULE MCTelas ------------------------------
(***************************************************************************)
(* An instance, for TLC, of three parts of the screen sessions: one tab    *)
(* with its reconnection, of each kind (SessaoRemota), the resize of an    *)
(* RDP session, and the clipboard.                                         *)
(*                                                                         *)
(* They share no variable. caso, chosen at the start, is the part that     *)
(* runs; the others keep their initial state. One run checks them all, and *)
(* its behaviours are those of each part, one by one.                      *)
(***************************************************************************)
EXTENDS SessaoRemota, ResizeRdp, ClipboardTela

CONSTANTS tela, shell, a1, a2

VARIABLE caso

AsAbas == {tela, shell}
ASSUME TelasAssumption == AsAbas \subseteq Abas
Dona == IF caso = "shell" THEN shell ELSE tela
Sessoes == caso \in {"tela", "shell"}

InitTelas ==
  /\ caso \in {"tela", "shell", "resize", "clip"}
  /\ Init /\ (\A a \in AsAbas : auto[a] => Sessoes /\ a = Dona)
  /\ InitRz /\ InitCl

\* The tab of the case; the other one does nothing.
NextSessao == LET a == Dona IN
  \/ Reserva(a) \/ Conexao(a) \/ Vigia(a) \/ VelhaSai(a)
  \/ Sessao(a) \/ Saida(a) \/ Gerencia(a) \/ Operador(a)

NextTelas ==
  /\ UNCHANGED caso
  /\ \/ Sessoes /\ NextSessao /\ UNCHANGED <<varsRz, varsCl>>
     \/ caso = "resize" /\ NextRz /\ UNCHANGED <<vars, varsCl>>
     \/ caso = "clip" /\ NextCl /\ UNCHANGED <<vars, varsRz>>

\* The fairness of each part (Justica, JusticaRz, JusticaCl), asked of the part
\* that runs.
Vale(a) == Sessoes /\ a = Dona
JusticaTelas ==
  /\ \A a \in AsAbas :
       /\ WF_vars(Vale(a) /\ Reserva(a))
       /\ WF_vars(Vale(a) /\ DesistirDaChave(a)) /\ WF_vars(Vale(a) /\ Vigia(a))
       /\ WF_vars(Vale(a) /\ VelhaSai(a)) /\ WF_vars(Vale(a) /\ LerErro(a))
       /\ WF_vars(Vale(a) /\ Saida(a)) /\ WF_vars(Vale(a) /\ Gerencia(a))
  /\ WF_varsRz(caso = "resize" /\ Layout) /\ WF_varsRz(caso = "resize" /\ DispararResize)
  /\ WF_varsRz(caso = "resize" /\ LerEvento) /\ WF_varsRz(caso = "resize" /\ Conectar)
  /\ WF_varsRz(caso = "resize" /\ LerCmd) /\ WF_varsRz(caso = "resize" /\ DespacharDispPronto)
  /\ WF_varsRz(caso = "resize" /\ ConferirResize) /\ WF_varsRz(caso = "resize" /\ (Obedecer \/ Ignorar))
  /\ \A f \in Fios : WF_varsRz(caso = "resize" /\ DoFio(f))
  /\ WF_varsCl(caso = "clip" /\ EntregarClipboard)
  /\ \A t \in TextosCl : WF_varsCl(caso = "clip" /\ LerOferta(t))
  /\ \A a \in AbasTela :
       /\ WF_varsCl(caso = "clip" /\ LerCache(a)) /\ WF_varsCl(caso = "clip" /\ EvtConectado(a))
       /\ WF_varsCl(caso = "clip" /\ EvtClipboard(a)) /\ WF_varsCl(caso = "clip" /\ AplicarNoRemoto(a))
       /\ \A t \in TextosCl : WF_varsCl(caso = "clip" /\ OferecerLido(a, t))

varsTelas == <<caso, vars, varsRz, varsCl>>

\* What tells two states apart: the variables of the part that runs. Those of the
\* others never leave the one initial state they have.  Of the clipboard, until two
\* copies crossed, which is for good: nothing is promised after that.
Visao == <<caso, IF Sessoes THEN vars ELSE IF caso = "resize" THEN varsRz
                 ELSE IF disputa THEN <<"fora">> ELSE varsCl>>

SpecTelas == InitTelas /\ [][NextTelas]_varsTelas /\ JusticaTelas

\* Every part keeps the types of its variables.
TiposTelas == TypeOK /\ TiposRz /\ TiposCl
=============================================================================
