----------------------------- MODULE MCJanela -----------------------------
(***************************************************************************)
(* An instance, for TLC, of three parts of the window: the tabs, their     *)
(* strip and the windows of their own, the panel, and the search box.      *)
(*                                                                         *)
(* They share no variable. caso, chosen at the start, is the part that     *)
(* runs; the others keep their initial state. One run checks them all, and *)
(* its behaviours are those of each part, one by one.                      *)
(***************************************************************************)
EXTENDS Janelas, Painel, Busca

VARIABLE caso

Maquina(n, g, h, ps, po) ==
  [nome |-> n, grupo |-> g, host |-> h, protos |-> ps, porta |-> po, descricao |-> ""]
\* Two names of one host, and a group inside another.
AsFichas == {Maquina("m1", <<"loja">>, "h1", {"vnc"}, 1),
             Maquina("m2", <<"loja", "pdv">>, "h2", {"ssh"}, 2),
             Maquina("m3", <<"loja">>, "h1", {"rdp"}, 3)}
FichasDoInicio == {x \in AsFichas : x.nome # "m3"}
PortasAbertas == {<<"h1", 1>>}

Digitado(t, f, c) ==
  [prefixo |-> "", usuario |-> "", porta |-> 0, host |-> t, forma |-> f, casa |-> c]
OsTextos == {Digitado("m", "nome", {"m1", "m2"}), Digitado("m2", "endereco", {"m2"})}
OsProtos == [m \in {"m1", "m2"} |-> IF m = "m1" THEN {"vnc", "ssh"} ELSE {"rdp"}]
NoArquivo == <<"m1", "m2">>

-----------------------------------------------------------------------------
InitJanela == /\ caso \in {"janelas", "painel", "busca"}
              /\ InitJa /\ InitPa /\ InitBu

NextJanela ==
  /\ UNCHANGED caso
  /\ \/ caso = "janelas" /\ NextTira /\ UNCHANGED <<varsPa, varsBu>>
     \/ caso = "painel" /\ NextPa /\ UNCHANGED <<varsJa, varsBu>>
     \/ caso = "busca" /\ NextBu /\ UNCHANGED <<varsJa, varsPa>>

\* The fairness of each part (JusticaJa, JusticaPa, JusticaBu), asked of the part
\* that runs.
JusticaJanela ==
  /\ WF_varsJa(caso = "janelas" /\ DrenarFila) /\ WF_varsJa(caso = "janelas" /\ Dormir)
  /\ WF_varsJa(caso = "janelas" /\ AcordarPelaFila) /\ WF_varsJa(caso = "janelas" /\ CloseActive)
  /\ WF_varsJa(caso = "janelas" /\ PassarTira) /\ WF_varsJa(caso = "janelas" /\ FecharQuadro)
  /\ WF_varsJa(caso = "janelas" /\ FecharTira) /\ WF_varsJa(caso = "janelas" /\ FecharDestacadas)
  /\ \A a \in IdsJa :
       /\ WF_varsJa(caso = "janelas" /\ Desmarcar(a)) /\ SF_varsJa(caso = "janelas" /\ DevolverAba(a))
       /\ WF_varsJa(caso = "janelas" /\ EncerrarJanela(a)) /\ WF_varsJa(caso = "janelas" /\ NascerJanela(a))
  /\ WF_varsPa(caso = "painel" /\ \E s \in Sondadores : Responder(s))
  /\ WF_varsPa(caso = "painel" /\ \E s \in Sondadores : Pegar(s))
  /\ WF_varsBu(caso = "busca" /\ LacoDaBusca) /\ WF_varsBu(caso = "busca" /\ PrazoFoco)
  /\ WF_varsBu(caso = "busca" /\ TokenOuDesiste)

varsJanela == <<caso, varsJa, varsPa, varsBu>>

\* What tells two states apart: the variables of the part that runs. Those of the
\* others never leave the one initial state they have.
Visao == <<caso, IF caso = "janelas" THEN varsJa ELSE IF caso = "painel" THEN varsPa ELSE varsBu>>

SpecJanela == InitJanela /\ [][NextJanela]_varsJanela /\ JusticaJanela

\* What is true of the three parts in every state: no session without a tab or a
\* window, one probe for each host, and a choice of the search box sent once
\* (tabbar.go, janela.go, dashtab.go, buscapop.go).
JanelaCerta == /\ TiposJa /\ JanelasCertas
               /\ TiposPa /\ PainelCerto
               /\ TiposBu /\ BuscaCerta

\* Who waits for an answer has one: a host in the queue of the probes, and a box
\* of the search that never got the focus (dashtab.go, buscapop.go).
EsperasAcabam == SondaResponde /\ SemFocoFecha
=============================================================================
