------------------------------- MODULE Janelas -------------------------------
(***************************************************************************)
(* The strip of tabs, the loop of the main window that owns it, and those  *)
(* who are not that loop and yet have something for it: the windows of     *)
(* detached sessions (janelasessao.go), the search box (buscapop.go), a    *)
(* second invocation of the program and the dialog that opens a whole      *)
(* group of machines.  What a tab does is elsewhere; here a tab is opened, *)
(* shown, detached, given back and closed.  Tab 0 is the Panel.            *)
(***************************************************************************)
EXTENDS Integers, Sequences, SequencesExt, FiniteSetsExt

CONSTANTS
  Chaves,      \* what a connection is: protocol, group and name of the machine
  Destacaveis, \* the keys whose tab can have a window of its own (vnc, rdp)
  NoCofre,     \* the keys whose password is in the vault
  MaxAbas,     \* bound: tabs ever opened
  Teto,        \* room of filaJanela (16)
  MaxPedidos,  \* bound: requests of the search box and of second invocations
  MaxGrupos    \* bound: openings of a group from its dialog

ASSUME JanelasAssumption ==
  /\ Destacaveis \subseteq Chaves /\ NoCofre \subseteq Chaves
  /\ {MaxAbas, Teto} \subseteq Nat \ {0} /\ {MaxPedidos, MaxGrupos} \subseteq Nat

VARIABLES
  tiraJa,    \* tabBar: the tabs in order and idx, counted from 1
  abaJa,     \* for every tab ever opened: key, alive, where its window stands
  destJa,    \* abasDestacadas
  filaJa,    \* filaJanela
  lacoJa,    \* the loop: where it is, a frame asked for, the marked tab, Ctrl+W
  modalJa,   \* the dialog on screen; the vault is open
  grupoJa,   \* the goroutine of dlgGrupo.abrir
  limJa      \* bounds used up

varsJa == <<tiraJa, abaJa, destJa, filaJa, lacoJa, modalJa, grupoJa, limJa>>

Painel == 0
IdsJa == 1..MaxAbas
SemChave == "sem"
NaTira == ToSet(tiraJa.abas)
Ativa == tiraJa.abas[tiraJa.idx]
Vivas == {a \in IdsJa : abaJa[a].viva}
Vago == {a \in IdsJa : abaJa[a].fase = "nunca"}

InitJa ==
  /\ tiraJa = [abas |-> <<Painel>>, idx |-> 1]
  /\ abaJa = [a \in IdsJa |-> [chave |-> SemChave, viva |-> FALSE, fase |-> "nunca"]]
  /\ destJa = {} /\ filaJa = <<>>
  /\ lacoJa = [fase |-> "topo", pedido |-> TRUE, marca |-> Painel, fechar |-> FALSE]
  /\ modalJa = [modal |-> "nenhum", cofre |-> FALSE]
  /\ grupoJa = [fase |-> "fora", chave |-> SemChave, lidas |-> <<>>, aba |-> Painel,
                fundo |-> FALSE]
  /\ limJa = [pedidos |-> 0, grupos |-> 0, prazo |-> {}]

(***************************************************************************)
(* The strip (tabbar.go).                                                  *)
(***************************************************************************)
\* append, which focuses; appendFundo puts idx back.
Acrescentar(t, a) == [abas |-> Append(t.abas, a), idx |-> Len(t.abas) + 1]
AcrescentarFundo(t, a) == [Acrescentar(t, a) EXCEPT !.idx = t.idx]

Selecionar(t, i) == IF i \in DOMAIN t.abas THEN [t EXCEPT !.idx = i] ELSE t

\* Variant: the place shown is not brought back into the strip.
SemPosicaoParada(t, i) == [t EXCEPT !.abas = RemoveAt(@, i)]

SemPosicao(t, i) ==
  LET resto == RemoveAt(t.abas, i) IN
  [abas |-> resto, idx |-> IF t.idx > Len(resto) THEN Len(resto) ELSE t.idx]

\* fechar and retirar refuse the Panel.
PodeSair(i) == i \in DOMAIN tiraJa.abas /\ tiraJa.abas[i] # Painel

Fechar(i) ==
  /\ PodeSair(i)
  /\ abaJa' = [abaJa EXCEPT ![tiraJa.abas[i]].viva = FALSE]
  /\ tiraJa' = SemPosicao(tiraJa, i)

Retirar(i) ==
  /\ PodeSair(i)
  /\ tiraJa' = SemPosicao(tiraJa, i)

(***************************************************************************)
(* Opening (abrir.go).                                                     *)
(***************************************************************************)
ComChave(c) == {i \in DOMAIN tiraJa.abas :
                  tiraJa.abas[i] # Painel /\ abaJa[tiraJa.abas[i]].chave = c}

Nova(c, a) == [abaJa EXCEPT ![a] = [chave |-> c, viva |-> TRUE, fase |-> "tira"]]

\* newTab may fail (bad port, no memory for another session): nothing opens.
CriarAba(c, fundo) ==
  \/ UNCHANGED <<tiraJa, abaJa>>
  \/ \E a \in Vago :
       /\ a = Min(Vago)
       /\ abaJa' = Nova(c, a)
       /\ tiraJa' = IF fundo THEN AcrescentarFundo(tiraJa, a) ELSE Acrescentar(tiraJa, a)

\* abrirConexao: the tab that has the key is shown; a vault that is locked is
\* asked about, and the dialog remembers which connection to open; or, when its
\* section is only in the keyring, nothing happens.
AbrirConexao(c, fundo, m) ==
  IF ComChave(c) # {}
  THEN /\ tiraJa' = Selecionar(tiraJa, Min(ComChave(c)))
       /\ modalJa' = m /\ UNCHANGED abaJa
  ELSE IF c \in NoCofre /\ ~m.cofre
  THEN modalJa' \in {m, [m EXCEPT !.modal = c]} /\ UNCHANGED <<tiraJa, abaJa>>
  ELSE CriarAba(c, fundo) /\ modalJa' = m

(***************************************************************************)
(* The loop (main.go).  At its top it empties the queue, then waits for an *)
(* event; Invalidate asks for a frame.                                     *)
(***************************************************************************)
Pede(l) == [l EXCEPT !.pedido = TRUE]

\* What a second invocation may ask for: a machine by its name, specifications
\* of its command line, which open a tab that has no key of its own.
AplicarPedidoDeAbrir(p) ==
  IF p.tipo = "maquina"
  THEN AbrirConexao(p.chave, grupoJa.fundo, modalJa)
  ELSE CriarAba(SemChave, FALSE) /\ UNCHANGED modalJa

\* The request queued by devolverAba.
RecolocarAba(a) ==
  /\ tiraJa' = Acrescentar(tiraJa, a)
  /\ abaJa' = [abaJa EXCEPT ![a].fase = "tira"]
  /\ UNCHANGED modalJa

DrenarFila ==
  /\ lacoJa.fase = "topo" /\ filaJa # <<>>
  /\ filaJa' = Tail(filaJa)
  /\ LET p == Head(filaJa) IN
     IF p.tipo = "devolver" THEN RecolocarAba(p.aba) ELSE AplicarPedidoDeAbrir(p)
  /\ lacoJa' = Pede(lacoJa)
  /\ UNCHANGED <<destJa, grupoJa, limJa>>

Dormir ==
  /\ lacoJa.fase = "topo" /\ filaJa = <<>>
  /\ lacoJa' = [lacoJa EXCEPT !.fase = "dorme"]
  /\ UNCHANGED <<tiraJa, abaJa, destJa, filaJa, modalJa, grupoJa, limJa>>

\* An event that is no frame: a wakeup, a ConfigEvent, input that asks for one.
Acordar ==
  /\ lacoJa.fase = "dorme"
  /\ \/ lacoJa' = [lacoJa EXCEPT !.fase = "topo"]
     \/ lacoJa' = Pede([lacoJa EXCEPT !.fase = "topo"])
  /\ UNCHANGED <<tiraJa, abaJa, destJa, filaJa, modalJa, grupoJa, limJa>>

\* The queue is seen by the loop when Invalidate wakes it.
AcordarPelaFila ==
  /\ lacoJa.fase = "dorme" /\ filaJa # <<>>
  /\ lacoJa' = [lacoJa EXCEPT !.fase = "topo"]
  /\ UNCHANGED <<tiraJa, abaJa, destJa, filaJa, modalJa, grupoJa, limJa>>

\* pendingCloseActive: Ctrl+W, noted by the goroutine of the keyboard capture.
PedirFechar ==
  /\ lacoJa.fase # "saiu"
  /\ lacoJa' = Pede([lacoJa EXCEPT !.fechar = TRUE])
  /\ UNCHANGED <<tiraJa, abaJa, destJa, filaJa, modalJa, grupoJa, limJa>>

(***************************************************************************)
(* A frame: the button of the full screen, Ctrl+W, the strip, the content, *)
(* the dialogs and the menu, and at the end the mark of the tab drawn.     *)
(***************************************************************************)
AbrirQuadro ==
  /\ lacoJa.fase = "dorme" /\ lacoJa.pedido
  /\ lacoJa' = [lacoJa EXCEPT !.fase = "botoes", !.pedido = FALSE]
  /\ UNCHANGED <<tiraJa, abaJa, destJa, filaJa, modalJa, grupoJa, limJa>>

\* destacar and abrirJanelaSessao: out of the strip, without a Close.
Destacar ==
  /\ lacoJa.fase = "botoes"
  /\ Ativa # Painel /\ abaJa[Ativa].chave \in Destacaveis
  /\ Retirar(tiraJa.idx)
  /\ destJa' = destJa \union {Ativa}
  /\ abaJa' = [abaJa EXCEPT ![Ativa].fase = "nasce"]
  /\ UNCHANGED <<filaJa, lacoJa, modalJa, grupoJa, limJa>>

CloseActive ==
  /\ lacoJa.fase = "botoes"
  /\ lacoJa' = [lacoJa EXCEPT !.fase = "tira", !.fechar = FALSE]
  /\ IF lacoJa.fechar /\ PodeSair(tiraJa.idx) THEN Fechar(tiraJa.idx)
     ELSE UNCHANGED <<tiraJa, abaJa>>
  /\ UNCHANGED <<destJa, filaJa, modalJa, grupoJa, limJa>>

ClicarAba(i) ==
  /\ lacoJa.fase = "tira" /\ modalJa.modal = "nenhum"
  /\ tiraJa' = Selecionar(tiraJa, i)
  /\ UNCHANGED <<abaJa, destJa, filaJa, lacoJa, modalJa, grupoJa, limJa>>

\* rolagem: one notch of the wheel over the strip.
Rolar(passo) ==
  /\ lacoJa.fase = "tira" /\ modalJa.modal = "nenhum"
  /\ tiraJa' = Selecionar(tiraJa, tiraJa.idx + passo)
  /\ UNCHANGED <<abaJa, destJa, filaJa, lacoJa, modalJa, grupoJa, limJa>>

\* The X of a tab, or the middle button over it.
FecharAba(i) ==
  /\ lacoJa.fase = "tira" /\ modalJa.modal = "nenhum"
  /\ Fechar(i)
  /\ UNCHANGED <<destJa, filaJa, lacoJa, modalJa, grupoJa, limJa>>

PassarTira ==
  /\ lacoJa.fase = "tira"
  /\ lacoJa' = [lacoJa EXCEPT !.fase = "conteudo"]
  /\ UNCHANGED <<tiraJa, abaJa, destJa, filaJa, modalJa, grupoJa, limJa>>

\* abrirEm: a card of the Panel, with the middle button without focus.
ClicarCartao(c, fundo) ==
  /\ lacoJa.fase = "conteudo" /\ Ativa = Painel /\ modalJa.modal = "nenhum"
  /\ AbrirConexao(c, fundo, modalJa)
  /\ lacoJa' = Pede(lacoJa)
  /\ UNCHANGED <<destJa, filaJa, grupoJa, limJa>>

\* The vault opens and the connection that waited for it is opened, always with
\* focus: abrirEmSegundoPlano was put back long ago.  Or the dialog is given up.
AbrirCofre(c) ==
  /\ lacoJa.fase = "conteudo" /\ modalJa.modal = c /\ c \in Chaves
  /\ AbrirConexao(c, grupoJa.fundo, [modal |-> "nenhum", cofre |-> TRUE])
  /\ lacoJa' = Pede(lacoJa)
  /\ UNCHANGED <<destJa, filaJa, grupoJa, limJa>>

FecharDialogo ==
  /\ lacoJa.fase = "conteudo" /\ modalJa.modal # "nenhum"
  /\ modalJa' = [modalJa EXCEPT !.modal = "nenhum"]
  /\ UNCHANGED <<tiraJa, abaJa, destJa, filaJa, lacoJa, grupoJa, limJa>>

\* One slot: another dialog (the runner's question, from its goroutine) takes it.
TomarDialogo ==
  /\ lacoJa.fase # "saiu" /\ modalJa.modal \in Chaves
  /\ modalJa' = [modalJa EXCEPT !.modal = "outro"]
  /\ UNCHANGED <<tiraJa, abaJa, destJa, filaJa, lacoJa, grupoJa, limJa>>

\* marcarAbaAtiva, after e.Frame.
FecharQuadro ==
  /\ lacoJa.fase = "conteudo"
  /\ lacoJa' = [lacoJa EXCEPT !.fase = "topo", !.marca = Ativa]
  /\ UNCHANGED <<tiraJa, abaJa, destJa, filaJa, modalJa, grupoJa, limJa>>

(***************************************************************************)
(* The window of a detached session, on its own goroutine.                 *)
(***************************************************************************)
PorFase(a, de, para) ==
  /\ abaJa[a].fase = de /\ lacoJa.fase # "saiu"
  /\ abaJa' = [abaJa EXCEPT ![a].fase = para, ![a].viva = @ /\ para # "fechada"]

NascerJanela(a) ==
  /\ PorFase(a, "nasce", "aberta")
  /\ UNCHANGED <<tiraJa, destJa, filaJa, lacoJa, modalJa, grupoJa, limJa>>

\* The X of its bar sets encerrar; giving it back, the X of the compositor and a
\* contained panic do not.
FecharJanela(a, encerrar) ==
  /\ PorFase(a, "aberta", IF encerrar THEN "encerra" ELSE "devolve")
  /\ UNCHANGED <<tiraJa, destJa, filaJa, lacoJa, modalJa, grupoJa, limJa>>

\* The defer of laco: forget the window, and then close or give back.
Desmarcar(a) ==
  /\ a \in destJa /\ abaJa[a].fase \in {"encerra", "devolve"} /\ lacoJa.fase # "saiu"
  /\ destJa' = destJa \ {a}
  /\ UNCHANGED <<tiraJa, abaJa, filaJa, lacoJa, modalJa, grupoJa, limJa>>

EncerrarJanela(a) ==
  /\ a \notin destJa
  /\ PorFase(a, "encerra", "fechada")
  /\ UNCHANGED <<tiraJa, destJa, filaJa, lacoJa, modalJa, grupoJa, limJa>>

\* Variant: naJanelaPrincipal, which does not insist: a full queue loses the tab.
DevolverSemInsistir(a) ==
  /\ a \notin destJa
  /\ PorFase(a, "devolve", "transito")
  /\ filaJa' = IF Len(filaJa) >= Teto THEN filaJa
               ELSE Append(filaJa, [tipo |-> "devolver", aba |-> a, chave |-> SemChave])
  /\ lacoJa' = Pede(lacoJa)
  /\ UNCHANGED <<tiraJa, destJa, modalJa, grupoJa, limJa>>

\* naJanelaPrincipalInsistindo waits for room, ten seconds.
DevolverAba(a) ==
  /\ a \notin destJa /\ Len(filaJa) < Teto
  /\ PorFase(a, "devolve", "transito")
  /\ filaJa' = Append(filaJa, [tipo |-> "devolver", aba |-> a, chave |-> SemChave])
  /\ lacoJa' = Pede(lacoJa)
  /\ UNCHANGED <<tiraJa, destJa, modalJa, grupoJa, limJa>>

PrazoDaVaga(a) ==
  /\ a \notin destJa /\ Len(filaJa) >= Teto
  /\ PorFase(a, "devolve", "perdida")
  /\ limJa' = [limJa EXCEPT !.prazo = @ \union {a}]
  /\ UNCHANGED <<tiraJa, destJa, filaJa, lacoJa, modalJa, grupoJa>>

(***************************************************************************)
(* The others.                                                             *)
(***************************************************************************)
\* naJanelaPrincipal, for the search box and the socket: no room, no opening.
PedirAbrir(p) ==
  /\ lacoJa.fase # "saiu" /\ limJa.pedidos < MaxPedidos
  /\ limJa' = [limJa EXCEPT !.pedidos = @ + 1]
  /\ IF Len(filaJa) < Teto THEN filaJa' = Append(filaJa, p) /\ lacoJa' = Pede(lacoJa)
     ELSE UNCHANGED <<filaJa, lacoJa>>
  /\ UNCHANGED <<tiraJa, abaJa, destJa, modalJa, grupoJa>>

PedidosJa == [tipo : {"maquina"}, chave : Chaves, aba : {Painel}]
             \union [tipo : {"specs"}, chave : {SemChave}, aba : {Painel}]

\* dlgGrupo: the Ok starts a goroutine that opens machine after machine, in the
\* strip itself: it reads the strip, builds the tab, and writes the strip back.
AbrirGrupo(c) ==
  /\ lacoJa.fase = "conteudo" /\ grupoJa.fase = "fora" /\ limJa.grupos < MaxGrupos
  /\ limJa' = [limJa EXCEPT !.grupos = @ + 1]
  /\ grupoJa' = [grupoJa EXCEPT !.fase = "comeca", !.chave = c]
  /\ UNCHANGED <<tiraJa, abaJa, destJa, filaJa, lacoJa, modalJa>>

GrupoLer ==
  /\ grupoJa.fase = "comeca" /\ lacoJa.fase # "saiu"
  /\ IF ComChave(grupoJa.chave) # {} \/ Vago = {}
        \/ (grupoJa.chave \in NoCofre /\ ~modalJa.cofre)
     THEN grupoJa' = [grupoJa EXCEPT !.fase = "fora"] /\ UNCHANGED abaJa
     ELSE LET a == Min(Vago) IN
          /\ abaJa' = Nova(grupoJa.chave, a)
          /\ grupoJa' = [grupoJa EXCEPT !.fase = "grava", !.lidas = tiraJa.abas,
                                        !.aba = a, !.fundo = TRUE]
  /\ UNCHANGED <<tiraJa, destJa, filaJa, lacoJa, modalJa, limJa>>

GrupoGravar ==
  /\ grupoJa.fase = "grava" /\ lacoJa.fase # "saiu"
  /\ tiraJa' = [tiraJa EXCEPT !.abas = Append(grupoJa.lidas, grupoJa.aba)]
  /\ grupoJa' = [grupoJa EXCEPT !.fase = "fora", !.lidas = <<>>, !.fundo = FALSE]
  /\ lacoJa' = Pede(lacoJa)
  /\ UNCHANGED <<abaJa, destJa, filaJa, modalJa, limJa>>

(***************************************************************************)
(* The end: DestroyEvent leaves the loop; every tab of the strip is        *)
(* closed, then every detached one, and the process exits.                 *)
(***************************************************************************)
Destruir ==
  /\ lacoJa.fase = "dorme"
  /\ lacoJa' = [lacoJa EXCEPT !.fase = "fecha"]
  /\ UNCHANGED <<tiraJa, abaJa, destJa, filaJa, modalJa, grupoJa, limJa>>

FecharTira ==
  /\ lacoJa.fase = "fecha"
  /\ abaJa' = [a \in IdsJa |-> [abaJa[a] EXCEPT !.viva = @ /\ a \notin NaTira]]
  /\ lacoJa' = [lacoJa EXCEPT !.fase = "fecha2"]
  /\ UNCHANGED <<tiraJa, destJa, filaJa, modalJa, grupoJa, limJa>>

AbasForaDaTira == destJa
FecharDestacadas ==
  /\ lacoJa.fase = "fecha2"
  /\ abaJa' = [a \in IdsJa |-> [abaJa[a] EXCEPT !.viva = @ /\ a \notin AbasForaDaTira]]
  /\ lacoJa' = [lacoJa EXCEPT !.fase = "saiu"]
  /\ UNCHANGED <<tiraJa, destJa, filaJa, modalJa, grupoJa, limJa>>

\* Everyone but the goroutine of a group, which is the only one to touch the strip
\* from outside the loop.
NextTira ==
  \/ DrenarFila \/ Dormir \/ Acordar \/ AcordarPelaFila \/ PedirFechar
  \/ AbrirQuadro \/ Destacar \/ CloseActive \/ PassarTira \/ FecharQuadro
  \/ FecharDialogo \/ TomarDialogo
  \/ \E i \in DOMAIN tiraJa.abas : ClicarAba(i) \/ FecharAba(i)
  \/ \E passo \in {-1, 1} : Rolar(passo)
  \/ \E c \in Chaves : AbrirCofre(c) \/ \E fundo \in BOOLEAN : ClicarCartao(c, fundo)
  \/ \E a \in IdsJa : \/ NascerJanela(a) \/ Desmarcar(a) \/ EncerrarJanela(a)
                      \/ DevolverAba(a) \/ PrazoDaVaga(a)
                      \/ \E encerrar \in BOOLEAN : FecharJanela(a, encerrar)
  \/ \E p \in PedidosJa : PedirAbrir(p)
  \/ Destruir \/ FecharTira \/ FecharDestacadas

NextJa == NextTira \/ GrupoLer \/ GrupoGravar \/ \E c \in Chaves : AbrirGrupo(c)

\* The loops of the windows run. A window of its own that closed waits in a send
\* on the queue: a channel serves its senders in order, so the room that comes and
\* goes is one of these times its own, and its fairness is the strong one.
JusticaJa ==
  /\ WF_varsJa(DrenarFila) /\ WF_varsJa(Dormir)
  /\ WF_varsJa(AcordarPelaFila) /\ WF_varsJa(CloseActive)
  /\ WF_varsJa(PassarTira) /\ WF_varsJa(FecharQuadro)
  /\ WF_varsJa(FecharTira) /\ WF_varsJa(FecharDestacadas)
  /\ \A a \in IdsJa :
       /\ WF_varsJa(Desmarcar(a)) /\ SF_varsJa(DevolverAba(a))
       /\ WF_varsJa(EncerrarJanela(a)) /\ WF_varsJa(NascerJanela(a))
SpecJa == InitJa /\ [][NextJa]_varsJa /\ JusticaJa

(***************************************************************************)
(* Properties.                                                             *)
(***************************************************************************)
FasesJa == {"nunca", "tira", "nasce", "aberta", "encerra", "devolve", "transito",
            "fechada", "perdida"}

TiposJa ==
  /\ tiraJa.abas \in Seq(0..MaxAbas) /\ tiraJa.idx \in Nat
  /\ abaJa \in [IdsJa -> [chave : Chaves \union {SemChave}, viva : BOOLEAN, fase : FasesJa]]
  /\ destJa \subseteq IdsJa /\ Len(filaJa) <= Teto
  /\ lacoJa.fase \in {"topo", "dorme", "botoes", "tira", "conteudo", "fecha", "fecha2", "saiu"}
  /\ modalJa.modal \in Chaves \union {"nenhum", "outro"}

\* The strip begins with the Panel, shows a tab that exists, has no tab twice,
\* and shares none with the windows of their own (tabbar.go 56-60, janela.go).
TiraCoerente ==
  /\ tiraJa.abas[1] = Painel /\ tiraJa.idx \in DOMAIN tiraJa.abas
  /\ IsInjective(tiraJa.abas)
  /\ NaTira \intersect destJa = {}
  /\ lacoJa.fase \notin {"fecha2", "saiu"} => \A a \in NaTira \ {Painel} : abaJa[a].viva

\* A session that lives can be reached: it is in the strip, in a window, or in
\* the hands of the goroutine that gives it back or builds it; the ten seconds
\* are the only way to lose one (janela.go 205-211, filajanela.go 44-51).
EmTransito(a) ==
  \/ abaJa[a].fase \in {"encerra", "devolve", "transito"}
  \/ abaJa[a].fase = "perdida" /\ a \in limJa.prazo
  \/ grupoJa.fase = "grava" /\ grupoJa.aba = a
SemOrfa ==
  \A a \in Vivas : a \in NaTira \/ a \in destJa \/ EmTransito(a)

\* When the process exits, every session was told to close but those whose window
\* was in the act of giving them back (main.go 369-378).
SoEmTransito == lacoJa.fase = "saiu" => \A a \in Vivas : EmTransito(a)

\* A loop that sleeps with no frame asked for has marked the tab that is shown:
\* the requests of that tab for a redraw are the ones let through
\* (main.go 899-916, invalidar.go).
MarcaCerta ==
  lacoJa.fase = "dorme" /\ ~lacoJa.pedido => lacoJa.marca = Ativa

JanelasCertas == TiraCoerente /\ SemOrfa /\ SoEmTransito /\ MarcaCerta

\* A tab whose window was closed to give it back is back in the strip in the end,
\* unless the ten seconds ran out or the program ended (filajanela.go 44-58).
DevolucaoChega ==
  \A a \in IdsJa :
    abaJa[a].fase = "devolve" ~> (a \in NaTira \/ a \in limJa.prazo
                                  \/ ~abaJa[a].viva \/ lacoJa.fase = "saiu")

\* What the comments say of keys: the same connection is never open twice
\* (abrir.go 113-115, main.go 633-639).
UmaPorChave ==
  \A a, b \in Vivas : a # b /\ abaJa[a].chave = abaJa[b].chave => abaJa[a].chave = SemChave
=============================================================================
