----------------------------- MODULE EntradaTela -----------------------------
(***************************************************************************)
(* The input of the operator on its way to the remote machines: the key    *)
(* callback of the Wayland grab with its queue and writer goroutine        *)
(* (entrada_linux.go, filateclas_linux.go), the key events of Gio          *)
(* elsewhere (entrada_outros.go), the pointer of the screen tabs, the menu *)
(* of special keys (teclas.go), and the inhibition of the compositor's     *)
(* shortcuts (janela.go).  A tab is "rdp", "vnc" or "ssh"; the panel takes *)
(* no raw keys.                                                            *)
(***************************************************************************)
EXTENDS Integers, Sequences, FiniteSets, SequencesExt

CONSTANTS
  Teclas,            \* the keys: Ctrl and F12 among them
  Combinacao,        \* one sequence of keys of the menu
  Botoes,            \* the buttons of the mouse
  Teto,              \* capacidadeFilaTeclas
  MaxTeclas,         \* bound: key events of the keyboard
  MaxPonteiro,       \* bound: pointer events
  MaxJuntos,         \* bound: events of the keyboard and of the pointer together
  MaxContexto        \* bound: changes of tab, dialog, field, connection, read-only

ASSUME EntradaAssumption ==
  /\ {"ctrl", "f12", "w"} \subseteq Teclas
  /\ Combinacao \in Seq(Teclas)
  /\ Teto \in Nat \ {0} /\ {MaxTeclas, MaxPonteiro, MaxJuntos, MaxContexto} \subseteq Nat

Remotas == {"rdp", "vnc", "ssh"}
Telas == {"rdp", "vnc"}

VARIABLES
  janelaEn,  \* the window: system, visible tab, dialog, field, grab, inhibition
  teclado,   \* keys held, ctrlDown, what the app was asked to do
  filaEn,    \* filaTeclas.fila, and the key the writer took out
  pontaEn,   \* per tab: the session is up, read-only, lastButtons
  remotoEn,  \* per tab: what the remote machine believes is held down
  limEn,     \* the bounds still available
  desviadas  \* history: releases the app, and not the queue, kept from a tab

varsEn == <<janelaEn, teclado, filaEn, pontaEn, remotoEn, limEn, desviadas>>

\* A tab in front, or the Panel; a VNC tab is born read-only or not.
InitEn ==
  /\ \E s \in {"linux", "outros"}, a \in Remotas \union {"painel"} :
       janelaEn = [sistema |-> s, aba |-> a, dialogo |-> FALSE, campo |-> FALSE,
                   grab |-> FALSE, ligada |-> FALSE, inibe |-> FALSE, desenhada |-> FALSE]
  /\ teclado = [presas |-> {}, ctrl |-> FALSE, pedidos |-> {}]
  /\ filaEn = [fila |-> <<>>, mao |-> <<>>]
  /\ \E so \in BOOLEAN :
       pontaEn = [a \in Remotas |-> [viva |-> TRUE, ronly |-> a = "vnc" /\ so, botoes |-> {}]]
  /\ remotoEn = [a \in Remotas |-> [teclas |-> {}, botoes |-> {}]]
  /\ limEn = [teclas |-> 0, ponteiro |-> 0, contexto |-> 0]
  /\ desviadas = {}

Evento(a, k, p) == [aba |-> a, tecla |-> k, aperta |-> p]

\* Variant: read-only is tested when the key is queued, and not when it is written.
HandleKeySemOlho(r, e) ==
  IF ~pontaEn[e.aba].viva THEN r
  ELSE [r EXCEPT ![e.aba].teclas = IF e.aperta THEN @ \union {e.tecla} ELSE @ \ {e.tecla}]

\* HandleKey: what the machine ends up holding.
HandleKey(r, e) ==
  LET a == e.aba IN
  IF ~pontaEn[a].viva \/ (a = "vnc" /\ pontaEn[a].ronly) THEN r
  ELSE [r EXCEPT ![a].teclas = IF e.aperta THEN @ \union {e.tecla} ELSE @ \ {e.tecla}]

\* A release HandleKey keeps back because the tab is read-only.
RetidaNaAba(e) == ~e.aperta /\ e.aba = "vnc" /\ pontaEn[e.aba].ronly

(***************************************************************************)
(* The queue.                                                              *)
(***************************************************************************)
Apertos(f) == {i \in DOMAIN f : f[i].aperta}

\* indicePrimeiroPress
PrimeiroPress(f) == CHOOSE i \in Apertos(f) : \A j \in Apertos(f) : i <= j

\* enfileirar: a full queue gives up its oldest press, never a release.
Enfileirar(f, e) ==
  IF Len(f) < Teto THEN Append(f, e)
  ELSE IF Apertos(f) # {} THEN Append(RemoveAt(f, PrimeiroPress(f)), e)
  ELSE IF e.aperta THEN f
  ELSE Append(f, e)

\* rodar: takes the head out, and writes it with the lock released.
Tirar ==
  /\ filaEn.mao = <<>> /\ filaEn.fila # <<>>
  /\ filaEn' = [fila |-> Tail(filaEn.fila), mao |-> <<Head(filaEn.fila)>>]
  /\ UNCHANGED <<janelaEn, teclado, pontaEn, remotoEn, limEn, desviadas>>

Escrever ==
  /\ filaEn.mao # <<>>
  /\ LET e == filaEn.mao[1] IN
       /\ remotoEn' = HandleKey(remotoEn, e)
       /\ desviadas' = IF RetidaNaAba(e) THEN desviadas \union {<<e.aba, e.tecla>>} ELSE desviadas
  /\ filaEn' = [filaEn EXCEPT !.mao = <<>>]
  /\ UNCHANGED <<janelaEn, teclado, pontaEn, limEn>>

(***************************************************************************)
(* The keyboard.                                                           *)
(***************************************************************************)
Fisica(k, p) == [teclado EXCEPT !.presas = IF p THEN @ \union {k} ELSE @ \ {k},
                                !.ctrl = IF k = "ctrl" THEN p ELSE @]
ParaOApp == janelaEn.dialogo \/ janelaEn.campo
Remoto == janelaEn.aba \in Remotas
\* A release that starts on a machine that holds the key and goes elsewhere.
Desvio(k, p) == IF p THEN {} ELSE
  {<<a, k>> : a \in {x \in Remotas : \/ x # janelaEn.aba \/ ParaOApp
                                     \/ janelaEn.sistema = "outros" /\ pontaEn[x].ronly}}

CabeEn == limEn.teclas + limEn.ponteiro < MaxJuntos
TeclaPossivel(k, p) ==
  /\ limEn.teclas < MaxTeclas /\ CabeEn
  /\ p # (k \in teclado.presas)
  /\ limEn' = [limEn EXCEPT !.teclas = @ + 1]
  /\ desviadas' = desviadas \union Desvio(k, p)
  /\ UNCHANGED <<janelaEn, pontaEn>>

\* F12 with no modifier is the sidebar's, wherever the focus is.
F12Limpo(k, p) == k = "f12" /\ p /\ "ctrl" \notin teclado.presas

Pedir(t, o) == [t EXCEPT !.pedidos = @ \union {o}]

\* The callback of grab.Start: F12, dialogs and fields, the shortcuts of the
\* app outside a session, and the queue.
TeclarLinux(k, p) ==
  /\ janelaEn.sistema = "linux" /\ janelaEn.grab
  /\ TeclaPossivel(k, p)
  /\ LET t == Fisica(k, p) IN
     \/ /\ F12Limpo(k, p)
        /\ teclado' = Pedir(t, "lateral") /\ UNCHANGED filaEn
     \/ /\ ~F12Limpo(k, p) /\ ~ParaOApp /\ ~Remoto /\ k = "w" /\ p /\ t.ctrl
        /\ teclado' = Pedir(t, "fechar") /\ UNCHANGED filaEn
     \/ /\ ~F12Limpo(k, p) /\ ~ParaOApp /\ Remoto
        /\ teclado' = t
        /\ filaEn' = [filaEn EXCEPT !.fila = Enfileirar(@, Evento(janelaEn.aba, k, p))]
     \/ /\ ~F12Limpo(k, p)
        /\ ParaOApp \/ (~Remoto /\ ~(k = "w" /\ p /\ t.ctrl))
        /\ teclado' = t /\ UNCHANGED filaEn
  /\ UNCHANGED remotoEn

\* tratarTecladoFrame: inside a frame, with no queue; ctrlDown is only noted
\* while the keyboard is a session's.
TeclarOutros(k, p) ==
  /\ janelaEn.sistema = "outros"
  /\ TeclaPossivel(k, p)
  /\ LET t == Fisica(k, p) IN
     \/ /\ ParaOApp \/ ~Remoto
        /\ teclado' = [t EXCEPT !.ctrl = teclado.ctrl] /\ UNCHANGED remotoEn
     \/ /\ ~ParaOApp /\ Remoto /\ F12Limpo(k, p)
        /\ teclado' = Pedir(t, "lateral") /\ UNCHANGED remotoEn
     \/ /\ ~ParaOApp /\ Remoto /\ ~F12Limpo(k, p)
        /\ teclado' = t
        /\ remotoEn' = HandleKey(remotoEn, Evento(janelaEn.aba, k, p))
  /\ UNCHANGED filaEn

\* enviarCombinacao, chosen in the menu: pressed in order, released backwards,
\* straight to the child.  The menu of a read-only tab has no action.
EnviarCombinacao(a) ==
  /\ a \in Telas /\ limEn.teclas < MaxTeclas /\ CabeEn /\ janelaEn.aba = a
  /\ pontaEn[a].viva /\ ~pontaEn[a].ronly
  /\ remotoEn' = [remotoEn EXCEPT ![a].teclas = @ \ ToSet(Combinacao)]
  /\ limEn' = [limEn EXCEPT !.teclas = @ + 1]
  /\ UNCHANGED <<janelaEn, teclado, filaEn, pontaEn, desviadas>>

(***************************************************************************)
(* The pointer.                                                            *)
(***************************************************************************)
\* rdpTab.HandlePointer: only the buttons that changed since the last event.
PonteiroRdp(bs) ==
  /\ janelaEn.aba = "rdp" /\ limEn.ponteiro < MaxPonteiro /\ CabeEn
  /\ pontaEn["rdp"].viva
  /\ LET mudou == (bs \ pontaEn["rdp"].botoes) \union (pontaEn["rdp"].botoes \ bs) IN
       remotoEn' = [remotoEn EXCEPT !["rdp"].botoes = (@ \ mudou) \union (bs \intersect mudou)]
  /\ pontaEn' = [pontaEn EXCEPT !["rdp"].botoes = bs]
  /\ limEn' = [limEn EXCEPT !.ponteiro = @ + 1]
  /\ UNCHANGED <<janelaEn, teclado, filaEn, desviadas>>

\* vncTab.HandlePointer: the whole mask, and the wheel as a click of a button
\* of its own, pressed and released.
PonteiroVnc(bs) ==
  /\ janelaEn.aba = "vnc" /\ limEn.ponteiro < MaxPonteiro /\ CabeEn
  /\ pontaEn["vnc"].viva /\ ~pontaEn["vnc"].ronly
  /\ remotoEn' = [remotoEn EXCEPT !["vnc"].botoes = bs]
  /\ limEn' = [limEn EXCEPT !.ponteiro = @ + 1]
  /\ UNCHANGED <<janelaEn, teclado, filaEn, pontaEn, desviadas>>

(***************************************************************************)
(* The window.                                                             *)
(***************************************************************************)
Contexto == /\ limEn.contexto < MaxContexto
            /\ limEn' = [limEn EXCEPT !.contexto = @ + 1]

MudarContexto ==
  /\ Contexto
  /\ \/ \E a \in (Remotas \union {"painel"}) \ {janelaEn.aba} :
          janelaEn' = [janelaEn EXCEPT !.aba = a, !.desenhada = FALSE]
     \/ janelaEn' = [janelaEn EXCEPT !.dialogo = ~@, !.desenhada = FALSE]
     \/ janelaEn' = [janelaEn EXCEPT !.campo = ~@, !.desenhada = FALSE]
  /\ UNCHANGED <<teclado, filaEn, pontaEn, remotoEn, desviadas>>

\* btnOlho of the VNC tab.
AlternarOlho ==
  /\ Contexto
  /\ pontaEn' = [pontaEn EXCEPT !["vnc"].ronly = ~@]
  /\ UNCHANGED <<janelaEn, teclado, filaEn, remotoEn, desviadas>>

\* The session drops or comes back; a new one holds nothing, and lastButtons
\* of the tab stays.
CairOuVoltar(a) ==
  /\ Contexto
  /\ pontaEn' = [pontaEn EXCEPT ![a].viva = ~@]
  /\ remotoEn' = [remotoEn EXCEPT ![a] = [teclas |-> {}, botoes |-> {}]]
  /\ UNCHANGED <<janelaEn, teclado, filaEn, desviadas>>

\* The first valid view starts the grab.
CriarGrab ==
  /\ janelaEn.sistema = "linux" /\ ~janelaEn.grab
  /\ janelaEn' = [janelaEn EXCEPT !.grab = TRUE, !.desenhada = FALSE]
  /\ UNCHANGED <<teclado, filaEn, pontaEn, remotoEn, limEn, desviadas>>

\* atualizarInibicao, once per frame.
Quer == janelaEn.aba \in Telas /\ ~ParaOApp

AtualizarInibicao ==
  /\ ~janelaEn.desenhada
  /\ janelaEn' = [janelaEn EXCEPT !.desenhada = TRUE,
                    !.ligada = IF janelaEn.grab THEN Quer ELSE @,
                    !.inibe = IF janelaEn.grab /\ Quer # janelaEn.ligada THEN Quer ELSE @]
  /\ UNCHANGED <<teclado, filaEn, pontaEn, remotoEn, limEn, desviadas>>

NextEn ==
  \/ Tirar \/ Escrever
  \/ \E k \in Teclas, p \in BOOLEAN : TeclarLinux(k, p) \/ TeclarOutros(k, p)
  \/ \E a \in Telas : EnviarCombinacao(a)
  \/ \E bs \in SUBSET Botoes : PonteiroRdp(bs) \/ PonteiroVnc(bs)
  \/ MudarContexto \/ AlternarOlho \/ CriarGrab \/ AtualizarInibicao
  \/ \E a \in Remotas : CairOuVoltar(a)

SpecEn == InitEn /\ [][NextEn]_varsEn

TiposEn ==
  /\ filaEn.fila \in Seq([aba : Remotas, tecla : Teclas, aperta : BOOLEAN])
  /\ Len(filaEn.mao) <= 1
  /\ teclado.presas \subseteq Teclas /\ teclado.ctrl \in BOOLEAN
  /\ pontaEn \in [Remotas -> [viva : BOOLEAN, ronly : BOOLEAN, botoes : SUBSET Botoes]]
  /\ remotoEn \in [Remotas -> [teclas : SUBSET Teclas, botoes : SUBSET Botoes]]

(***************************************************************************)
(* Properties.                                                             *)
(***************************************************************************)
ACaminho(a, k) == Evento(a, k, FALSE) \in ToSet(filaEn.fila) \union ToSet(filaEn.mao)

\* filateclas_linux.go:101: however full the queue, a key the operator let go
\* is never left held on the remote machine: its release is still on its way.
\* The releases a dialog, a field, another tab or read-only kept are apart.
SoltarNaoSePerde ==
  \A a \in Remotas : \A k \in remotoEn[a].teclas \ teclado.presas :
    ACaminho(a, k) \/ <<a, k>> \in desviadas

\* janela.go:83: once drawn, the window holds the compositor's shortcuts
\* exactly while a remote screen has the keyboard, even when the grab was
\* born after the first frames.
InibicaoAcompanha ==
  janelaEn.desenhada => janelaEn.inibe = (janelaEn.grab /\ Quer)

\* vnctab.go:421: nothing reaches the machine of a read-only tab, and what was
\* queued before the button is not delivered after it.
NadaNaSomenteLeitura ==
  pontaEn["vnc"].ronly /\ pontaEn["vnc"].viva /\ pontaEn'["vnc"].viva
    => remotoEn'["vnc"] = remotoEn["vnc"]
SomenteLeitura == [][NadaNaSomenteLeitura]_varsEn

\* The promises of the input, together.
EntradaCerta == [](SoltarNaoSePerde /\ InibicaoAcompanha) /\ SomenteLeitura
=============================================================================
