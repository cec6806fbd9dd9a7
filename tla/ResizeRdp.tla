------------------------------ MODULE ResizeRdp ------------------------------
(***************************************************************************)
(* How the size of an RDP tab reaches the server: the debounce of the tab  *)
(* (rdptab.go), the command of the parent, the child that keeps a refused  *)
(* request and repeats an ignored one (telaworker_rdp.go), the Display     *)
(* Control channel (rdpshim.c) and a server that obeys, ignores or is not  *)
(* ready yet.  A size stands for both axes; 0 is image.Point{}.            *)
(***************************************************************************)
EXTENDS Integers, Sequences, FiniteSets

CONSTANTS
  Tamanhos,          \* the sizes the area of the tab takes
  MinimoResize,      \* tamanhoMinimoResize
  MinDisplay,        \* DISPLAY_CONTROL_MIN_MONITOR_WIDTH
  MaxDisplay,        \* DISPLAY_CONTROL_MAX_MONITOR_WIDTH
  AreaMax,           \* what DisplayControlCaps allows
  Padrao,            \* the size of a session born with no size of its own
  ResizeTentativas,  \* resizeTentativas
  MaxIncidentes,     \* bound: changes of size, deaths of the child and closings of
                     \* the Display Control channel, together
  MaxLayouts         \* bound: layouts on their way to the server

ASSUME ResizeAssumption ==
  /\ Tamanhos \subseteq Nat \ {0} /\ Tamanhos # {}
  /\ {MinimoResize, MinDisplay, MaxDisplay, AreaMax, Padrao} \subseteq Nat \ {0}
  /\ MinDisplay <= MaxDisplay
  /\ {ResizeTentativas, MaxIncidentes, MaxLayouts} \subseteq Nat

VARIABLES
  abaRz,    \* rdptab: the size drawn and what was asked
  filhoRz,  \* workerRDP: pending, target, current, attempts, deadline, channel
  fiosRz,   \* the three callers of pedirResize: command loop, channel, deadline
  redeRz,   \* commands and events of the socket, layouts on their way
  limRz,    \* the incidents so far
  obsRz     \* history: sizes sent to the server since the tab last asked for one

varsRz == <<abaRz, filhoRz, fiosRz, redeRz, limRz, obsRz>>

Fios == {"laco", "disp", "prazo"}
Parado == [fase |-> "livre", valor |-> 0]

\* ajustar_tamanho: clamped to what Display Control takes, and even.
Ajustar(t) ==
  LET g == IF t < MinDisplay THEN MinDisplay ELSE IF t > MaxDisplay THEN MaxDisplay ELSE t
  IN g - (g % 2)

\* tamanhoAba, and the size the session is born with (rs_definir_tamanho).
TamanhoDeNascer(t) == IF t < MinimoResize THEN Padrao ELSE Ajustar(t)

FilhoNovo(t) == [vivo |-> FALSE, canal |-> FALSE, pronto |-> FALSE,
                 pend |-> 0, alvo |-> 0, atual |-> TamanhoDeNascer(t),
                 tentativas |-> 0, confere |-> FALSE]

InitRz ==
  /\ \E t \in Tamanhos :
       /\ abaRz = [tam |-> t, ultimo |-> 0, alvo |-> 0, armado |-> FALSE, proc |-> FALSE,
                   religando |-> TRUE]
       /\ filhoRz = FilhoNovo(t)
  /\ fiosRz = [f \in Fios |-> Parado]
  /\ redeRz = [cmds |-> <<>>, evts |-> <<>>, layouts |-> <<>>]
  /\ limRz = 0
  /\ obsRz = {}

\* The bound of the model.
Incidente == limRz < MaxIncidentes /\ limRz' = limRz + 1

(***************************************************************************)
(* The tab.                                                                *)
(***************************************************************************)
\* The user drags the border of the window.
Redimensionar(t) ==
  /\ t # abaRz.tam /\ Incidente
  /\ abaRz' = [abaRz EXCEPT !.tam = t]
  /\ UNCHANGED <<filhoRz, fiosRz, redeRz, obsRz>>

\* Layout in the dynamic mode, pedirResizeComDebounce included; a frame that
\* asks nothing is a stutter.
Layout ==
  /\ abaRz.proc /\ abaRz.tam >= MinimoResize /\ abaRz.tam # abaRz.ultimo
  /\ abaRz' = [abaRz EXCEPT !.alvo = abaRz.tam, !.armado = TRUE]
  /\ UNCHANGED <<filhoRz, fiosRz, redeRz, limRz, obsRz>>

\* dispararResize, 200 ms after the last change of target: the process is the
\* one there is then, if any.
DispararResize ==
  /\ abaRz.armado
  /\ abaRz' = [abaRz EXCEPT !.ultimo = abaRz.alvo, !.armado = FALSE]
  /\ redeRz' = IF abaRz.proc THEN [redeRz EXCEPT !.cmds = Append(@, abaRz.alvo)] ELSE redeRz
  /\ obsRz' = {}
  /\ UNCHANGED <<filhoRz, fiosRz, limRz>>

\* lacoEventos, as far as the size is concerned.
LerEvento ==
  /\ redeRz.evts # <<>>
  /\ LET e == Head(redeRz.evts) IN
       abaRz' = CASE e = "conectado"     -> [abaRz EXCEPT !.proc = TRUE]
                  [] e = "displayPronto" -> [abaRz EXCEPT !.ultimo = 0]
  /\ redeRz' = [redeRz EXCEPT !.evts = Tail(@)]
  /\ UNCHANGED <<filhoRz, fiosRz, limRz, obsRz>>

\* The child dies; aoTerminar drops the process.
CairRz ==
  /\ filhoRz.vivo /\ Incidente
  /\ abaRz' = [abaRz EXCEPT !.proc = FALSE, !.religando = TRUE]
  /\ filhoRz' = FilhoNovo(abaRz.tam)
  /\ fiosRz' = [f \in Fios |-> Parado]
  /\ redeRz' = [cmds |-> <<>>, evts |-> <<>>, layouts |-> <<>>]
  /\ obsRz' = {}

\* antesDeConectar forgets what was asked; the new child is told the size of
\* the tab and connects.
Conectar ==
  /\ abaRz.religando
  /\ abaRz' = [abaRz EXCEPT !.ultimo = 0, !.religando = FALSE]
  /\ filhoRz' = [FilhoNovo(abaRz.tam) EXCEPT !.vivo = TRUE]
  /\ redeRz' = [redeRz EXCEPT !.evts = <<"conectado">>]
  /\ UNCHANGED <<fiosRz, limRz, obsRz>>

(***************************************************************************)
(* The child.                                                              *)
(***************************************************************************)
\* rs_pedir_resize, called by pedirResize: the test and the use of the
\* channel are one section; the answer is noted later, under resizeMu.
Aceita(t) == filhoRz.canal /\ Ajustar(t) <= AreaMax

Pedir(f, t) ==
  /\ Len(redeRz.layouts) < MaxLayouts
  /\ fiosRz' = [fiosRz EXCEPT ![f] = IF Aceita(t) THEN [fase |-> "aceito", valor |-> Ajustar(t)]
                                     ELSE [fase |-> "recusado", valor |-> t]]
  /\ obsRz' = IF Aceita(t) THEN obsRz \union {Ajustar(t)} ELSE obsRz

Layouts(t) == IF Aceita(t) THEN Append(redeRz.layouts, Ajustar(t)) ELSE redeRz.layouts

LerCmd ==
  /\ filhoRz.vivo /\ redeRz.cmds # <<>> /\ fiosRz["laco"].fase = "livre"
  /\ LET t == Head(redeRz.cmds) IN
       /\ Pedir("laco", t)
       /\ redeRz' = [redeRz EXCEPT !.cmds = Tail(@), !.layouts = Layouts(t)]
  /\ UNCHANGED <<abaRz, filhoRz, limRz>>

\* The channel's goroutine and the deadline's carry a size they read earlier.
PedirLido(f) ==
  /\ fiosRz[f].fase = "pedir"
  /\ Pedir(f, fiosRz[f].valor)
  /\ redeRz' = [redeRz EXCEPT !.layouts = Layouts(fiosRz[f].valor)]
  /\ UNCHANGED <<abaRz, filhoRz, limRz>>


\* pedirResize after the answer of the shim, under resizeMu.
AnotarAceito(f) ==
  /\ fiosRz[f].fase = "aceito"
  /\ LET t == fiosRz[f].valor IN
       filhoRz' = [filhoRz EXCEPT !.pend = 0, !.alvo = t, !.confere = TRUE,
                                  !.tentativas = (IF t = filhoRz.alvo THEN @ ELSE 0) + 1]
  /\ fiosRz' = [fiosRz EXCEPT ![f] = Parado]
  /\ UNCHANGED <<abaRz, redeRz, limRz, obsRz>>

AnotarRecusado(f) ==
  /\ fiosRz[f].fase = "recusado"
  /\ filhoRz' = [filhoRz EXCEPT !.pend = fiosRz[f].valor]
  /\ fiosRz' = [fiosRz EXCEPT ![f] = Parado]
  /\ UNCHANGED <<abaRz, redeRz, limRz, obsRz>>

\* conferirResize: reads under the lock, asks after it.
Insiste(c) == /\ c.alvo # 0 /\ c.atual # c.alvo
              /\ c.tentativas < ResizeTentativas

ConferirResize ==
  /\ filhoRz.confere /\ fiosRz["prazo"].fase = "livre"
  /\ filhoRz' = [filhoRz EXCEPT !.confere = FALSE]
  /\ fiosRz' = IF Insiste(filhoRz)
               THEN [fiosRz EXCEPT !["prazo"] = [fase |-> "pedir", valor |-> filhoRz.alvo]]
               ELSE fiosRz
  /\ UNCHANGED <<abaRz, redeRz, limRz, obsRz>>

\* despacharDispPronto: the event goes up, the kept request is read, and asked
\* after that.
DespacharDispPronto ==
  /\ filhoRz.pronto /\ fiosRz["disp"].fase = "livre"
  /\ filhoRz' = [filhoRz EXCEPT !.pronto = FALSE]
  /\ redeRz' = [redeRz EXCEPT !.evts = Append(@, "displayPronto")]
  /\ fiosRz' = IF filhoRz.pend > 0
               THEN [fiosRz EXCEPT !["disp"] = [fase |-> "pedir", valor |-> filhoRz.pend]]
               ELSE fiosRz
  /\ UNCHANGED <<abaRz, limRz, obsRz>>

(***************************************************************************)
(* The Display Control channel and the server.                             *)
(***************************************************************************)
\* hook_disp_caps, and OnDisplayPronto into its slot of one.
AbrirCanal ==
  /\ filhoRz.vivo /\ ~filhoRz.canal
  /\ filhoRz' = [filhoRz EXCEPT !.canal = TRUE, !.pronto = TRUE]
  /\ UNCHANGED <<abaRz, fiosRz, redeRz, limRz, obsRz>>

FecharCanal ==
  /\ filhoRz.canal /\ Incidente
  /\ filhoRz' = [filhoRz EXCEPT !.canal = FALSE]
  /\ UNCHANGED <<abaRz, fiosRz, redeRz, obsRz>>

\* hook_desktop_resize and OnResize.
Obedecer ==
  /\ redeRz.layouts # <<>>
  /\ filhoRz' = [filhoRz EXCEPT !.atual = Head(redeRz.layouts)]
  /\ redeRz' = [redeRz EXCEPT !.layouts = Tail(@)]
  /\ UNCHANGED <<abaRz, fiosRz, limRz, obsRz>>

\* "aceitar o pedido no canal e simplesmente nao redimensionar": a server
\* busy with a logon, or one of fixed size, for ever.
Ignorar ==
  /\ redeRz.layouts # <<>>
  /\ redeRz' = [redeRz EXCEPT !.layouts = Tail(@)]
  /\ UNCHANGED <<abaRz, filhoRz, fiosRz, limRz, obsRz>>

DaAba == Layout \/ DispararResize \/ LerEvento \/ Conectar
DoFio(f) == PedirLido(f) \/ AnotarAceito(f) \/ AnotarRecusado(f)
DoFilho == LerCmd \/ ConferirResize \/ DespacharDispPronto

NextRz ==
  \/ \E t \in Tamanhos : Redimensionar(t)
  \/ DaAba
  \/ CairRz
  \/ \E f \in Fios : DoFio(f)
  \/ DoFilho
  \/ AbrirCanal \/ FecharCanal \/ Obedecer \/ Ignorar

\* Every goroutine runs and every deadline comes; the server either obeys or
\* ignores.
JusticaRz ==
  /\ WF_varsRz(Layout) /\ WF_varsRz(DispararResize)
  /\ WF_varsRz(LerEvento) /\ WF_varsRz(Conectar)
  /\ WF_varsRz(LerCmd) /\ WF_varsRz(DespacharDispPronto)
  /\ WF_varsRz(ConferirResize) /\ WF_varsRz((Obedecer \/ Ignorar))
  /\ \A f \in Fios : WF_varsRz(DoFio(f))
SpecRz == InitRz /\ [][NextRz]_varsRz /\ JusticaRz

TiposRz ==
  /\ abaRz.tam \in Tamanhos /\ abaRz.ultimo \in Tamanhos \union {0}
  /\ abaRz.alvo \in Tamanhos \union {0}
  /\ {abaRz.armado, abaRz.proc, abaRz.religando} \subseteq BOOLEAN
  /\ fiosRz \in [Fios -> [fase : {"livre", "pedir", "aceito", "recusado"}, valor : Nat]]
  /\ {filhoRz.pend, filhoRz.alvo, filhoRz.atual, filhoRz.tentativas} \subseteq Nat
  /\ abaRz.proc => filhoRz.vivo

(***************************************************************************)
(* Properties.                                                             *)
(***************************************************************************)
\* resizeTentativas (telaworker_rdp.go:71): a server that never takes the
\* size is not asked for ever: with the tab at rest the deadline stops.
InsistenciaAcaba == <>[](~filhoRz.confere /\ fiosRz["prazo"].fase = "livre")

\* telaworker_rdp.go:78: once the Display Control channel stays open the size
\* the tab has does reach the server, and after the last request of the tab,
\* whatever was refused, lost in a reconnection, replaced in the debounce or
\* crossed by the repetition of an older target.
Pedivel(t) == t >= MinimoResize /\ Ajustar(t) <= AreaMax
ChegouAoServidor == \/ Ajustar(abaRz.tam) \in obsRz
                    \/ Ajustar(abaRz.tam) = filhoRz.atual
PedidoNaoSePerde ==
  <>[](filhoRz.canal) => <>[](Pedivel(abaRz.tam) => ChegouAoServidor)

\* "Agora, se em resizeConfere o DesktopResize nao trouxe o tamanho pedido, o
\* mesmo pedido sai de novo" (telaworker_rdp.go:100): with the channel open and
\* a server that has begun to obey, the session ends in the size of the tab.
\* The deadline and despacharDispPronto ask after they read, so it does not hold.
FicaOPedido ==
  (<>[](filhoRz.canal) /\ <>[][~Ignorar]_varsRz)
     => <>[](Pedivel(abaRz.tam) => filhoRz.atual = Ajustar(abaRz.tam))

=============================================================================
