---------------------------- MODULE ClipboardTela ----------------------------
(***************************************************************************)
(* The clipboard between the desktop and the remote screens: the system's  *)
(* clipboard and its offers (grab.go), the global cache, the text waiting  *)
(* for the frame loop and the echo suppression of each tab (clipboard.go,  *)
(* rdptab.go, vnctab.go), and the clipboard of each remote machine.  A     *)
(* text is a number; 0 is none.                                            *)
(***************************************************************************)
EXTENDS Integers, Sequences, FiniteSets

CONSTANTS
  AbasTela,      \* the screen tabs of the window
  TextosCl,        \* the texts somebody copies
  MaxCopias,     \* bound: copies made on the host
  MaxRemotas,    \* bound: copies made on a remote machine
  MaxTrocas,     \* bound: changes of the visible tab, or of the clipboard button
  MaxReligadas   \* bound: reconnections

ASSUME ClipboardAssumption ==
  /\ TextosCl \subseteq Nat \ {0} /\ AbasTela # {}
  /\ {MaxCopias, MaxRemotas, MaxTrocas, MaxReligadas} \subseteq Nat

VARIABLES
  mesa,       \* the desktop: its clipboard, and the offers being read
  clipApp,    \* the app: cache, clipPendente, visible tab
  abaCl,      \* per tab: clipOn, clipboardSync.last, t.proc
  avisos,     \* oferecerClipboard goroutines: tabs about to read, texts read
  fioCl,      \* per tab: texts to the child, events from it, remote clipboard
  limCl,      \* the bounds still available
  disputa     \* history: a copy, a change of tab or a reconnection met a text on
              \* its way, a machine nobody was looking at copied, or a button
              \* was used

varsCl == <<mesa, clipApp, abaCl, avisos, fioCl, limCl, disputa>>

InitCl ==
  /\ mesa = [texto |-> 0, ofertas |-> {}]
  /\ clipApp = [cache |-> 0, pendente |-> 0, visivel |-> CHOOSE a \in AbasTela : TRUE]
  /\ abaCl = [a \in AbasTela |-> [ligado |-> TRUE, ultimo |-> 0, proc |-> FALSE]]
  /\ avisos = [ler |-> {}, lidos |-> {}]
  /\ fioCl = [a \in AbasTela |-> [ida |-> <<>>, volta |-> <<>>, remoto |-> 0]]
  /\ limCl = [copias |-> 0, remotas |-> 0, trocas |-> 0, religadas |-> 0]
  /\ disputa = FALSE

QuietoCl == /\ mesa.ofertas = {} /\ clipApp.pendente = 0
            /\ avisos.ler = {} /\ avisos.lidos = {}
            /\ \A a \in AbasTela : fioCl[a].ida = <<>> /\ fioCl[a].volta = <<>>

\* Variant: the echo of what the tab knows is taken for news.
SempreNovo(a, t) == TRUE

\* clipboardSync.checkAndSet: new for the tab, or the echo of what it knows.
EhNovo(a, t) == t # abaCl[a].ultimo

\* OnLocalClipboard of the screen tabs.
OnLocalClipboard(a, t) ==
  IF abaCl[a].ligado /\ EhNovo(a, t)
  THEN /\ abaCl' = [abaCl EXCEPT ![a].ultimo = t]
       /\ fioCl' = IF abaCl[a].proc THEN [fioCl EXCEPT ![a].ida = Append(@, t)] ELSE fioCl
  ELSE UNCHANGED <<abaCl, fioCl>>

(***************************************************************************)
(* The desktop.                                                            *)
(***************************************************************************)
\* Another program, or the terminal, takes the clipboard of the system.
Copiar(t) ==
  /\ limCl.copias < MaxCopias
  /\ mesa' = [texto |-> t, ofertas |-> mesa.ofertas \union {t}]
  /\ limCl' = [limCl EXCEPT !.copias = @ + 1]
  /\ disputa' = (disputa \/ ~QuietoCl)
  /\ UNCHANGED <<clipApp, abaCl, avisos, fioCl>>

\* entregarClipOferta: one goroutine per offer, in no order; it writes the
\* cache and hands the text to the visible tab.
LerOferta(t) ==
  /\ t \in mesa.ofertas
  /\ mesa' = [mesa EXCEPT !.ofertas = @ \ {t}]
  /\ clipApp' = [clipApp EXCEPT !.cache = t]
  /\ OnLocalClipboard(clipApp.visivel, t)
  /\ UNCHANGED <<avisos, limCl, disputa>>

\* entregarClipboard in the frame loop: the system's clipboard becomes ours,
\* and the compositor offers it back to us.
EntregarClipboard ==
  /\ clipApp.pendente # 0
  /\ mesa' = [texto |-> clipApp.pendente, ofertas |-> mesa.ofertas \union {clipApp.pendente}]
  /\ clipApp' = [clipApp EXCEPT !.pendente = 0]
  /\ UNCHANGED <<abaCl, avisos, fioCl, limCl, disputa>>

(***************************************************************************)
(* The tabs.                                                               *)
(***************************************************************************)
\* marcarAbaAtiva at the end of a frame that shows another tab.
MarcarAbaAtiva(a) ==
  /\ limCl.trocas < MaxTrocas /\ a # clipApp.visivel
  /\ clipApp' = [clipApp EXCEPT !.visivel = a]
  /\ avisos' = [avisos EXCEPT !.ler = @ \union {a}]
  /\ limCl' = [limCl EXCEPT !.trocas = @ + 1]
  /\ disputa' = (disputa \/ ~QuietoCl)
  /\ UNCHANGED <<mesa, abaCl, fioCl>>

\* The button of ControlesSessao; nothing is offered when it is turned on.
AlternarClip(a) ==
  /\ limCl.trocas < MaxTrocas
  /\ abaCl' = [abaCl EXCEPT ![a].ligado = ~@]
  /\ limCl' = [limCl EXCEPT !.trocas = @ + 1]
  /\ disputa' = TRUE
  /\ UNCHANGED <<mesa, clipApp, avisos, fioCl>>

\* oferecerClipboard: reads the cache, and hands over what it read.
LerCache(a) ==
  /\ a \in avisos.ler
  /\ avisos' = [ler |-> avisos.ler \ {a},
                lidos |-> avisos.lidos \union
                            (IF clipApp.cache = 0 THEN {} ELSE {<<a, clipApp.cache>>})]
  /\ UNCHANGED <<mesa, clipApp, abaCl, fioCl, limCl, disputa>>

OferecerLido(a, t) ==
  /\ <<a, t>> \in avisos.lidos
  /\ avisos' = [avisos EXCEPT !.lidos = @ \ {<<a, t>>}]
  /\ OnLocalClipboard(a, t)
  /\ UNCHANGED <<mesa, clipApp, limCl, disputa>>

\* EvtConectado: the child is new, so what was known is forgotten.
EvtConectado(a) ==
  /\ ~abaCl[a].proc
  /\ abaCl' = [abaCl EXCEPT ![a].proc = TRUE, ![a].ultimo = 0]
  /\ avisos' = IF a = clipApp.visivel THEN [avisos EXCEPT !.ler = @ \union {a}] ELSE avisos
  /\ disputa' = (disputa \/ ~QuietoCl)
  /\ UNCHANGED <<mesa, clipApp, fioCl, limCl>>

\* The child is gone: what travelled is lost; the remote machine keeps its text.
CairCl(a) ==
  /\ abaCl[a].proc /\ limCl.religadas < MaxReligadas
  /\ abaCl' = [abaCl EXCEPT ![a].proc = FALSE]
  /\ fioCl' = [fioCl EXCEPT ![a].ida = <<>>, ![a].volta = <<>>]
  /\ limCl' = [limCl EXCEPT !.religadas = @ + 1]
  /\ UNCHANGED <<mesa, clipApp, avisos, disputa>>

\* EvtClipboard: only the visible tab publishes, and only what is new to it.
EvtClipboard(a) ==
  /\ fioCl[a].volta # <<>>
  /\ LET t == Head(fioCl[a].volta) IN
       IF abaCl[a].ligado /\ a = clipApp.visivel /\ EhNovo(a, t)
       THEN /\ abaCl' = [abaCl EXCEPT ![a].ultimo = t]
            /\ clipApp' = [clipApp EXCEPT !.cache = t, !.pendente = t]
       ELSE UNCHANGED <<abaCl, clipApp>>
  /\ fioCl' = [fioCl EXCEPT ![a].volta = Tail(@)]
  /\ UNCHANGED <<mesa, avisos, limCl, disputa>>

(***************************************************************************)
(* The child and the remote machine.                                       *)
(***************************************************************************)
\* CmdClipboard: the remote clipboard is what we sent; a machine that tells every change
\* of its clipboard tells this one too.
AplicarNoRemoto(a) ==
  LET t == Head(fioCl[a].ida) IN
  /\ fioCl[a].ida # <<>>
  /\ \E eco \in {<<>>, <<t>>} :
       fioCl' = [fioCl EXCEPT ![a].remoto = t, ![a].ida = Tail(@), ![a].volta = @ \o eco]
  /\ UNCHANGED <<mesa, clipApp, abaCl, avisos, limCl, disputa>>

\* Somebody copies on the remote machine; OnClipboardText or OnCutText.
CopiarNoRemoto(a, t) ==
  /\ abaCl[a].proc /\ limCl.remotas < MaxRemotas
  /\ fioCl' = [fioCl EXCEPT ![a].remoto = t, ![a].volta = Append(@, t)]
  /\ limCl' = [limCl EXCEPT !.remotas = @ + 1]
  /\ disputa' = (disputa \/ ~QuietoCl \/ a # clipApp.visivel)
  /\ UNCHANGED <<mesa, clipApp, abaCl, avisos>>

DaMesa == EntregarClipboard \/ \E t \in TextosCl : LerOferta(t)
DaAbaCl(a) == \/ LerCache(a) \/ EvtConectado(a) \/ EvtClipboard(a) \/ AplicarNoRemoto(a)
              \/ \E t \in TextosCl : OferecerLido(a, t)

NextCl ==
  \/ \E t \in TextosCl : Copiar(t)
  \/ DaMesa
  \/ \E a \in AbasTela : MarcarAbaAtiva(a) \/ AlternarClip(a) \/ DaAbaCl(a) \/ CairCl(a)
  \/ \E a \in AbasTela, t \in TextosCl : CopiarNoRemoto(a, t)

\* The loops of the application and of each tab run.
JusticaCl ==
  /\ WF_varsCl(EntregarClipboard)
  /\ \A t \in TextosCl : WF_varsCl(LerOferta(t))
  /\ \A a \in AbasTela :
       /\ WF_varsCl(LerCache(a)) /\ WF_varsCl(EvtConectado(a))
       /\ WF_varsCl(EvtClipboard(a)) /\ WF_varsCl(AplicarNoRemoto(a))
       /\ \A t \in TextosCl : WF_varsCl(OferecerLido(a, t))
SpecCl == InitCl /\ [][NextCl]_varsCl /\ JusticaCl

TiposCl ==
  /\ mesa.texto \in TextosCl \union {0} /\ mesa.ofertas \subseteq TextosCl
  /\ clipApp.cache \in TextosCl \union {0} /\ clipApp.pendente \in TextosCl \union {0}
  /\ clipApp.visivel \in AbasTela
  /\ abaCl \in [AbasTela -> [ligado : BOOLEAN, ultimo : TextosCl \union {0}, proc : BOOLEAN]]
  /\ avisos.ler \subseteq AbasTela /\ avisos.lidos \subseteq AbasTela \X TextosCl

(***************************************************************************)
(* Properties.                                                             *)
(***************************************************************************)
\* clipboard.go:10: a text does not go round for ever between the desktop and a
\* machine that tells back what it is given, as long as no two copies crossed.
Sossega == <>[](disputa \/ QuietoCl)

\* clipboard.go:45: "copiar no host com a aba 101 na frente e colar dentro da
\* 102": at rest the machine of the visible tab has the text of the desktop,
\* after changes of tab and reconnections, as long as no two copies crossed.
Sincronizado ==
  LET a == clipApp.visivel IN
  QuietoCl /\ ~disputa /\ mesa.texto # 0 /\ abaCl[a].proc => fioCl[a].remoto = mesa.texto

\* The two promises of the clipboard, together.
ClipCerto == []Sincronizado /\ Sossega

\* NOT true: the same when they cross ("ida e volta pra sempre", clipboard.go:14):
\* each of two texts in flight is news to a tab whose last one is the other.
ClipSossega == <>[]QuietoCl
=============================================================================
