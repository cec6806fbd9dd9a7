----------------------------- MODULE BombaTela -----------------------------
(***************************************************************************)
(* The path of the pixels of a remote session: the C library (libfreerdp   *)
(* or libvncclient) paints a framebuffer inside the child process, the     *)
(* frame pump of the child (bombaTela, cmd/acessos/telaworker.go) takes    *)
(* the accumulated damage, copies the framebuffer and sends ONE rectangle  *)
(* per credit, and the event loop of the tab (lacoEventos, rdptab.go and   *)
(* vnctab.go) pastes it into the picture it publishes and gives the next   *)
(* credit.                                                                 *)
(*                                                                         *)
(* Actors, each a goroutine or thread of the code:                         *)
(*   lib     the thread of the C library, with its callbacks;              *)
(*   ligar   conectar(), in the child;                                     *)
(*   pc      bombaTela.rodar(), in the child;                              *)
(*   lacoComandos() of the child, which reads the credits;                 *)
(*   lacoEventos() of the tab, and one goroutine per delayed credit.       *)
(*                                                                         *)
(* Abstractions. The screen is one row of columns and a rectangle is an    *)
(* interval of columns: bounding boxes, clipping and a shrinking screen    *)
(* behave on one axis as on the other. The content of a column is the      *)
(* number of the change that last wrote it, so "stale" can be told from    *)
(* "current"; 0 is the blank of a picture just allocated. MaxMudancas      *)
(* bounds how many changes the remote side makes.                          *)
(***************************************************************************)
EXTENDS Integers, Sequences, FiniteSets

CONSTANTS
  MaxLarg,      \* the widest screen
  MaxMudancas   \* bound: paints and resizes made by the remote side

ASSUME LargAssumption == MaxLarg \in Nat \ {0}
ASSUME MudancasAssumption == MaxMudancas \in Nat \ {0}

VARIABLES
  \* framebuffer and library thread
  larg,       \* width of the framebuffer; 0: there is none
  fb,         \* content of every column
  relogio,    \* changes made so far
  emPintura,  \* columns painted since the last report (invalid box, tem_sujo)
  lib,        \* "livre", "avisar" (OnResize due) or "sinalizar"
  ligar,      \* conectar(): "conectando", "marcar", "sinalizar", "rodando"
  \* bombaTela
  dano,       \* [x0, x1), empty when x0 = x1
  sujo,       \* the slot of chan sujo
  creditos,   \* the slot of chan creditos
  parar,      \* chan parar is closed
  pc,         \* rodar(): where the pump is
  tomado,     \* the rectangle tomar() returned, clipped by Recortar
  copia,      \* the buffer capturar() fills
  largCopia,  \* the geometry capturar() returned
  prox,       \* next column to copy
  \* the socket
  canal,          \* "aberto" or "fechado"
  evtConectado,   \* "nao", "noFio", "lido"
  quadros,        \* EvtQuadro messages not yet read
  creditosNoFio,  \* CmdCredito messages not yet read
  \* the tab
  adiados,    \* credits waiting for intervaloSegundoPlano
  tela        \* the picture published: [larg, pix]

libVars    == <<larg, fb, relogio, emPintura, lib>>
bombaVars  == <<pc, tomado, copia, largCopia, prox>>
canalVars  == <<canal, evtConectado, quadros, creditosNoFio>>
abaVars    == <<adiados, tela>>
vars == <<libVars, ligar, dano, sujo, creditos, parar, bombaVars, canalVars, abaVars>>

Colunas == 0 .. MaxLarg - 1
Larguras == 1 .. MaxLarg

-----------------------------------------------------------------------------
(* Rectangles, and the damage accumulator danoTela. A definition called a  *)
(* "variant" is a wrong form of the one after it, kept to show that the    *)
(* properties tell them apart.                                             *)

Intervalo == [x0 : 0 .. MaxLarg, x1 : 0 .. MaxLarg]
Vazio == [x0 |-> 0, x1 |-> 0]
EhVazio(r) == r.x1 <= r.x0
Dentro(r) == {c \in Colunas : r.x0 <= c /\ c < r.x1}

Bit(b) == IF b THEN 1 ELSE 0
Menor(a, b) == IF a <= b THEN a ELSE b
Maior(a, b) == IF a >= b THEN a ELSE b

\* Variant: the newest rectangle replaces the box.
JuntarSoOUltimo(d, r) == IF EhVazio(r) THEN d ELSE r

\* juntar: an empty rectangle soils nothing, the rest grows the box.
Juntar(d, r) ==
  IF EhVazio(r) THEN d
  ELSE IF EhVazio(d) THEN r
  ELSE [x0 |-> Menor(d.x0, r.x0), x1 |-> Maior(d.x1, r.x1)]

\* The rectangle tudo() reports, larger than any screen.
TelaInteira == [x0 |-> 0, x1 |-> MaxLarg]

\* Variant: no clipping against the size of the copy.
RecorteSemLimite(r, l) == r

\* recorte: the part of r inside a screen of width l.
Recorte(r, l) == [x0 |-> r.x0, x1 |-> Menor(r.x1, l)]

\* What the library reports for the columns painted in a batch: their box,
\* or the whole screen when the box came out null (hook_end_paint).
CaixaDe(r, s) == /\ \A c \in s : r.x0 <= c /\ c < r.x1
                 /\ r.x0 \in s
                 /\ r.x1 - 1 \in s

\* A frame DecodificarQuadro accepts: a rectangle that fits its screen.
Quadro == {q \in [x0 : Colunas, x1 : Larguras, larg : Larguras,
                  pix : [Colunas -> 0 .. MaxMudancas]] :
             q.x0 < q.x1 /\ q.x1 <= q.larg}

-----------------------------------------------------------------------------
Init ==
  /\ larg = 0
  /\ fb = [c \in Colunas |-> 0]
  /\ relogio = 0
  /\ emPintura = {}
  /\ lib = "livre"
  /\ ligar = "conectando"
  /\ dano = Vazio
  /\ sujo = FALSE
  /\ creditos = FALSE
  /\ parar = FALSE
  /\ pc = "credito"
  /\ tomado = Vazio
  /\ copia = [c \in Colunas |-> 0]
  /\ largCopia = 0
  /\ prox = 0
  /\ canal = "aberto"
  /\ evtConectado = "nao"
  /\ quadros = <<>>
  /\ creditosNoFio = 0
  /\ adiados = 0
  /\ tela = [larg |-> 0, pix |-> [c \in Colunas |-> 0]]

-----------------------------------------------------------------------------
(* The library thread.                                                     *)

\* fb_lock: a resize waits for a copy in progress; a paint does not.
FbTravado == pc = "copiar"

TrocarFb(w) ==
  /\ relogio < MaxMudancas
  /\ relogio' = relogio + 1
  /\ larg' = w
  /\ fb' = [c \in Colunas |-> relogio + 1]
  /\ emPintura' = {}
  /\ lib' = "avisar"

\* The framebuffer is born inside Connect (hook_post_connect, hook_malloc_fb).
NascerFb(w) ==
  /\ ligar = "conectando" /\ larg = 0 /\ ~FbTravado
  /\ TrocarFb(w)
  /\ UNCHANGED <<ligar, dano, sujo, creditos, parar, bombaVars, canalVars, abaVars>>

\* The server changes resolution: a new buffer, under fb_lock.
Redimensionar(w) ==
  /\ ligar /= "conectando" /\ lib = "livre" /\ ~FbTravado
  /\ TrocarFb(w)
  /\ UNCHANGED <<ligar, dano, sujo, creditos, parar, bombaVars, canalVars, abaVars>>

\* gdi_resize failed: nothing is reported and there may be no buffer left.
FalharResize ==
  /\ ligar /= "conectando" /\ lib = "livre" /\ ~FbTravado /\ larg > 0
  /\ larg' = 0
  /\ emPintura' = {}
  /\ UNCHANGED <<fb, relogio, lib, ligar, dano, sujo, creditos, parar,
                 bombaVars, canalVars, abaVars>>

\* A column is painted, inside a batch and outside fb_lock.
Pintar(c) ==
  /\ lib = "livre" /\ c < larg /\ relogio < MaxMudancas
  /\ relogio' = relogio + 1
  /\ fb' = [fb EXCEPT ![c] = relogio + 1]
  /\ emPintura' = emPintura \cup {c}
  /\ UNCHANGED <<larg, lib, ligar, dano, sujo, creditos, parar,
                 bombaVars, canalVars, abaVars>>

\* End of a batch, first half of OnUpdate: dano.juntar.
FimPintura ==
  /\ lib = "livre" /\ emPintura /= {}
  /\ \E r \in Intervalo :
       /\ CaixaDe(r, emPintura) \/ r = [x0 |-> 0, x1 |-> larg]
       /\ dano' = Juntar(dano, r)
  /\ emPintura' = {}
  /\ lib' = "sinalizar"
  /\ UNCHANGED <<larg, fb, relogio, ligar, sujo, creditos, parar,
                 bombaVars, canalVars, abaVars>>

\* Variant: OnResize marks the screen and does not signal.
AvisarResizeCalado ==
  /\ lib = "avisar"
  /\ dano' = Juntar(dano, TelaInteira)
  /\ lib' = "livre"
  /\ UNCHANGED <<larg, fb, relogio, emPintura, ligar, sujo, creditos, parar,
                 bombaVars, canalVars, abaVars>>

\* First half of OnResize: dano.tudo.
AvisarResize ==
  /\ lib = "avisar"
  /\ dano' = Juntar(dano, TelaInteira)
  /\ lib' = "sinalizar"
  /\ UNCHANGED <<larg, fb, relogio, emPintura, ligar, sujo, creditos, parar,
                 bombaVars, canalVars, abaVars>>

\* Second half of both callbacks: sinalizar.
LibSinalizar ==
  /\ lib = "sinalizar"
  /\ sujo' = TRUE
  /\ lib' = "livre"
  /\ UNCHANGED <<larg, fb, relogio, emPintura, ligar, dano, creditos, parar,
                 bombaVars, canalVars, abaVars>>

-----------------------------------------------------------------------------
(* conectar(), once sess.Connect has returned without error.               *)

EnviarConectado ==
  /\ ligar = "conectando" /\ larg > 0 /\ lib = "livre"
  /\ evtConectado' = IF canal = "aberto" THEN "noFio" ELSE evtConectado
  /\ ligar' = "marcar"
  /\ UNCHANGED <<libVars, dano, sujo, creditos, parar, bombaVars, canal, quadros,
                 creditosNoFio, abaVars>>

MarcarTudo ==
  /\ ligar = "marcar"
  /\ dano' = Juntar(dano, TelaInteira)
  /\ ligar' = "sinalizar"
  /\ UNCHANGED <<libVars, sujo, creditos, parar, bombaVars, canalVars, abaVars>>

SinalizarConectado ==
  /\ ligar = "sinalizar"
  /\ sujo' = TRUE
  /\ ligar' = "rodando"
  /\ UNCHANGED <<libVars, dano, creditos, parar, bombaVars, canalVars, abaVars>>

-----------------------------------------------------------------------------
(* rodar() and enviarQuadro().                                             *)

PegarCredito ==
  /\ pc = "credito" /\ creditos
  /\ creditos' = FALSE
  /\ pc' = "sujo"
  /\ UNCHANGED <<libVars, ligar, dano, sujo, parar, tomado, copia, largCopia, prox,
                 canalVars, abaVars>>

PegarSujo ==
  /\ pc = "sujo" /\ sujo
  /\ sujo' = FALSE
  /\ pc' = "tomar"
  /\ UNCHANGED <<libVars, ligar, dano, creditos, parar, tomado, copia, largCopia, prox,
                 canalVars, abaVars>>

SairDaBomba ==
  /\ pc \in {"credito", "sujo"} /\ parar
  /\ pc' = "fim"
  /\ UNCHANGED <<libVars, ligar, dano, sujo, creditos, parar, tomado, copia, largCopia,
                 prox, canalVars, abaVars>>

\* tomar comes before capturar.
Tomar ==
  /\ pc = "tomar"
  /\ IF EhVazio(dano)
     THEN pc' = "devolver" /\ UNCHANGED <<tomado, dano>>
     ELSE pc' = "capturar" /\ tomado' = dano /\ dano' = Vazio
  /\ UNCHANGED <<libVars, ligar, sujo, creditos, parar, copia, largCopia, prox,
                 canalVars, abaVars>>

\* rs_travar_quadro / vs_travar_quadro: lock and geometry, or no buffer.
Capturar ==
  /\ pc = "capturar"
  /\ IF larg = 0
     THEN pc' = "redanificar" /\ UNCHANGED <<largCopia, prox>>
     ELSE pc' = "copiar" /\ largCopia' = larg /\ prox' = 0
  /\ UNCHANGED <<libVars, ligar, dano, sujo, creditos, parar, tomado, copia,
                 canalVars, abaVars>>

\* No framebuffer: the rectangle goes back to dano.
Redanificar ==
  /\ pc = "redanificar"
  /\ dano' = Juntar(dano, tomado)
  /\ pc' = "devolver"
  /\ UNCHANGED <<libVars, ligar, sujo, creditos, parar, tomado, copia, largCopia, prox,
                 canalVars, abaVars>>

CopiarColuna ==
  /\ pc = "copiar" /\ prox < largCopia
  /\ copia' = [copia EXCEPT ![prox] = fb[prox]]
  /\ prox' = prox + 1
  /\ UNCHANGED <<libVars, ligar, dano, sujo, creditos, parar, pc, tomado, largCopia,
                 canalVars, abaVars>>

\* Unlock and clip against the geometry of the copy. A rectangle left
\* entirely outside makes the whole screen dirty again.
Recortar ==
  /\ pc = "copiar" /\ prox = largCopia
  /\ IF EhVazio(Recorte(tomado, largCopia))
     THEN /\ dano' = Juntar(dano, TelaInteira)
          /\ pc' = "devolver"
          /\ UNCHANGED tomado
     ELSE /\ tomado' = Recorte(tomado, largCopia)
          /\ pc' = "enviar"
          /\ UNCHANGED dano
  /\ UNCHANGED <<libVars, ligar, sujo, creditos, parar, copia, largCopia, prox,
                 canalVars, abaVars>>

QuadroPronto == [x0 |-> tomado.x0, x1 |-> tomado.x1, larg |-> largCopia, pix |-> copia]

EnviarQuadro ==
  /\ pc = "enviar" /\ canal = "aberto"
  /\ quadros' = Append(quadros, QuadroPronto)
  /\ pc' = "credito"
  /\ UNCHANGED <<libVars, ligar, dano, sujo, creditos, parar, tomado, copia, largCopia,
                 prox, canal, evtConectado, creditosNoFio, abaVars>>

\* The write failed: socket gone or prazoEscrita over, which closes it, or
\* a frame above tamMax, refused with the socket left open.
FalharEnvio ==
  /\ pc = "enviar"
  /\ canal' \in {canal, "fechado"}
  /\ parar' = TRUE
  /\ pc' = "credito"
  /\ UNCHANGED <<libVars, ligar, dano, sujo, creditos, tomado, copia, largCopia, prox,
                 evtConectado, quadros, creditosNoFio, abaVars>>

\* Variant: rodar forgets to give the credit back.
DevolverCreditoEsquecido ==
  /\ pc = "devolver"
  /\ pc' = "credito"
  /\ UNCHANGED <<libVars, ligar, dano, sujo, creditos, parar, tomado, copia, largCopia,
                 prox, canalVars, abaVars>>

\* enviarQuadro returned false: creditar.
DevolverCredito ==
  /\ pc = "devolver"
  /\ creditos' = TRUE
  /\ pc' = "credito"
  /\ UNCHANGED <<libVars, ligar, dano, sujo, parar, tomado, copia, largCopia, prox,
                 canalVars, abaVars>>

-----------------------------------------------------------------------------
(* lacoComandos() of the child.                                            *)

LerCredito ==
  /\ canal = "aberto" /\ creditosNoFio > 0
  /\ creditosNoFio' = creditosNoFio - 1
  /\ creditos' = TRUE
  /\ UNCHANGED <<libVars, ligar, dano, sujo, parar, bombaVars, canal, evtConectado,
                 quadros, abaVars>>

\* Ler() failed: rodarWorker calls bomba.encerrar.
FimDosComandos ==
  /\ canal = "fechado" /\ ~parar
  /\ parar' = TRUE
  /\ UNCHANGED <<libVars, ligar, dano, sujo, creditos, bombaVars, canalVars, abaVars>>

-----------------------------------------------------------------------------
(* lacoEventos() of the tab.                                               *)

LerConectado ==
  /\ canal = "aberto" /\ evtConectado = "noFio"
  /\ evtConectado' = "lido"
  /\ creditosNoFio' = creditosNoFio + 1
  /\ UNCHANGED <<libVars, ligar, dano, sujo, creditos, parar, bombaVars, canal, quadros,
                 abaVars>>

EmBranco == [c \in Colunas |-> 0]

\* Variant: every frame starts from a blank picture.
AplicarQuadroSemAcumular(t, q) ==
  [larg |-> q.larg,
   pix  |-> [c \in Colunas |-> IF q.x0 <= c /\ c < q.x1 THEN q.pix[c] ELSE 0]]

\* aplicarQuadro: a change of resolution starts from a blank picture.
AplicarQuadro(t, q) ==
  LET base == IF t.larg = q.larg THEN t.pix ELSE EmBranco
  IN  [larg |-> q.larg,
       pix  |-> [c \in Colunas |-> IF q.x0 <= c /\ c < q.x1 THEN q.pix[c] ELSE base[c]]]

\* Variant: a hidden tab gives no credit at all.
LerQuadroSemCreditoEscondida(visivel) ==
  /\ canal = "aberto" /\ evtConectado = "lido" /\ quadros /= <<>>
  /\ tela' = AplicarQuadro(tela, Head(quadros))
  /\ quadros' = Tail(quadros)
  /\ creditosNoFio' = creditosNoFio + Bit(visivel)
  /\ UNCHANGED <<libVars, ligar, dano, sujo, creditos, parar, bombaVars, canal,
                 evtConectado, adiados>>

\* creditarConformeVisibilidade: at once, or by a goroutine that waits.
LerQuadro(visivel) ==
  /\ canal = "aberto" /\ evtConectado = "lido" /\ quadros /= <<>>
  /\ tela' = AplicarQuadro(tela, Head(quadros))
  /\ quadros' = Tail(quadros)
  /\ IF visivel
     THEN creditosNoFio' = creditosNoFio + 1 /\ UNCHANGED adiados
     ELSE adiados' = adiados + 1 /\ UNCHANGED creditosNoFio
  /\ UNCHANGED <<libVars, ligar, dano, sujo, creditos, parar, bombaVars, canal,
                 evtConectado>>

\* intervaloSegundoPlano went by.
VencerAdiado ==
  /\ adiados > 0 /\ canal = "aberto"
  /\ adiados' = adiados - 1
  /\ creditosNoFio' = creditosNoFio + 1
  /\ UNCHANGED <<libVars, ligar, dano, sujo, creditos, parar, bombaVars, canal,
                 evtConectado, quadros, tela>>

\* The tab closes the socket (tab closed, reconnect) or a process dies.
FecharCanal ==
  /\ canal = "aberto"
  /\ canal' = "fechado"
  /\ UNCHANGED <<libVars, ligar, dano, sujo, creditos, parar, bombaVars, evtConectado,
                 quadros, creditosNoFio, abaVars>>

-----------------------------------------------------------------------------
Servidor == \/ \E w \in Larguras : NascerFb(w) \/ Redimensionar(w)
            \/ \E c \in Colunas : Pintar(c)
            \/ FalharResize

Lib == FimPintura \/ AvisarResize \/ LibSinalizar

Ligar == EnviarConectado \/ MarcarTudo \/ SinalizarConectado

Bomba == \/ PegarCredito \/ PegarSujo \/ SairDaBomba
         \/ Tomar \/ Capturar \/ Redanificar \/ CopiarColuna \/ Recortar
         \/ EnviarQuadro \/ DevolverCredito

Comandos == LerCredito \/ FimDosComandos

Aba == LerConectado \/ (\E visivel \in BOOLEAN : LerQuadro(visivel))

Next == Servidor \/ Lib \/ Ligar \/ Bomba \/ Comandos \/ Aba \/ VencerAdiado
          \/ FalharEnvio \/ FecharCanal

\* Each goroutine keeps running and each timer fires; nothing makes the
\* server paint, resize or the socket fail.
Justica == /\ WF_vars(Lib) /\ WF_vars(Ligar) /\ WF_vars(Bomba)
           /\ WF_vars(Comandos) /\ WF_vars(Aba) /\ WF_vars(VencerAdiado)

Spec == Init /\ [][Next]_vars /\ Justica
-----------------------------------------------------------------------------
(* Properties.                                                             *)

\* Every variable keeps its type.
TypeOK ==
  /\ larg \in 0 .. MaxLarg
  /\ relogio \in 0 .. MaxMudancas
  /\ fb \in [Colunas -> 0 .. MaxMudancas]
  /\ emPintura \in SUBSET Colunas
  /\ lib \in {"livre", "avisar", "sinalizar"}
  /\ ligar \in {"conectando", "marcar", "sinalizar", "rodando"}
  /\ dano \in Intervalo /\ tomado \in Intervalo
  /\ sujo \in BOOLEAN /\ creditos \in BOOLEAN /\ parar \in BOOLEAN
  /\ pc \in {"credito", "sujo", "tomar", "capturar", "redanificar", "copiar",
             "enviar", "devolver", "fim"}
  /\ copia \in [Colunas -> 0 .. MaxMudancas]
  /\ largCopia \in 0 .. MaxLarg /\ prox \in 0 .. MaxLarg
  /\ canal \in {"aberto", "fechado"}
  /\ evtConectado \in {"nao", "noFio", "lido"}
  /\ quadros \in Seq(Quadro)
  /\ creditosNoFio \in Nat /\ adiados \in Nat
  /\ tela \in [larg : 0 .. MaxLarg, pix : [Colunas -> 0 .. MaxMudancas]]

\* The pump holds a credit from the moment it takes one until it sends a
\* frame or gives the credit back.
BombaComCredito ==
  pc \in {"sujo", "tomar", "capturar", "redanificar", "copiar", "enviar", "devolver"}

\* Where a credit can be. Before EvtConectado is read it is still to be born.
Fichas == Bit(evtConectado /= "lido") + creditosNoFio + adiados + Bit(creditos)
            + Bit(BombaComCredito) + Len(quadros)

\* The credit that paces a session is never duplicated, and it is lost only
\* when the pump stops or the socket closes: losing it freezes the picture
\* for good, a second one lets the child fill the socket (rodar,
\* creditarConformeVisibilidade).
CreditoUnico == /\ Fichas <= 1
                /\ Fichas = 1 \/ parar \/ canal = "fechado"

\* The tab shows column c as the framebuffer has it.
Atual(c) == tela.larg = larg /\ tela.pix[c] = fb[c]

\* Column c of a copy made with width l is what the framebuffer has now.
Fiel(pix, l, c) == l = larg /\ pix[c] = fb[c]

\* Somebody still has to report, send or paste column c.
APintar(c)  == c \in emPintura \/ lib = "avisar" \/ ligar \in {"conectando", "marcar"}
ATomar(c)   == c \in Dentro(dano)
ACopiar(c)  == /\ pc \in {"capturar", "redanificar", "copiar"}
               /\ c \in Dentro(tomado)
               /\ pc = "copiar" => c >= prox \/ Fiel(copia, largCopia, c)
AEnviar(c)  == pc = "enviar" /\ c \in Dentro(tomado) /\ Fiel(copia, largCopia, c)
AColar(c)   == \E i \in 1 .. Len(quadros) : /\ c \in Dentro(quadros[i])
                                           /\ Fiel(quadros[i].pix, quadros[i].larg, c)

\* No column of the screen stays old with nobody in charge of refreshing it,
\* however paints, resizes, the copy and the sending interleave: the
\* "remendo" enviarQuadro's comments are about.
NadaPerdido ==
  (larg > 0 /\ canal = "aberto" /\ ~parar) =>
    \A c \in 0 .. larg - 1 :
      Atual(c) \/ APintar(c) \/ ATomar(c) \/ ACopiar(c) \/ AEnviar(c) \/ AColar(c)

\* Damage never waits without a wake-up: whenever something is dirty the
\* pump has a signal pending, is on its way to take it, or a callback that
\* will signal is running. enviarQuadro gives damage back WITHOUT
\* signalling; this is why that is enough.
SinalPresente ==
  ~EhVazio(dano) =>
     \/ sujo \/ pc \in {"tomar", "fim"}
     \/ lib \in {"avisar", "sinalizar"}
     \/ ligar \in {"marcar", "sinalizar"}
     \/ larg = 0

(* The inductive invariant behind CreditoUnico, NadaPerdido and            *)
(* SinalPresente.                                                          *)

\* The pump's local state is coherent with where it is.
BombaCoerente ==
  /\ pc = "copiar" => largCopia = larg /\ larg > 0 /\ prox <= largCopia
  /\ pc = "enviar" => /\ largCopia > 0
                      /\ tomado.x0 < tomado.x1 /\ tomado.x1 <= largCopia
  /\ pc \in {"capturar", "redanificar", "copiar"} => ~EhVazio(tomado)
  /\ pc = "fim" => parar
  /\ ligar = "conectando" => evtConectado = "nao"
  /\ \A c \in emPintura : c < larg

\* Column c will be sent again by a later frame than those under way.
Pendente(c) == APintar(c) \/ ATomar(c)

\* What a copy under way holds of column c is current, or c is pending.
EmAndamentoFiel(c) ==
  /\ pc = "copiar" /\ c \in Dentro(tomado) /\ c < prox =>
       Fiel(copia, largCopia, c) \/ Pendente(c)
  /\ pc = "enviar" /\ (c \in Dentro(tomado) \/ largCopia /= larg) =>
       Fiel(copia, largCopia, c) \/ Pendente(c)
  /\ \A i \in 1 .. Len(quadros) :
       (c \in Dentro(quadros[i]) \/ quadros[i].larg /= larg) =>
         Fiel(quadros[i].pix, quadros[i].larg, c) \/ Pendente(c)

\* Column c is current, pending, or inside a frame under way.
Acompanhada(c) ==
  \/ Atual(c) \/ Pendente(c)
  \/ pc \in {"capturar", "redanificar", "copiar", "enviar"} /\ c \in Dentro(tomado)
  \/ \E i \in 1 .. Len(quadros) : c \in Dentro(quadros[i])

\* A rectangle left outside a shrunken screen always has OnResize behind it.
ResizeAvisado ==
  \/ larg = 0 \/ lib = "avisar"
  \/ ~EhVazio(dano) /\ dano.x0 = 0 /\ (lib = "sinalizar" \/ sujo)
ForaDaTela ==
  /\ ~EhVazio(dano) /\ dano.x0 >= larg => larg = 0 \/ lib = "avisar"
  /\ pc \in {"capturar", "copiar"} /\ tomado.x0 >= larg => ResizeAvisado
  /\ pc = "redanificar" => ResizeAvisado

IInv == /\ TypeOK
        /\ CreditoUnico
        /\ BombaCoerente
        /\ canal = "aberto" /\ ~parar =>
             \A c \in 0 .. larg - 1 : EmAndamentoFiel(c) /\ Acompanhada(c)
        /\ ForaDaTela
        /\ SinalPresente

(* What the refinement of EspelhoTela needs besides IInv.                  *)

\* A picture made of content the framebuffer has had, column by column.
DoPassado(pix) == \A c \in Colunas : pix[c] <= fb[c]

\* The first n columns of a copy are as new as what the tab shows.
NaoRegride(pix, n) == \A c \in Colunas : c < n => tela.pix[c] <= pix[c]

\* Nothing shown, copied or on the wire is newer than the framebuffer, and
\* what is on its way to the tab is not older than what the tab shows: a
\* column is copied after the last frame was pasted, because there is one
\* credit.
QuadrosEmOrdem ==
  /\ \A c \in Colunas : fb[c] <= relogio
  /\ DoPassado(tela.pix) /\ DoPassado(copia)
  /\ pc = "copiar" => NaoRegride(copia, prox)
  /\ pc = "enviar" => NaoRegride(copia, largCopia)
  /\ \A i \in 1 .. Len(quadros) :
       /\ DoPassado(quadros[i].pix)
       /\ NaoRegride(quadros[i].pix, quadros[i].larg)

\* What the tab promises, with the socket or the pump gone as the end of
\* the session.
Promessa == INSTANCE EspelhoTela WITH
  fonte   <- [larg |-> larg, pix |-> fb],
  versao  <- relogio,
  rompida <- (parar \/ canal = "fechado")

\* The tab implements the safety part of EspelhoTela: no column goes back in
\* time, none shows what the remote screen never had.
SoAvanca == Promessa!Seguranca

\* And it catches up once the remote side stops.
AlcancaAFonte == Promessa!Alcanca
=============================================================================
