----------------------------- MODULE TerminalSsh -----------------------------
(***************************************************************************)
(* The terminal of an SSH tab (sshtab.go, sshtab_mouse.go, keyencode.go):  *)
(* the size of the grid and the size the remote pty was told, the scroll   *)
(* into the history, the selection, the mouse of the operator shared       *)
(* between the selection and the remote program, copy and paste, and what  *)
(* of all this survives the end of a session.  How the session connects    *)
(* and waits is SessaoRemota.  A cell is its row.                          *)
(***************************************************************************)
EXTENDS Integers, FiniteSets

CONSTANTS
  Janela,      \* the height of the window, in rows of the smallest font
  CorpoMax,    \* the largest font, the smallest being 1 (6 and 32 in the code)
  Passo,       \* rows of history per notch of the wheel
  MaxHist      \* bound: rows of history (WithScrollback)

ASSUME TerminalAssumption ==
  /\ {Janela, CorpoMax, Passo, MaxHist} \subseteq Nat \ {0}
  /\ CorpoMax <= Janela

VARIABLES
  sessTe,  \* the session: phase, rows of the remote pty, jaConectou
  telaTe,  \* rows of the grid, font, rows of history, rolagem
  gestoTe, \* the gesture: buttons down, mouseRelatando and mouseBotaoRel, arrastando, the selection
  progTe,  \* modes of the emulator; modes and buttons held of the program of this session
  modsTe,  \* modificadores
  obsTe    \* history: see the properties

varsTe == <<sessTe, telaTe, gestoTe, progTe, modsTe, obsTe>>

Modos == {"mouse", "colar"}
BotoesTe == {"pri", "outro"}    \* the primary, and one of the other two
Linhas(g) == 0..(g - 1)
Linha(y) == IF y < telaTe.grade THEN y ELSE telaTe.grade - 1    \* celulaEm
Prender(v, a, b) == IF v < a THEN a ELSE IF v > b THEN b ELSE v

InitTe ==
  /\ sessTe = [fase |-> "fora", pty |-> Janela, ja |-> FALSE]
  /\ telaTe = [grade |-> Janela, corpo |-> 1, hist |-> 0, rolagem |-> 0]
  /\ gestoTe = [botao |-> {}, relatando |-> FALSE, rel |-> "pri", arrastando |-> FALSE,
                a |-> 0, b |-> 0, ativa |-> FALSE]
  /\ progTe = [modo |-> {}, pediu |-> {}, segura |-> {}]
  /\ modsTe = {}
  /\ obsTe = [cruzou |-> FALSE, semPedir |-> FALSE, outra |-> FALSE]

Viva == sessTe.fase = "viva"

(***************************************************************************)
(* The session, as the terminal sees it.                                   *)
(***************************************************************************)
\* sessao: the rows are read and the pty asked for before the session is
\* published, with the pipes in between.
PedirPty ==
  /\ sessTe.fase = "fora"
  /\ sessTe' = [sessTe EXCEPT !.fase = "montando", !.pty = telaTe.grade]
  /\ obsTe' = [obsTe EXCEPT !.cruzou = FALSE]
  /\ UNCHANGED <<telaTe, gestoTe, progTe, modsTe>>

\* limparTela: as many line feeds as rows, so that the screen goes to the history.
LimparTela(t) == [t EXCEPT !.hist = Prender(@ + t.grade, 0, MaxHist)]

Publicar ==
  /\ sessTe.fase = "montando"
  /\ sessTe' = [sessTe EXCEPT !.fase = "viva", !.ja = TRUE]
  /\ telaTe' = IF sessTe.ja THEN LimparTela(telaTe) ELSE telaTe
  /\ UNCHANGED <<gestoTe, progTe, modsTe, obsTe>>

\* Wait or Shell came back, or something failed on the way: what the program
\* asked for is gone with it; nothing tells the emulator.
Cair ==
  /\ sessTe.fase # "fora"
  /\ sessTe' = [sessTe EXCEPT !.fase = "fora"]
  /\ progTe' = [progTe EXCEPT !.pediu = {}, !.segura = {}]
  /\ UNCHANGED <<telaTe, gestoTe, modsTe, obsTe>>

(***************************************************************************)
(* The output (leitorAvisado, Parse).                                      *)
(***************************************************************************)
SairLinha ==
  /\ Viva /\ telaTe.hist < MaxHist
  /\ telaTe' = [telaTe EXCEPT !.hist = @ + 1]
  /\ UNCHANGED <<sessTe, gestoTe, progTe, modsTe, obsTe>>

\* CSI 3 J: the screen and the history.
ApagarHistorico ==
  /\ Viva
  /\ telaTe' = [telaTe EXCEPT !.hist = 0]
  /\ UNCHANGED <<sessTe, gestoTe, progTe, modsTe, obsTe>>

\* CSI ? 1000 h, CSI ? 2004 h, and their ends.
PedirModo(m, liga) ==
  /\ Viva
  /\ LET com(s) == IF liga THEN s \union {m} ELSE s \ {m} IN
     progTe' = [modo |-> com(progTe.modo), pediu |-> com(progTe.pediu),
                segura |-> IF "mouse" \in com(progTe.pediu) THEN progTe.segura ELSE {}]
  /\ UNCHANGED <<sessTe, telaTe, gestoTe, modsTe, obsTe>>

(***************************************************************************)
(* The frame.                                                              *)
(***************************************************************************)
\* layoutTerminal and redimensionar: a new grid drops the selection and the
\* scroll, and is told to the session when there is one.
Redimensionar ==
  LET g == Janela \div telaTe.corpo IN
  /\ g # telaTe.grade
  /\ telaTe' = [telaTe EXCEPT !.grade = g, !.rolagem = 0]
  /\ gestoTe' = [gestoTe EXCEPT !.ativa = FALSE, !.arrastando = FALSE]
  /\ sessTe' = IF Viva THEN [sessTe EXCEPT !.pty = g] ELSE sessTe
  /\ obsTe' = [obsTe EXCEPT !.cruzou = @ \/ sessTe.fase = "montando"]
  /\ UNCHANGED <<progTe, modsTe>>

\* desenharGrade: the row of the history and screen shown at row y.
Vista(y) == telaTe.hist - telaTe.rolagem + y

(***************************************************************************)
(* The mouse.                                                              *)
(***************************************************************************)
Relatar == "mouse" \in progTe.modo /\ "shift" \notin modsTe

\* sequenciaMouse gives nothing when no mode is on, and enviar goes nowhere
\* with no session.
Chega == Viva /\ "mouse" \in progTe.modo
SemPedir(m) == [obsTe EXCEPT !.semPedir = @ \/ (Viva /\ m \in progTe.modo \ progTe.pediu)]

\* botaoXterm: of the buttons down, the primary before the others.
BotaoXterm(bs) == IF "pri" \in bs THEN "pri" ELSE "outro"

ApertarRelatado(bs) ==
  LET rel == BotaoXterm(bs) IN
  /\ gestoTe' = [gestoTe EXCEPT !.botao = bs, !.relatando = TRUE, !.rel = rel]
  /\ progTe' = [progTe EXCEPT !.segura = IF Viva /\ "mouse" \in progTe.pediu THEN @ \union {rel} ELSE @]
  /\ obsTe' = SemPedir("mouse")

\* A click clears the selection; with the primary up it does nothing.
ApertarLocal(bs, y) ==
  /\ gestoTe' = IF "pri" \notin bs THEN [gestoTe EXCEPT !.botao = bs]
                ELSE [gestoTe EXCEPT !.botao = bs, !.a = Linha(y), !.b = Linha(y),
                                     !.ativa = FALSE, !.arrastando = TRUE]
  /\ UNCHANGED <<progTe, obsTe>>

\* The event brings every button that is down, the one of this press included.
Apertar(bt, y) ==
  /\ bt \notin gestoTe.botao
  /\ LET bs == gestoTe.botao \union {bt} IN
     IF Relatar THEN ApertarRelatado(bs) ELSE ApertarLocal(bs, y)
  /\ UNCHANGED <<sessTe, telaTe, modsTe>>

Mover(y) ==
  /\ gestoTe.botao # {}
  /\ \/ gestoTe.relatando /\ UNCHANGED gestoTe /\ obsTe' = SemPedir("mouse")
     \/ /\ ~gestoTe.relatando /\ gestoTe.arrastando
        /\ gestoTe' = [gestoTe EXCEPT !.b = Linha(y), !.ativa = Linha(y) # gestoTe.a]
        /\ UNCHANGED obsTe
  /\ UNCHANGED <<sessTe, telaTe, progTe, modsTe>>

\* Variant: the release is reported and the gesture is not over.
SoltarSoComMarca(bt) ==
  /\ bt \in gestoTe.botao
  /\ gestoTe' = [gestoTe EXCEPT !.botao = @ \ {bt}, !.relatando = FALSE, !.arrastando = FALSE]
  /\ progTe' = [progTe EXCEPT !.segura = IF gestoTe.ativa /\ Chega THEN @ \ {gestoTe.rel} ELSE @]
  /\ UNCHANGED <<sessTe, telaTe, modsTe, obsTe>>

\* Whichever button goes up, the release reported is of mouseBotaoRel, and it ends the
\* gesture.
SoltarTe(bt) ==
  /\ bt \in gestoTe.botao
  /\ gestoTe' = [gestoTe EXCEPT !.botao = @ \ {bt}, !.relatando = FALSE, !.arrastando = FALSE]
  /\ progTe' = [progTe EXCEPT !.segura = IF gestoTe.relatando /\ Chega THEN @ \ {gestoTe.rel} ELSE @]
  /\ obsTe' = IF gestoTe.relatando THEN SemPedir("mouse") ELSE obsTe
  /\ UNCHANGED <<sessTe, telaTe, modsTe>>

\* The filter of the content asks for no Cancel: a gesture cut short by another
\* taker of the pointer gives the tab no event.
Perder ==
  /\ gestoTe.botao # {}
  /\ gestoTe' = [gestoTe EXCEPT !.botao = {}]
  /\ UNCHANGED <<sessTe, telaTe, progTe, modsTe, obsTe>>

\* The wheel: the font with Ctrl, the program when it asked for it, the history.
Rodar(passo) ==
  /\ \/ /\ "ctrl" \in modsTe
        /\ telaTe' = [telaTe EXCEPT !.corpo = Prender(@ - passo, 1, CorpoMax)]
        /\ UNCHANGED obsTe
     \/ /\ "ctrl" \notin modsTe /\ Relatar
        /\ obsTe' = SemPedir("mouse") /\ UNCHANGED telaTe
     \/ /\ "ctrl" \notin modsTe /\ ~Relatar
        /\ telaTe' = [telaTe EXCEPT !.rolagem = Prender(@ + passo * Passo, 0, telaTe.hist)]
        /\ UNCHANGED obsTe
  /\ UNCHANGED <<sessTe, gestoTe, progTe, modsTe>>

(***************************************************************************)
(* The keyboard.                                                           *)
(***************************************************************************)
Modificador(m, aperta) ==
  /\ aperta # (m \in modsTe)
  /\ modsTe' = IF aperta THEN modsTe \union {m} ELSE modsTe \ {m}
  /\ UNCHANGED <<sessTe, telaTe, gestoTe, progTe, obsTe>>

\* Any other key goes to the session, and the view back to the bottom.
Digitar ==
  /\ telaTe' = [telaTe EXCEPT !.rolagem = 0]
  /\ UNCHANGED <<sessTe, gestoTe, progTe, modsTe, obsTe>>

\* textoSelecionado reads the rows of the live screen.
Copiada(y) == telaTe.hist + y
CopiarSelecao ==
  /\ modsTe = {"ctrl", "shift"} /\ gestoTe.ativa
  /\ obsTe' = [obsTe EXCEPT !.outra = @ \/ \E y \in {gestoTe.a, gestoTe.b} : Copiada(y) # Vista(y)]
  /\ UNCHANGED <<sessTe, telaTe, gestoTe, progTe, modsTe>>

\* colarDoSistema: with the marks when the emulator is in that mode.
Colar ==
  /\ modsTe = {"ctrl", "shift"}
  /\ obsTe' = SemPedir("colar")
  /\ UNCHANGED <<sessTe, telaTe, gestoTe, progTe, modsTe>>

NextTe ==
  \/ PedirPty \/ Publicar \/ Cair
  \/ SairLinha \/ ApagarHistorico
  \/ \E m \in Modos, liga \in BOOLEAN : PedirModo(m, liga)
  \/ Redimensionar
  \/ \E y \in Linhas(Janela) : Mover(y) \/ \E bt \in BotoesTe : Apertar(bt, y)
  \/ (\E bt \in BotoesTe : SoltarTe(bt)) \/ Perder
  \/ \E p \in {-1, 1} : Rodar(p)
  \/ \E m \in {"ctrl", "shift"}, aperta \in BOOLEAN : Modificador(m, aperta)
  \/ Digitar \/ CopiarSelecao \/ Colar

SpecTe == InitTe /\ [][NextTe]_varsTe

TiposTe ==
  /\ sessTe \in [fase : {"fora", "montando", "viva"}, pty : 1..Janela, ja : BOOLEAN]
  /\ telaTe \in [grade : 1..Janela, corpo : 1..CorpoMax, hist : 0..MaxHist, rolagem : 0..MaxHist]
  /\ progTe.modo \subseteq Modos /\ progTe.pediu \subseteq Modos /\ modsTe \subseteq {"ctrl", "shift"}

(***************************************************************************)
(* Properties.                                                             *)
(***************************************************************************)
\* sshtab.go:88-95: the button whose press the remote program saw last is reported to it
\* until its release, whatever the operator or the program changes half way.
GestoInteiro == gestoTe.rel \in progTe.segura => gestoTe.relatando

\* The same of every button whose press it saw: false, a second button pressed takes the
\* place of the first in mouseBotaoRel (sshtab.go:773), whose release is never reported.
GestoDeCadaBotao == progTe.segura # {} => gestoTe.relatando

\* sshtab.go:996: the marking never points out of the grid.
SelecaoNaGrade == gestoTe.ativa => {gestoTe.a, gestoTe.b} \subseteq Linhas(telaTe.grade)

\* sshtab.go:987: the remote pty has the rows the tab draws, unless the grid
\* changed between the request of the pty and the publication of the session.
GradeAcompanha == Viva /\ ~obsTe.cruzou => sessTe.pty = telaTe.grade

TerminalCerto == GestoInteiro /\ SelecaoNaGrade /\ GradeAcompanha

\* sshtab.go:707: the marks of a paste, and the reports of the mouse, go to a
\* program that asked for them.
SoAQuemPediu == ~obsTe.semPedir

\* sshtab.go:606: what is copied is what is marked on the screen.
CopiaOQueSeVe == ~obsTe.outra

\* sshtab.go:864: the view is never rolled beyond what is kept.
RolagemCabe == telaTe.rolagem <= telaTe.hist
=============================================================================
