-------------------------- MODULE MCPartes_proofs --------------------------
(***************************************************************************)
(* Proofs about the two tabs that speak ssh and about the input of the     *)
(* operator, and about the parts that MCPartes brings together.  Of the    *)
(* terminal: what TLC checks in one small window, for every height of the  *)
(* window, every font and every length of the history.  Of the files: what *)
(* TLC checks with two machines and two copies, for every number of them,  *)
(* of folders and of changes of machine, copies that start together, which *)
(* the mark ocupado does not prevent, included.  Of the input: what TLC    *)
(* checks with four events, for every set of keys, any size of the queue   *)
(* and any number of events.  At the end, every behaviour of MCPartes is   *)
(* one of each part, and so keeps all that is proved of the parts.         *)
(***************************************************************************)
EXTENDS MCPartes, Partes_proofs, Servico_proofs, SequenceTheorems, TLAPS

-----------------------------------------------------------------------------
(* The terminal                                                            *)

\* The records that TiposTe leaves open.
Gestos == [botao : SUBSET BotoesTe, relatando : BOOLEAN, rel : BotoesTe, arrastando : BOOLEAN,
           a : Int, b : Int, ativa : BOOLEAN]
Programas == [modo : SUBSET Modos, pediu : SUBSET Modos, segura : SUBSET BotoesTe]
HistoriasTe == [cruzou : BOOLEAN, semPedir : BOOLEAN, outra : BOOLEAN]
Sessoes == [fase : {"fora", "montando", "viva"}, pty : 1..Janela, ja : BOOLEAN]
TelasTe == [grade : 1..Janela, corpo : 1..CorpoMax, hist : 0..MaxHist, rolagem : 0..MaxHist]
Tipado ==
  /\ sessTe \in Sessoes /\ telaTe \in TelasTe /\ gestoTe \in Gestos
  /\ progTe \in Programas /\ obsTe \in HistoriasTe /\ modsTe \in SUBSET {"ctrl", "shift"}

\* The program that holds a button is there and asked for the mouse, and what it asked
\* for is on in the emulator: the release of the last one will reach it.
SeguraDeQuemPediu ==
  /\ progTe.pediu \subseteq progTe.modo
  /\ progTe.segura # {} => Viva /\ "mouse" \in progTe.pediu
  /\ GestoInteiro

\* The anchor of a gesture under way is in the grid, before there is a marking.
AncoraNaGrade ==
  /\ gestoTe.ativa \/ gestoTe.arrastando => gestoTe.a \in Linhas(telaTe.grade)
  /\ gestoTe.ativa => gestoTe.b \in Linhas(telaTe.grade)

\* From the request of the pty on, and not only when the session is published.
PtyAcompanha ==
  sessTe.fase # "fora" /\ ~obsTe.cruzou => sessTe.pty = telaTe.grade

IInvTe == Tipado /\ SeguraDeQuemPediu /\ AncoraNaGrade /\ PtyAcompanha

-----------------------------------------------------------------------------
\* The rows of the window in any font: at least one, for the largest font fits.
LEMMA Cabe ==
  ASSUME NEW j \in Nat \ {0}, NEW c \in Nat \ {0}, c <= j
  PROVE  j \div c \in 1..j
<1>1. j \div c \in Nat /\ c * (j \div c) <= j /\ j < c * (j \div c) + c
  OBVIOUS
<1> DEFINE q == j \div c
<1>2. q \in Nat /\ c * q <= j /\ j < c * q + c
  BY <1>1
<1> HIDE DEF q
<1>3. q # 0
  <2>1. SUFFICES ASSUME q = 0 PROVE FALSE
    OBVIOUS
  <2>2. c * q = 0
    BY <2>1
  <2> QED
    BY <1>2, <2>2
<1>4. q <= c * q
  BY <1>2
<1>5. q \in 1..j
  BY <1>2, <1>3, <1>4
<1> QED
  BY <1>5 DEF q

\* A row under the pointer is a row of the grid.
LEMMA LinhaDaGrade ==
  ASSUME Tipado, NEW y \in Linhas(Janela)
  PROVE  Linha(y) \in Linhas(telaTe.grade)
BY TerminalAssumption DEF Tipado, TelasTe, Linha, Linhas

\* The clamp of the code gives a value between its bounds.
LEMMA Preso ==
  ASSUME NEW v \in Int, NEW a \in Int, NEW b \in Int, a <= b
  PROVE  Prender(v, a, b) \in a..b
BY DEF Prender

LEMMA InicioTe == InitTe => IInvTe
<1>1. SUFFICES ASSUME InitTe PROVE IInvTe
  OBVIOUS
<1>2. Janela \in 1..Janela /\ 1 \in 1..CorpoMax /\ 0 \in 0..MaxHist
  BY TerminalAssumption
<1>3. sessTe \in Sessoes /\ telaTe \in TelasTe
  BY <1>1, <1>2 DEF InitTe, Sessoes, TelasTe
<1>4. gestoTe \in Gestos /\ progTe \in Programas /\ obsTe \in HistoriasTe
  BY <1>1 DEF InitTe, Gestos, Programas, HistoriasTe, BotoesTe
<1> QED
  BY <1>1, <1>3, <1>4
  DEF InitTe, IInvTe, Tipado, SeguraDeQuemPediu, GestoInteiro, AncoraNaGrade, PtyAcompanha

-----------------------------------------------------------------------------
\* A step that leaves the gesture, the program and the size of the grid alone
\* disturbs the types only.
LEMMA QuasePasso ==
  ASSUME IInvTe, Tipado', UNCHANGED <<gestoTe, progTe>>, telaTe'.grade = telaTe.grade,
         sessTe'.fase = sessTe.fase, sessTe'.pty = sessTe.pty, obsTe'.cruzou = obsTe.cruzou
  PROVE  IInvTe'
BY DEF IInvTe, SeguraDeQuemPediu, GestoInteiro, AncoraNaGrade, PtyAcompanha, Viva

LEMMA PassoDaSessao ==
  ASSUME IInvTe, PedirPty \/ Publicar \/ Cair
  PROVE  IInvTe'
<1> USE TerminalAssumption
<1>1. CASE PedirPty
  <2>1. sessTe' \in Sessoes /\ obsTe' \in HistoriasTe
    BY <1>1 DEF PedirPty, IInvTe, Tipado, Sessoes, HistoriasTe, TelasTe
  <2>2. progTe.segura = {}
    BY <1>1 DEF PedirPty, IInvTe, SeguraDeQuemPediu, Viva
  <2>3. sessTe'.pty = telaTe'.grade
    BY <1>1 DEF PedirPty, IInvTe, Tipado, Sessoes
  <2> QED
    BY <1>1, <2>1, <2>2, <2>3
    DEF PedirPty, IInvTe, Tipado, SeguraDeQuemPediu, GestoInteiro, AncoraNaGrade, PtyAcompanha
<1>2. CASE Publicar
  <2>1. telaTe.hist + telaTe.grade \in Int /\ telaTe \in TelasTe
    BY DEF IInvTe, Tipado, TelasTe
  <2>2. Prender(telaTe.hist + telaTe.grade, 0, MaxHist) \in 0..MaxHist
    BY <2>1, Preso, SMTT(30)
  <2>3. LimparTela(telaTe) \in TelasTe /\ LimparTela(telaTe).grade = telaTe.grade
    BY <2>1, <2>2 DEF LimparTela, TelasTe
  <2>4. telaTe' \in TelasTe /\ telaTe'.grade = telaTe.grade
    BY <1>2, <2>1, <2>3 DEF Publicar
  <2>5. sessTe' \in Sessoes /\ sessTe'.pty = sessTe.pty /\ sessTe.fase = "montando"
    BY <1>2 DEF Publicar, IInvTe, Tipado, Sessoes
  <2>6. progTe.segura = {}
    BY <2>5 DEF IInvTe, SeguraDeQuemPediu, Viva
  <2> QED
    BY <1>2, <2>4, <2>5, <2>6
    DEF Publicar, IInvTe, Tipado, SeguraDeQuemPediu, GestoInteiro, AncoraNaGrade, PtyAcompanha
<1>3. CASE Cair
  <2>1. sessTe' \in Sessoes /\ sessTe'.fase = "fora"
    BY <1>3 DEF Cair, IInvTe, Tipado, Sessoes
  <2>2. progTe' \in Programas /\ progTe'.pediu = {} /\ progTe'.segura = {}
    BY <1>3 DEF Cair, IInvTe, Tipado, Programas
  <2> QED
    BY <1>3, <2>1, <2>2
    DEF Cair, IInvTe, Tipado, SeguraDeQuemPediu, GestoInteiro, AncoraNaGrade, PtyAcompanha
<1> QED
  BY <1>1, <1>2, <1>3

LEMMA PassoDaSaida ==
  ASSUME IInvTe, \/ SairLinha \/ ApagarHistorico
                 \/ \E m \in Modos, liga \in BOOLEAN : PedirModo(m, liga)
  PROVE  IInvTe'
<1>1. CASE SairLinha \/ ApagarHistorico
  <2>1. telaTe' \in TelasTe /\ telaTe'.grade = telaTe.grade
    BY <1>1, TerminalAssumption DEF SairLinha, ApagarHistorico, IInvTe, Tipado, TelasTe
  <2>2. Tipado'
    BY <1>1, <2>1 DEF SairLinha, ApagarHistorico, IInvTe, Tipado
  <2> QED
    BY <1>1, <2>1, <2>2, QuasePasso DEF SairLinha, ApagarHistorico
<1>2. ASSUME NEW m \in Modos, NEW liga \in BOOLEAN, PedirModo(m, liga)
      PROVE  IInvTe'
  <2>1. /\ progTe' \in Programas /\ progTe'.pediu \subseteq progTe'.modo
        /\ progTe'.segura \subseteq progTe.segura
        /\ progTe'.segura # {} => "mouse" \in progTe'.pediu
    BY <1>2 DEF PedirModo, IInvTe, Tipado, Programas, SeguraDeQuemPediu
  <2> QED
    BY <1>2, <2>1
    DEF PedirModo, IInvTe, Tipado, SeguraDeQuemPediu, GestoInteiro, AncoraNaGrade, PtyAcompanha,
        Viva
<1> QED
  BY <1>1, <1>2

LEMMA PassoDoQuadro ==
  ASSUME IInvTe, Redimensionar
  PROVE  IInvTe'
<1> DEFINE g == Janela \div telaTe.corpo
<1>1. telaTe.corpo \in Nat \ {0} /\ telaTe.corpo <= Janela /\ Janela \in Nat \ {0}
  BY TerminalAssumption DEF IInvTe, Tipado, TelasTe
<1>2. g \in 1..Janela
  BY <1>1, Cabe
<1> HIDE DEF g
<1>3. telaTe' \in TelasTe /\ telaTe'.grade = g
  <2>1. 0 \in 0..MaxHist
    BY TerminalAssumption
  <2> QED
    BY <1>2, <2>1 DEF Redimensionar, IInvTe, Tipado, TelasTe, g
<1>4. gestoTe' \in Gestos /\ ~gestoTe'.ativa /\ ~gestoTe'.arrastando
      /\ gestoTe'.relatando = gestoTe.relatando /\ gestoTe'.rel = gestoTe.rel
  BY DEF Redimensionar, IInvTe, Tipado, Gestos
<1>5. sessTe' \in Sessoes /\ sessTe'.fase = sessTe.fase /\ (Viva => sessTe'.pty = g)
  BY <1>2 DEF Redimensionar, IInvTe, Tipado, Sessoes, Viva, g
<1>6. obsTe' \in HistoriasTe /\ (sessTe.fase = "montando" => obsTe'.cruzou)
  BY DEF Redimensionar, IInvTe, Tipado, HistoriasTe
<1>7. Tipado'
  BY <1>3, <1>4, <1>5, <1>6 DEF Redimensionar, IInvTe, Tipado
<1>8. SeguraDeQuemPediu'
  BY <1>4, <1>5 DEF Redimensionar, IInvTe, SeguraDeQuemPediu, GestoInteiro, Viva
<1>9. PtyAcompanha'
  BY <1>3, <1>5, <1>6 DEF IInvTe, Tipado, Sessoes, PtyAcompanha, Viva
<1> QED
  BY <1>4, <1>7, <1>8, <1>9 DEF IInvTe, AncoraNaGrade

LEMMA PassoDoMouse ==
  ASSUME IInvTe, \/ \E y \in Linhas(Janela) : Mover(y) \/ \E bt \in BotoesTe : Apertar(bt, y)
                 \/ (\E bt \in BotoesTe : SoltarTe(bt)) \/ Perder
                 \/ \E p \in {-1, 1} : Rodar(p)
  PROVE  IInvTe'
<1>0. /\ gestoTe \in Gestos /\ progTe \in Programas /\ obsTe \in HistoriasTe
      /\ telaTe \in TelasTe /\ sessTe \in Sessoes /\ Tipado
  BY DEF IInvTe, Tipado
<1>a. SemPedir("mouse") \in HistoriasTe /\ SemPedir("mouse").cruzou = obsTe.cruzou
  BY <1>0 DEF SemPedir, HistoriasTe, Viva
<1>1. ASSUME NEW y \in Linhas(Janela), NEW bt \in BotoesTe, Apertar(bt, y)
      PROVE  IInvTe'
  <2> DEFINE bs == gestoTe.botao \union {bt}
  <2>b. bs \in SUBSET BotoesTe /\ BotaoXterm(bs) \in BotoesTe
    BY <1>0 DEF Gestos, BotaoXterm, BotoesTe
  <2>c. /\ UNCHANGED <<sessTe, telaTe, modsTe>>
        /\ IF Relatar THEN ApertarRelatado(bs) ELSE ApertarLocal(bs, y)
    BY <1>1 DEF Apertar
  <2> HIDE DEF bs
  <2>1. CASE Relatar
    <3>1. ApertarRelatado(bs) /\ UNCHANGED <<sessTe, telaTe, modsTe>>
      BY <2>1, <2>c
    <3>2. /\ gestoTe' \in Gestos /\ gestoTe'.relatando /\ gestoTe'.ativa = gestoTe.ativa
          /\ gestoTe'.arrastando = gestoTe.arrastando
          /\ gestoTe'.a = gestoTe.a /\ gestoTe'.b = gestoTe.b
      BY <1>0, <2>b, <3>1 DEF ApertarRelatado, Gestos
    <3>3. /\ progTe' \in Programas /\ progTe'.pediu = progTe.pediu /\ progTe'.modo = progTe.modo
          /\ progTe'.segura = progTe.segura \/ (Viva /\ "mouse" \in progTe.pediu)
      BY <1>0, <2>b, <3>1 DEF ApertarRelatado, Programas, Viva
    <3>4. obsTe' \in HistoriasTe /\ obsTe'.cruzou = obsTe.cruzou
      BY <1>a, <3>1 DEF ApertarRelatado
    <3>5. Tipado' /\ AncoraNaGrade' /\ PtyAcompanha'
      BY <3>1, <3>2, <3>3, <3>4 DEF IInvTe, Tipado, AncoraNaGrade, PtyAcompanha
    <3>6. SeguraDeQuemPediu'
      BY <3>1, <3>2, <3>3 DEF IInvTe, SeguraDeQuemPediu, GestoInteiro, Viva
    <3> QED
      BY <3>5, <3>6 DEF IInvTe
  <2>2. CASE ~Relatar
    <3>1. ApertarLocal(bs, y) /\ UNCHANGED <<sessTe, telaTe, modsTe>>
      BY <2>2, <2>c
    <3>2. Linha(y) \in Linhas(telaTe.grade) /\ Linha(y) \in Int
      BY <1>0, LinhaDaGrade DEF Linhas, TelasTe
    <3>3. /\ gestoTe' \in Gestos /\ gestoTe'.relatando = gestoTe.relatando
          /\ gestoTe'.rel = gestoTe.rel
          /\ \/ /\ gestoTe'.ativa = gestoTe.ativa /\ gestoTe'.arrastando = gestoTe.arrastando
                /\ gestoTe'.a = gestoTe.a /\ gestoTe'.b = gestoTe.b
             \/ ~gestoTe'.ativa /\ gestoTe'.a = Linha(y)
      BY <1>0, <2>b, <3>1, <3>2 DEF ApertarLocal, Gestos
    <3>4. Tipado' /\ PtyAcompanha'
      BY <3>1, <3>3 DEF ApertarLocal, IInvTe, Tipado, PtyAcompanha
    <3>5. AncoraNaGrade'
      BY <3>1, <3>2, <3>3 DEF IInvTe, AncoraNaGrade
    <3>6. SeguraDeQuemPediu'
      BY <3>1, <3>3 DEF ApertarLocal, IInvTe, SeguraDeQuemPediu, GestoInteiro, Viva
    <3> QED
      BY <3>4, <3>5, <3>6 DEF IInvTe
  <2> QED
    BY <2>1, <2>2
<1>2. ASSUME NEW y \in Linhas(Janela), Mover(y)
      PROVE  IInvTe'
  <2>1. CASE gestoTe.relatando
    <3>1. UNCHANGED <<sessTe, telaTe, progTe, modsTe, gestoTe>> /\ obsTe' = SemPedir("mouse")
      BY <1>2, <2>1 DEF Mover
    <3>2. Tipado'
      BY <1>0, <1>a, <3>1 DEF Tipado
    <3> QED
      BY <1>a, <3>1, <3>2, QuasePasso
  <2>2. CASE ~gestoTe.relatando
    <3>1. /\ gestoTe.arrastando /\ UNCHANGED <<sessTe, telaTe, progTe, modsTe, obsTe>>
          /\ gestoTe' = [gestoTe EXCEPT !.b = Linha(y), !.ativa = Linha(y) # gestoTe.a]
      BY <1>2, <2>2 DEF Mover
    <3>2. Linha(y) \in Linhas(telaTe.grade) /\ Linha(y) \in Int
      BY <1>0, LinhaDaGrade DEF Linhas, TelasTe
    <3>3. /\ gestoTe' \in Gestos /\ gestoTe'.a = gestoTe.a /\ gestoTe'.b = Linha(y)
          /\ gestoTe'.relatando = gestoTe.relatando /\ gestoTe'.rel = gestoTe.rel
      BY <1>0, <3>1, <3>2 DEF Gestos
    <3>4. Tipado' /\ SeguraDeQuemPediu' /\ PtyAcompanha'
      BY <3>1, <3>3 DEF IInvTe, Tipado, SeguraDeQuemPediu, GestoInteiro, PtyAcompanha, Viva
    <3>5. AncoraNaGrade'
      BY <3>1, <3>2, <3>3 DEF IInvTe, AncoraNaGrade
    <3> QED
      BY <3>4, <3>5 DEF IInvTe
  <2> QED
    BY <2>1, <2>2
<1>3. ASSUME NEW bt \in BotoesTe, SoltarTe(bt)
      PROVE  IInvTe'
  <2>1. /\ gestoTe' \in Gestos /\ ~gestoTe'.arrastando /\ gestoTe'.ativa = gestoTe.ativa
        /\ gestoTe'.a = gestoTe.a /\ gestoTe'.b = gestoTe.b /\ gestoTe'.rel = gestoTe.rel
    BY <1>0, <1>3 DEF SoltarTe, Gestos
  <2>2. /\ progTe' \in Programas /\ progTe'.modo = progTe.modo /\ progTe'.pediu = progTe.pediu
        /\ progTe'.segura \subseteq progTe.segura
        /\ gestoTe.relatando /\ Chega => gestoTe.rel \notin progTe'.segura
    BY <1>0, <1>3 DEF SoltarTe, Programas, Chega, Viva
  <2>3. obsTe' \in HistoriasTe /\ obsTe'.cruzou = obsTe.cruzou
    BY <1>0, <1>a, <1>3 DEF SoltarTe
  <2>4. gestoTe.rel \notin progTe'.segura /\ (progTe'.segura # {} => Viva /\ "mouse" \in progTe.pediu)
    BY <2>2 DEF IInvTe, SeguraDeQuemPediu, GestoInteiro, Chega
  <2>5. Tipado' /\ AncoraNaGrade' /\ PtyAcompanha'
    BY <1>3, <2>1, <2>2, <2>3 DEF SoltarTe, IInvTe, Tipado, AncoraNaGrade, PtyAcompanha
  <2>6. SeguraDeQuemPediu'
    BY <1>3, <2>1, <2>2, <2>4 DEF SoltarTe, IInvTe, SeguraDeQuemPediu, GestoInteiro, Viva
  <2> QED
    BY <2>5, <2>6 DEF IInvTe
<1>4. CASE Perder
  <2>1. /\ gestoTe' \in Gestos /\ gestoTe'.arrastando = gestoTe.arrastando
        /\ gestoTe'.ativa = gestoTe.ativa /\ gestoTe'.relatando = gestoTe.relatando
        /\ gestoTe'.a = gestoTe.a /\ gestoTe'.b = gestoTe.b /\ gestoTe'.rel = gestoTe.rel
    BY <1>0, <1>4 DEF Perder, Gestos
  <2> QED
    BY <1>4, <2>1
    DEF Perder, IInvTe, Tipado, SeguraDeQuemPediu, GestoInteiro, AncoraNaGrade, PtyAcompanha,
        Viva
<1>5. ASSUME NEW p \in {-1, 1}, Rodar(p)
      PROVE  IInvTe'
  <2>a. /\ telaTe.corpo - p \in Int /\ telaTe.rolagem + p * Passo \in Int
        /\ telaTe.hist \in 0..MaxHist /\ CorpoMax \in Nat \ {0} /\ MaxHist \in Nat
    BY <1>0, TerminalAssumption DEF TelasTe
  <2>1. Prender(telaTe.corpo - p, 1, CorpoMax) \in 1..CorpoMax
    BY <2>a DEF Prender
  <2>2. Prender(telaTe.rolagem + p * Passo, 0, telaTe.hist) \in 0..MaxHist
    <3>1. telaTe.hist \in Int /\ 0 <= telaTe.hist /\ telaTe.hist <= MaxHist
      BY <2>a
    <3>2. \A v \in Int : Prender(v, 0, telaTe.hist) \in 0..telaTe.hist
      BY <3>1 DEF Prender
    <3>3. 0..telaTe.hist \subseteq 0..MaxHist
      BY <2>a
    <3> QED
      BY <2>a, <3>2, <3>3, Zenon
  <2>3. /\ UNCHANGED <<sessTe, gestoTe, progTe, modsTe>>
        /\ \/ /\ telaTe' = [telaTe EXCEPT !.corpo = Prender(@ - p, 1, CorpoMax)]
              /\ UNCHANGED obsTe
           \/ obsTe' = SemPedir("mouse") /\ UNCHANGED telaTe
           \/ /\ telaTe' = [telaTe EXCEPT !.rolagem = Prender(@ + p * Passo, 0, telaTe.hist)]
              /\ UNCHANGED obsTe
    BY <1>5 DEF Rodar
  <2>4. telaTe' \in TelasTe /\ telaTe'.grade = telaTe.grade
    BY <1>0, <2>1, <2>2, <2>3 DEF TelasTe
  <2>5. obsTe' \in HistoriasTe /\ obsTe'.cruzou = obsTe.cruzou
    BY <1>0, <1>a, <2>3
  <2>6. Tipado'
    BY <1>0, <2>3, <2>4, <2>5 DEF Tipado
  <2> QED
    BY <2>3, <2>4, <2>5, <2>6, QuasePasso
<1> QED
  BY <1>1, <1>2, <1>3, <1>4, <1>5

LEMMA PassoDoTeclado ==
  ASSUME IInvTe, \/ \E m \in {"ctrl", "shift"}, aperta \in BOOLEAN : Modificador(m, aperta)
                 \/ Digitar \/ CopiarSelecao \/ Colar
  PROVE  IInvTe'
<1>0. /\ obsTe \in HistoriasTe /\ telaTe \in TelasTe /\ Tipado
  BY DEF IInvTe, Tipado
<1>1. ASSUME NEW m \in {"ctrl", "shift"}, NEW aperta \in BOOLEAN, Modificador(m, aperta)
      PROVE  IInvTe'
  <2>1. Tipado'
    BY <1>0, <1>1 DEF Modificador, Tipado
  <2> QED
    BY <1>1, <2>1, QuasePasso DEF Modificador
<1>2. CASE Digitar
  <2>1. telaTe' \in TelasTe /\ telaTe'.grade = telaTe.grade
    BY <1>0, <1>2, TerminalAssumption DEF Digitar, TelasTe
  <2>2. Tipado'
    BY <1>0, <1>2, <2>1 DEF Digitar, Tipado
  <2> QED
    BY <1>2, <2>1, <2>2, QuasePasso DEF Digitar
<1>3. CASE CopiarSelecao \/ Colar
  <2>1. obsTe' \in HistoriasTe /\ obsTe'.cruzou = obsTe.cruzou
    BY <1>0, <1>3 DEF CopiarSelecao, Colar, SemPedir, HistoriasTe, Viva
  <2>2. UNCHANGED <<sessTe, telaTe, gestoTe, progTe, modsTe>>
    BY <1>3 DEF CopiarSelecao, Colar
  <2>3. Tipado'
    BY <1>0, <2>1, <2>2 DEF Tipado
  <2> QED
    BY <2>1, <2>2, <2>3, QuasePasso
<1> QED
  BY <1>1, <1>2, <1>3

LEMMA PassoTe == IInvTe /\ [NextTe]_varsTe => IInvTe'
<1>1. SUFFICES ASSUME IInvTe, [NextTe]_varsTe PROVE IInvTe'
  OBVIOUS
<1>2. CASE UNCHANGED varsTe
  BY <1>1, <1>2
  DEF varsTe, IInvTe, Tipado, SeguraDeQuemPediu, GestoInteiro, AncoraNaGrade, PtyAcompanha, Viva
<1>3. CASE NextTe
  BY <1>1, <1>3, PassoDaSessao, PassoDaSaida, PassoDoQuadro, PassoDoMouse, PassoDoTeclado
  DEF NextTe
<1> QED
  BY <1>1, <1>2, <1>3

LEMMA IndutivoTe == SpecTe => []IInvTe
  BY InicioTe, PassoTe, PTL DEF SpecTe

\* Every variable keeps its range, whatever the fonts and the history.
THEOREM TiposDoTerminal == SpecTe => []TiposTe
<1>1. IInvTe => TiposTe
  BY DEF IInvTe, Tipado, TiposTe, Sessoes, TelasTe, Programas
<1> QED
  BY IndutivoTe, <1>1, PTL

\* The button the remote program saw pressed last is reported to its release, the marking
\* stays in the grid, and the pty follows the grid (HandlePointer,
\* redimensionar, sessao), for every window, font and history.
THEOREM TerminalSempreCerto == SpecTe => []TerminalCerto
<1>1. IInvTe => TerminalCerto
  BY DEF IInvTe, SeguraDeQuemPediu, AncoraNaGrade, PtyAcompanha, TerminalCerto,
         GestoInteiro, SelecaoNaGrade, GradeAcompanha, Viva
<1> QED
  BY IndutivoTe, <1>1, PTL
-----------------------------------------------------------------------------
(* The tab of the files                                                    *)

AbasTr == [host : Maquinas, cli : Maquinas \union {Nenhuma}, fechado : BOOLEAN,
         conectando : BOOLEAN, ocupado : BOOLEAN]
Tentativas == [fase : {"dial", "cliente", "listar", "parada"}, host : Maquinas]
Paineis == [caminho : Pastas, itens : SUBSET Itens, pend : SUBSET SUBSET Itens,
            arrasto : SUBSET BOOLEAN]
DialogosTr == [tipo : {"nenhum", "conflito", "excluir", "pasta"}, itens : SUBSET Itens,
             conf : SUBSET Itens, envio : BOOLEAN]
Lugares == (Maquinas \union {Nenhuma, Aqui}) \X Pastas
Copias == [fase : {"nova", "copiando", "erro", "feito"}, envio : BOOLEAN, itens : SUBSET Itens,
           de : Lugares, para : Lugares, falta : SUBSET Arquivos, cortou : SUBSET Arquivos]
TipadoTr ==
  /\ abaTr \in AbasTr /\ tentTr \in Tentativas /\ painelTr \in Paineis /\ dlgTr \in DialogosTr
  /\ leituras \in SUBSET (Maquinas \X Pastas) /\ copias \in SUBSET Copias

\* A file left cut ends its transfer in the same step, long before the message.
CorteAcaba == \A c \in copias : c.cortou # {} => c.fase = "erro"

IInvTr == TipadoTr /\ ConexaoGuardada /\ CorteAcaba /\ OcupadoTemDono

-----------------------------------------------------------------------------
LEMMA InicioTr == InitTr => IInvTr
<1>1. SUFFICES ASSUME InitTr PROVE IInvTr
  OBVIOUS
<1> DEFINE m0 == CHOOSE m \in Maquinas : TRUE
<1>2. m0 \in Maquinas /\ Lar \in Pastas
  BY TransferenciaAssumption
<1> HIDE DEF m0
<1>3. /\ abaTr = [host |-> m0, cli |-> Nenhuma, fechado |-> FALSE, conectando |-> TRUE,
                  ocupado |-> FALSE]
      /\ tentTr = [fase |-> "dial", host |-> m0]
  BY <1>1 DEF InitTr, m0
<1>4. abaTr \in AbasTr /\ tentTr \in Tentativas
  BY <1>2, <1>3 DEF AbasTr, Tentativas
<1>5. painelTr \in Paineis /\ dlgTr \in DialogosTr
  BY <1>1, <1>2 DEF InitTr, Paineis, DialogosTr, SemDialogo
<1> QED
  BY <1>1, <1>3, <1>4, <1>5
  DEF InitTr, IInvTr, TipadoTr, ConexaoGuardada, CorteAcaba, OcupadoTemDono

-----------------------------------------------------------------------------
(* Helpers. *)

LEMMA SemDialogoTipado == SemDialogo \in DialogosTr
BY DEF SemDialogo, DialogosTr

LEMMA ConflitosTipados ==
  ASSUME NEW itens \in SUBSET Itens, NEW envio \in BOOLEAN
  PROVE  Conflitos(itens, envio) \in SUBSET Itens
BY DEF Conflitos

\* A step of the transfer of c: one copy for another, or none.
LEMMA TrocaTipada ==
  ASSUME TipadoTr, NEW c \in copias, NEW d \in SUBSET Copias, Trocar(c, d)
  PROVE  copias' \in SUBSET Copias
BY DEF TipadoTr, Trocar

\* What a new goroutine is: nothing read, nothing cut.
LEMMA CopiaNova ==
  ASSUME NEW itens \in SUBSET Itens, NEW envio \in BOOLEAN, NEW pular \in SUBSET Itens
  PROVE  /\ Copia(itens, envio, pular) \in Copias
         /\ Copia(itens, envio, pular).cortou = {}
<1>1. <<Nenhuma, Lar>> \in Lugares /\ itens \ pular \in SUBSET Itens
  BY TransferenciaAssumption DEF Lugares
<1> QED
  BY <1>1 DEF Copia, Copias

LEMMA DispararGuarda ==
  ASSUME TipadoTr, CorteAcaba, OcupadoTemDono, abaTr'.ocupado = abaTr.ocupado,
         NEW itens \in SUBSET Itens, NEW envio \in BOOLEAN, NEW pular \in SUBSET Itens,
         Disparar(itens, envio, pular)
  PROVE  copias' \in SUBSET Copias /\ CorteAcaba' /\ OcupadoTemDono'
<1> DEFINE n == Copia(itens, envio, pular)
<1>1. n \in Copias /\ n.cortou = {}
  BY CopiaNova
<1>2. copias' = copias \union {n}
  BY DEF Disparar
<1> HIDE DEF n
<1> QED
  BY <1>1, <1>2 DEF TipadoTr, CorteAcaba, OcupadoTemDono

LEMMA TransferirGuarda ==
  ASSUME TipadoTr, CorteAcaba, OcupadoTemDono, abaTr'.ocupado = abaTr.ocupado,
         NEW itens \in SUBSET Itens, NEW envio \in BOOLEAN, Transferir(itens, envio)
  PROVE  /\ dlgTr' \in DialogosTr /\ copias' \in SUBSET Copias
         /\ CorteAcaba' /\ OcupadoTemDono'
<1> DEFINE conf == Conflitos(itens, envio)
<1>1. conf \in SUBSET Itens
  BY ConflitosTipados
<1>2. \/ UNCHANGED <<dlgTr, copias>>
      \/ Disparar(itens, envio, {}) /\ UNCHANGED dlgTr
      \/ dlgTr' = Dialogo("conflito", itens, conf, envio) /\ UNCHANGED copias
  BY DEF Transferir
<1> HIDE DEF conf
<1>3. CASE UNCHANGED <<dlgTr, copias>>
  BY <1>3 DEF TipadoTr, CorteAcaba, OcupadoTemDono
<1>4. CASE Disparar(itens, envio, {}) /\ UNCHANGED dlgTr
  <2>1. {} \in SUBSET Itens
    OBVIOUS
  <2> QED
    BY <1>4, <2>1, DispararGuarda DEF TipadoTr
<1>5. CASE dlgTr' = Dialogo("conflito", itens, conf, envio) /\ UNCHANGED copias
  BY <1>1, <1>5 DEF TipadoTr, CorteAcaba, OcupadoTemDono, Dialogo, DialogosTr
<1> QED
  BY <1>2, <1>3, <1>4, <1>5

\* A listing asked for with the client of now.
LEMMA LeituraTipada ==
  ASSUME TipadoTr, abaTr.cli # Nenhuma
  PROVE  leituras \union {<<abaTr.cli, painelTr.caminho>>} \in SUBSET (Maquinas \X Pastas)
BY DEF TipadoTr, AbasTr, Paineis

-----------------------------------------------------------------------------
LEMMA PassoDaConexao ==
  ASSUME IInvTr, \/ Reconectar \/ (\E m \in Maquinas : ApontarPara(m)) \/ Close \/ DaConexao
  PROVE  IInvTr'
<1>0. /\ abaTr \in AbasTr /\ tentTr \in Tentativas /\ TipadoTr
      /\ abaTr.conectando <=> tentTr.fase # "parada"
  BY DEF IInvTr, TipadoTr, ConexaoGuardada
<1>1. CASE Reconectar
  <2>1. /\ abaTr' \in AbasTr /\ abaTr'.cli = abaTr.cli /\ abaTr'.fechado = abaTr.fechado
        /\ abaTr'.conectando /\ abaTr'.ocupado = abaTr.ocupado
    BY <1>0, <1>1 DEF Reconectar, AbasTr
  <2>2. tentTr' \in Tentativas /\ tentTr'.fase # "parada"
    BY <1>0, <1>1 DEF Reconectar, Tentar, Tentativas, AbasTr
  <2> QED
    BY <1>1, <2>1, <2>2
    DEF Reconectar, IInvTr, TipadoTr, ConexaoGuardada, CorteAcaba, OcupadoTemDono
<1>2. ASSUME NEW m \in Maquinas, ApontarPara(m)
      PROVE  IInvTr'
  <2>1. /\ abaTr' \in AbasTr /\ ~abaTr'.fechado
        /\ abaTr'.conectando /\ abaTr'.ocupado = abaTr.ocupado
    BY <1>0, <1>2 DEF ApontarPara, AbasTr
  <2>2. tentTr' \in Tentativas /\ tentTr'.fase # "parada"
    BY <1>0, <1>2 DEF ApontarPara, Tentar, Tentativas
  <2> QED
    BY <1>2, <2>1, <2>2
    DEF ApontarPara, IInvTr, TipadoTr, ConexaoGuardada, CorteAcaba, OcupadoTemDono
<1>3. CASE Close
  <2>1. /\ abaTr' \in AbasTr /\ abaTr'.cli = Nenhuma
        /\ abaTr'.conectando = abaTr.conectando /\ abaTr'.ocupado = abaTr.ocupado
    BY <1>0, <1>3 DEF Close, AbasTr
  <2> QED
    BY <1>3, <2>1, SemDialogoTipado
    DEF Close, IInvTr, TipadoTr, ConexaoGuardada, CorteAcaba, OcupadoTemDono
<1>4. CASE Discar
  <2>1. /\ tentTr' \in Tentativas /\ abaTr' \in AbasTr
        /\ abaTr'.cli = abaTr.cli /\ abaTr'.fechado = abaTr.fechado
        /\ abaTr'.ocupado = abaTr.ocupado
        /\ abaTr'.conectando <=> tentTr'.fase # "parada"
    BY <1>0, <1>4 DEF Discar, AbasTr, Tentativas
  <2> QED
    BY <1>4, <2>1
    DEF Discar, IInvTr, TipadoTr, ConexaoGuardada, CorteAcaba, OcupadoTemDono
<1>5. CASE PublicarCliente
  <2>1. CASE abaTr.fechado
    <3>1. /\ tentTr' \in Tentativas /\ abaTr' \in AbasTr /\ UNCHANGED painelTr
          /\ abaTr'.cli = abaTr.cli /\ abaTr'.fechado = abaTr.fechado
          /\ abaTr'.ocupado = abaTr.ocupado
          /\ abaTr'.conectando <=> tentTr'.fase # "parada"
      BY <1>0, <1>5, <2>1 DEF PublicarCliente, AbasTr, Tentativas
    <3> QED
      BY <1>5, <3>1
      DEF PublicarCliente, IInvTr, TipadoTr, ConexaoGuardada, CorteAcaba, OcupadoTemDono
  <2>2. CASE ~abaTr.fechado
    <3>1. /\ tentTr' \in Tentativas /\ abaTr' \in AbasTr /\ ~abaTr'.fechado
          /\ abaTr'.ocupado = abaTr.ocupado
          /\ abaTr'.conectando <=> tentTr'.fase # "parada"
      BY <1>0, <1>5, <2>2 DEF PublicarCliente, AbasTr, Tentativas
    <3>2. painelTr' \in Paineis
      BY <1>0, <1>5, <2>2, TransferenciaAssumption DEF PublicarCliente, TipadoTr, Paineis
    <3> QED
      BY <1>5, <3>1, <3>2
      DEF PublicarCliente, IInvTr, TipadoTr, ConexaoGuardada, CorteAcaba, OcupadoTemDono
  <2> QED
    BY <2>1, <2>2
<1>6. CASE ListarAoConectar
  <2>1. /\ tentTr' \in Tentativas /\ abaTr' \in AbasTr
        /\ abaTr'.cli = abaTr.cli /\ abaTr'.fechado = abaTr.fechado
        /\ abaTr'.ocupado = abaTr.ocupado
        /\ abaTr'.conectando <=> tentTr'.fase # "parada"
    BY <1>0, <1>6 DEF ListarAoConectar, AbasTr, Tentativas
  <2>2. leituras' \in SUBSET (Maquinas \X Pastas)
    BY <1>0, <1>6, LeituraTipada DEF ListarAoConectar, TipadoTr
  <2> QED
    BY <1>6, <2>1, <2>2
    DEF ListarAoConectar, IInvTr, TipadoTr, ConexaoGuardada, CorteAcaba, OcupadoTemDono
<1> QED
  BY <1>1, <1>2, <1>3, <1>4, <1>5, <1>6 DEF DaConexao

LEMMA PassoDoPainel ==
  ASSUME IInvTr,
         \/ \E d \in Pastas : Navegar(d) \/ DigitarCaminho(d)
         \/ (\E l \in leituras : ListarRemoto(l)) \/ AplicarListagens
         \/ (\E envio \in BOOLEAN : Arrastar(envio)) \/ SoltarNoMesmoLado
  PROVE  IInvTr'
<1>0. painelTr \in Paineis /\ TipadoTr
  BY DEF IInvTr, TipadoTr
<1>1. SUFFICES /\ UNCHANGED <<abaTr, tentTr, dlgTr, copias>> /\ painelTr' \in Paineis
               /\ leituras' \in SUBSET (Maquinas \X Pastas)
  BY DEF IInvTr, TipadoTr, ConexaoGuardada, CorteAcaba, OcupadoTemDono
<1>2. ASSUME NEW d \in Pastas, Navegar(d)
      PROVE  /\ UNCHANGED <<abaTr, tentTr, dlgTr, copias>> /\ painelTr' \in Paineis
             /\ leituras' \in SUBSET (Maquinas \X Pastas)
  <2>1. painelTr' \in Paineis
    BY <1>0, <1>2 DEF Navegar, Paineis
  <2>2. leituras' \in SUBSET (Maquinas \X Pastas)
    BY <1>0, <1>2 DEF Navegar, TipadoTr, AbasTr
  <2> QED
    BY <1>2, <2>1, <2>2 DEF Navegar
<1>3. ASSUME NEW d \in Pastas, DigitarCaminho(d)
      PROVE  /\ UNCHANGED <<abaTr, tentTr, dlgTr, copias>> /\ painelTr' \in Paineis
             /\ leituras' \in SUBSET (Maquinas \X Pastas)
  BY <1>0, <1>3 DEF DigitarCaminho, Paineis, TipadoTr
<1>4. ASSUME NEW l \in leituras, ListarRemoto(l)
      PROVE  /\ UNCHANGED <<abaTr, tentTr, dlgTr, copias>> /\ painelTr' \in Paineis
             /\ leituras' \in SUBSET (Maquinas \X Pastas)
  <2>1. PICK resposta \in {{}, {ItensEm(l[1], l[2])}} :
          painelTr' = [painelTr EXCEPT !.pend = resposta]
    BY <1>4 DEF ListarRemoto
  <2>2. resposta \in SUBSET SUBSET Itens
    BY <2>1 DEF ItensEm
  <2> QED
    BY <1>0, <1>4, <2>1, <2>2 DEF ListarRemoto, Paineis, TipadoTr
<1>5. CASE AplicarListagens
  <2> DEFINE l == CHOOSE x \in painelTr.pend : TRUE
  <2>1. painelTr' = [painelTr EXCEPT !.itens = l, !.pend = {}] /\ painelTr.pend # {}
    BY <1>5 DEF AplicarListagens
  <2>2. l \in painelTr.pend
    BY <2>1
  <2> HIDE DEF l
  <2>3. l \in SUBSET Itens
    BY <1>0, <2>2 DEF Paineis
  <2> QED
    BY <1>0, <1>5, <2>1, <2>3 DEF AplicarListagens, Paineis, TipadoTr
<1>6. CASE (\E envio \in BOOLEAN : Arrastar(envio)) \/ SoltarNoMesmoLado
  BY <1>0, <1>6 DEF Arrastar, SoltarNoMesmoLado, Paineis, TipadoTr
<1> QED
  BY <1>2, <1>3, <1>4, <1>5, <1>6

LEMMA PassoDoPedido ==
  ASSUME IInvTr,
         \/ \E envio \in BOOLEAN, s \in SUBSET Itens : IniciarTransferencia(s, envio)
         \/ \E s \in SUBSET Itens : Soltar(s)
         \/ Sobrescrever \/ Pular
  PROVE  IInvTr'
<1>0. TipadoTr /\ CorteAcaba /\ OcupadoTemDono /\ ConexaoGuardada
  BY DEF IInvTr
<1>1. ASSUME NEW envio \in BOOLEAN, NEW s \in SUBSET Itens, IniciarTransferencia(s, envio)
      PROVE  IInvTr'
  <2>1. Transferir(s, envio) /\ UNCHANGED <<abaTr, tentTr, painelTr, leituras>>
    BY <1>1 DEF IniciarTransferencia
  <2>2. dlgTr' \in DialogosTr /\ copias' \in SUBSET Copias /\ CorteAcaba' /\ OcupadoTemDono'
    BY <1>0, <2>1, TransferirGuarda
  <2> QED
    BY <1>0, <2>1, <2>2 DEF IInvTr, TipadoTr, ConexaoGuardada
<1>2. ASSUME NEW s \in SUBSET Itens, Soltar(s)
      PROVE  IInvTr'
  <2>1. PICK envio \in painelTr.arrasto : Transferir(s, envio)
    BY <1>2 DEF Soltar
  <2>2. envio \in BOOLEAN
    BY <1>0, <2>1 DEF TipadoTr, Paineis
  <2>3. UNCHANGED <<abaTr, tentTr, leituras>> /\ painelTr' \in Paineis
    BY <1>0, <1>2 DEF Soltar, TipadoTr, Paineis
  <2>4. dlgTr' \in DialogosTr /\ copias' \in SUBSET Copias /\ CorteAcaba' /\ OcupadoTemDono'
    BY <1>0, <2>1, <2>2, <2>3, TransferirGuarda
  <2> QED
    BY <1>0, <2>3, <2>4 DEF IInvTr, TipadoTr, ConexaoGuardada
<1>3. CASE Sobrescrever \/ Pular
  <2>1. PICK pular \in {{}, dlgTr.conf} : Responder(pular)
    BY <1>3 DEF Sobrescrever, Pular
  <2>2. dlgTr.itens \in SUBSET Itens /\ dlgTr.envio \in BOOLEAN /\ pular \in SUBSET Itens
    BY <1>0, <2>1 DEF TipadoTr, DialogosTr
  <2>3. /\ Disparar(dlgTr.itens, dlgTr.envio, pular) /\ dlgTr' = SemDialogo
        /\ UNCHANGED <<abaTr, tentTr, painelTr, leituras>>
    BY <2>1 DEF Responder
  <2>4. copias' \in SUBSET Copias /\ CorteAcaba' /\ OcupadoTemDono'
    BY <1>0, <2>2, <2>3, DispararGuarda
  <2> QED
    BY <1>0, <2>3, <2>4, SemDialogoTipado DEF IInvTr, TipadoTr, ConexaoGuardada
<1> QED
  BY <1>1, <1>2, <1>3

LEMMA PassoDaExclusao ==
  ASSUME IInvTr,
         \/ \E s \in Selecoes(FALSE) : Excluir(s)
         \/ Cancelar \/ CriarPasta \/ PastaCriada
         \/ \E s \in SUBSET dlgTr.itens : ExcluirRemoto(s)
  PROVE  IInvTr'
<1>0. TipadoTr
  BY DEF IInvTr
<1>1. SUFFICES /\ UNCHANGED <<abaTr, tentTr, painelTr, copias>> /\ dlgTr' \in DialogosTr
               /\ leituras' \in SUBSET (Maquinas \X Pastas)
  BY DEF IInvTr, TipadoTr, ConexaoGuardada, CorteAcaba, OcupadoTemDono
<1>2. ASSUME NEW s \in Selecoes(FALSE), Excluir(s)
      PROVE  /\ UNCHANGED <<abaTr, tentTr, painelTr, copias>> /\ dlgTr' \in DialogosTr
             /\ leituras' \in SUBSET (Maquinas \X Pastas)
  <2>1. s \in SUBSET Itens
    BY <1>0 DEF Selecoes, TipadoTr, Paineis
  <2> QED
    BY <1>0, <1>2, <2>1 DEF Excluir, Dialogo, DialogosTr, TipadoTr
<1>3. CASE Cancelar
  BY <1>0, <1>3, SemDialogoTipado DEF Cancelar, TipadoTr
<1>4. CASE CriarPasta
  BY <1>0, <1>4 DEF CriarPasta, Dialogo, DialogosTr, TipadoTr
<1>5. CASE PastaCriada
  BY <1>0, <1>5, SemDialogoTipado, LeituraTipada DEF PastaCriada, TipadoTr
<1>6. ASSUME NEW s \in SUBSET dlgTr.itens, ExcluirRemoto(s)
      PROVE  /\ UNCHANGED <<abaTr, tentTr, painelTr, copias>> /\ dlgTr' \in DialogosTr
             /\ leituras' \in SUBSET (Maquinas \X Pastas)
  <2>1. \/ leituras' = leituras
        \/ /\ abaTr.cli # Nenhuma
           /\ leituras' = leituras \union {<<abaTr.cli, painelTr.caminho>>}
    BY <1>6 DEF ExcluirRemoto
  <2>2. leituras' \in SUBSET (Maquinas \X Pastas)
    BY <1>0, <2>1, LeituraTipada DEF TipadoTr
  <2>3. UNCHANGED <<abaTr, tentTr, painelTr, copias>> /\ dlgTr' = SemDialogo
    BY <1>6 DEF ExcluirRemoto
  <2> QED
    BY <2>2, <2>3, SemDialogoTipado
<1> QED
  BY <1>2, <1>3, <1>4, <1>5, <1>6

\* A copy that left a cut file returned an error.
LEMMA ResultadoDaCopia ==
  ASSUME NEW c, NEW f, NEW r \in Copiar(c, f)
  PROVE  r.erro \in BOOLEAN /\ (r.fica = "cortado" => r.erro)
<1> DEFINE vazia == [fica |-> discos[c.para[1]][c.para[2]][f], erro |-> TRUE]
           inteira == [fica |-> "inteiro", erro |-> FALSE]
           cortada == [fica |-> "cortado", erro |-> TRUE]
<1>1. /\ vazia.erro = TRUE /\ cortada.erro = TRUE
      /\ inteira.erro = FALSE /\ inteira.fica = "inteiro"
  OBVIOUS
<1>2. Copiar(c, f) = IF ~Existe(c.de[1], c.de[2], f) THEN {vazia} ELSE {inteira, cortada}
  BY DEF Copiar
<1> HIDE DEF vazia, inteira, cortada
<1>3. r \in {vazia, inteira, cortada}
  BY <1>2, Zenon
<1> QED
  BY <1>1, <1>3

LEMMA PassoDaCopia ==
  ASSUME IInvTr, NEW c \in copias, DaCopia(c)
  PROVE  IInvTr'
<1>0. /\ TipadoTr /\ CorteAcaba /\ OcupadoTemDono /\ ConexaoGuardada
      /\ c \in Copias /\ abaTr \in AbasTr
  BY DEF IInvTr, TipadoTr
<1>1. CASE Comecar(c)
  <2>1. CASE abaTr.cli = Nenhuma
    <3>1. /\ c.fase = "nova" /\ copias' = copias \ {c}
          /\ UNCHANGED <<abaTr, tentTr, painelTr, leituras, dlgTr>>
      BY <1>1, <2>1 DEF Comecar, Trocar
    <3> QED
      BY <1>0, <3>1 DEF IInvTr, TipadoTr, ConexaoGuardada, CorteAcaba, OcupadoTemDono
  <2>2. CASE abaTr.cli # Nenhuma
    <3> DEFINE de == Origem(c.envio)
               para == Destino(c.envio)
               falta == {ArquivoDe(i) : i \in {j \in c.itens : j = "solto"
                                                 \/ Existe(de[1], de[2], ArquivoDe(j))}}
               n == [c EXCEPT !.fase = "copiando", !.de = de, !.para = para, !.falta = falta]
    <3>1. /\ c.fase = "nova" /\ copias' = (copias \ {c}) \union {n}
          /\ abaTr' = [abaTr EXCEPT !.ocupado = TRUE]
          /\ UNCHANGED <<tentTr, painelTr, leituras, dlgTr>>
      BY <1>1, <2>2 DEF Comecar, Trocar
    <3>2. de \in Lugares /\ para \in Lugares
      BY <1>0, TransferenciaAssumption
      DEF Origem, Destino, Lugares, TipadoTr, AbasTr, Paineis
    <3>3. falta \in SUBSET Arquivos
      BY DEF ArquivoDe, Arquivos
    <3> HIDE DEF de, para, falta
    <3>4. n \in Copias /\ n.fase = "copiando" /\ n.cortou = c.cortou
      BY <1>0, <3>2, <3>3 DEF Copias
    <3>5. c.cortou = {}
      BY <1>0, <3>1 DEF CorteAcaba
    <3> HIDE DEF n
    <3>6. /\ abaTr' \in AbasTr /\ abaTr'.cli = abaTr.cli /\ abaTr'.fechado = abaTr.fechado
          /\ abaTr'.conectando = abaTr.conectando
      BY <1>0, <3>1 DEF AbasTr
    <3>7. copias' \in SUBSET Copias /\ CorteAcaba' /\ OcupadoTemDono'
      BY <1>0, <3>1, <3>4, <3>5 DEF TipadoTr, CorteAcaba, OcupadoTemDono
    <3> QED
      BY <1>0, <3>1, <3>6, <3>7 DEF IInvTr, TipadoTr, ConexaoGuardada
  <2> QED
    BY <2>1, <2>2
<1>2. CASE Anunciar(c)
  <2> DEFINE n == [c EXCEPT !.fase = "feito"]
  <2>1. /\ c.fase = "copiando" /\ copias' = (copias \ {c}) \union {n}
        /\ UNCHANGED <<abaTr, tentTr, painelTr, leituras, dlgTr>>
    BY <1>2 DEF Anunciar, Trocar
  <2>2. n \in Copias /\ n.fase = "feito" /\ n.cortou = c.cortou /\ c.cortou = {}
    BY <1>0, <2>1 DEF Copias, CorteAcaba
  <2> HIDE DEF n
  <2> QED
    BY <1>0, <2>1, <2>2 DEF IInvTr, TipadoTr, ConexaoGuardada, CorteAcaba, OcupadoTemDono
<1>3. CASE Encerrar(c)
  <2>1. /\ abaTr' \in AbasTr /\ abaTr'.cli = abaTr.cli /\ abaTr'.fechado = abaTr.fechado
        /\ abaTr'.conectando = abaTr.conectando /\ ~abaTr'.ocupado
    BY <1>0, <1>3 DEF Encerrar, AbasTr
  <2>2. leituras' \in SUBSET (Maquinas \X Pastas)
    BY <1>0, <1>3, LeituraTipada DEF Encerrar, TipadoTr
  <2> QED
    BY <1>0, <1>3, <2>1, <2>2
    DEF Encerrar, Trocar, IInvTr, TipadoTr, ConexaoGuardada, CorteAcaba, OcupadoTemDono
<1>4. ASSUME NEW f \in c.falta, CopiarArquivo(c, f)
      PROVE  IInvTr'
  <2>1. PICK r \in Copiar(c, f) :
          Trocar(c, {[c EXCEPT !.falta = @ \ {f}, !.fase = IF r.erro THEN "erro" ELSE @,
                               !.cortou = IF r.fica = "cortado" THEN @ \union {f} ELSE @]})
    BY <1>4 DEF CopiarArquivo
  <2> DEFINE n == [c EXCEPT !.falta = @ \ {f}, !.fase = IF r.erro THEN "erro" ELSE @,
                            !.cortou = IF r.fica = "cortado" THEN @ \union {f} ELSE @]
  <2>2. /\ c.fase = "copiando" /\ copias' = (copias \ {c}) \union {n}
        /\ UNCHANGED <<abaTr, tentTr, painelTr, leituras, dlgTr>>
    BY <1>4, <2>1 DEF CopiarArquivo, Trocar
  <2>3. r.erro \in BOOLEAN /\ (r.fica = "cortado" => r.erro)
    BY <2>1, ResultadoDaCopia
  <2>4. c.cortou = {} /\ f \in Arquivos
    BY <1>0, <2>2 DEF CorteAcaba, Copias
  <2>5. n \in Copias /\ n.fase # "nova"
    BY <1>0, <2>2, <2>3, <2>4 DEF Copias
  <2>6. n.cortou # {} => n.fase = "erro"
    BY <1>0, <2>3, <2>4 DEF Copias
  <2> HIDE DEF n
  <2> QED
    BY <1>0, <2>2, <2>5, <2>6
    DEF IInvTr, TipadoTr, ConexaoGuardada, CorteAcaba, OcupadoTemDono
<1> QED
  BY <1>1, <1>2, <1>3, <1>4 DEF DaCopia

LEMMA PassoTr == IInvTr /\ [NextTr]_varsTr => IInvTr'
<1>1. SUFFICES ASSUME IInvTr, [NextTr]_varsTr PROVE IInvTr'
  OBVIOUS
<1>2. CASE UNCHANGED varsTr
  BY <1>1, <1>2
  DEF varsTr, IInvTr, TipadoTr, ConexaoGuardada, CorteAcaba, OcupadoTemDono
<1>3. \A envio \in BOOLEAN : Selecoes(envio) \subseteq SUBSET Itens
  BY <1>1 DEF IInvTr, TipadoTr, Paineis, Selecoes, ItensEm
<1>4. CASE NextTr
  BY <1>1, <1>3, <1>4, PassoDaConexao, PassoDoPainel, PassoDoPedido, PassoDaExclusao, PassoDaCopia
  DEF NextTr
<1> QED
  BY <1>1, <1>2, <1>4

LEMMA IndutivoTr == SpecTr => []IInvTr
  BY InicioTr, PassoTr, PTL DEF SpecTr

\* Every variable keeps its range, with any number of copies under way.
THEOREM TiposDaTransferencia == SpecTr => []TiposTr
<1>1. IInvTr => TiposTr
  BY DEF IInvTr, TipadoTr, TiposTr, AbasTr, Tentativas, Paineis, Copias
<1> QED
  BY IndutivoTr, <1>1, PTL

\* No connection is kept by a closed tab and there is one attempt at most, a cut
\* file is never announced as transferred, and the mark that refuses another
\* transfer has one behind it (conectar, transferir), for every number of
\* machines and of copies.
THEOREM TransferenciaSempreCerta == SpecTr => []TransferenciaCerta
<1>1. IInvTr => SoAnunciaInteiro
  BY DEF IInvTr, CorteAcaba, SoAnunciaInteiro
<1>2. IInvTr => TransferenciaCerta
  BY <1>1 DEF IInvTr, TransferenciaCerta
<1> QED
  BY IndutivoTr, <1>2, PTL

-----------------------------------------------------------------------------
(* The input                                                               *)

\* The records that TiposEn leaves open.
EventosEn == [aba : Remotas, tecla : Teclas, aperta : BOOLEAN]
JanelasEn == [sistema : {"linux", "outros"}, aba : Remotas \union {"painel"},
              dialogo : BOOLEAN, campo : BOOLEAN, grab : BOOLEAN, ligada : BOOLEAN,
              inibe : BOOLEAN, desenhada : BOOLEAN]
TecladosEn == [presas : SUBSET Teclas, ctrl : BOOLEAN, pedidos : SUBSET {"lateral", "fechar"}]
PontasEn == [viva : BOOLEAN, ronly : BOOLEAN, botoes : SUBSET Botoes]
MaquinasEn == [teclas : SUBSET Teclas, botoes : SUBSET Botoes]
FilasEn == [fila : Seq(EventosEn), mao : {<<>>} \union {<<e>> : e \in EventosEn}]

TipadaEn ==
  /\ janelaEn \in JanelasEn /\ teclado \in TecladosEn /\ filaEn \in FilasEn
  /\ pontaEn \in [Remotas -> PontasEn] /\ remotoEn \in [Remotas -> MaquinasEn]

\* The keys nobody has to release: the operator holds them, or the application kept
\* their release from the tab.
Resolvidas == (Remotas \X teclado.presas) \union desviadas

\* Every press of the queue is of such a key, or has its release behind it.
Seguidos(f, R) ==
  \A i \in DOMAIN f : f[i].aperta =>
     \/ <<f[i].aba, f[i].tecla>> \in R
     \/ \E j \in DOMAIN f : i < j /\ f[j] = Evento(f[i].aba, f[i].tecla, FALSE)

\* The same of the event the writer took out of a queue f.
MaoSeguida(f, m, R) ==
  \A e \in ToSet(m) : e.aperta =>
     <<e.aba, e.tecla>> \in R \/ Evento(e.aba, e.tecla, FALSE) \in ToSet(f)

\* And of what a machine holds down.
Sustentadas(r, f, m, R) ==
  \A a \in Remotas : \A k \in r[a].teclas :
     <<a, k>> \in R \/ Evento(a, k, FALSE) \in ToSet(f) \union ToSet(m)

\* A machine with no session holds nothing, and there is a queue on Linux only.
SemSessaoNada == \A a \in Remotas : ~pontaEn[a].viva => remotoEn[a].teclas = {}
SoNoLinux == janelaEn.sistema = "outros" => filaEn.fila = <<>> /\ filaEn.mao = <<>>

\* What the compositor was asked for is what the window remembers asking.
InibicaoLembrada ==
  /\ janelaEn.inibe = janelaEn.ligada
  /\ ~janelaEn.grab => ~janelaEn.ligada

IInvEn ==
  /\ TipadaEn /\ SemSessaoNada /\ SoNoLinux /\ InibicaoLembrada /\ InibicaoAcompanha
  /\ Seguidos(filaEn.fila, Resolvidas)
  /\ MaoSeguida(filaEn.fila, filaEn.mao, Resolvidas)
  /\ Sustentadas(remotoEn, filaEn.fila, filaEn.mao, Resolvidas)

-----------------------------------------------------------------------------
(* The queue.                                                              *)

\* Taking one element out keeps the others, in their order.
LEMMA RemoverUm ==
  ASSUME NEW S, NEW f \in Seq(S), NEW i \in 1 .. Len(f)
  PROVE  /\ RemoveAt(f, i) \in Seq(S)
         /\ Len(RemoveAt(f, i)) = Len(f) - 1
         /\ \A j \in 1 .. Len(f) - 1 :
              RemoveAt(f, i)[j] = IF j < i THEN f[j] ELSE f[j + 1]
<1>1. /\ SubSeq(f, 1, i - 1) \in Seq(S) /\ Len(SubSeq(f, 1, i - 1)) = i - 1
      /\ \A j \in 1 .. i - 1 : SubSeq(f, 1, i - 1)[j] = f[j]
  OBVIOUS
<1>2. /\ SubSeq(f, i + 1, Len(f)) \in Seq(S) /\ Len(SubSeq(f, i + 1, Len(f))) = Len(f) - i
      /\ \A j \in 1 .. Len(f) - i : SubSeq(f, i + 1, Len(f))[j] = f[i + j]
  <2>1. \A k \in i + 1 .. Len(f) : f[k] \in S
    OBVIOUS
  <2>2. \A k \in 1 .. Len(f) - i : k \in 1 .. Len(f) - (i + 1) + 1 /\ (i + 1) + k - 1 = i + k
    OBVIOUS
  <2>3. i + 1 \in Int /\ Len(f) \in Int
    OBVIOUS
  <2>4. SubSeq(f, i + 1, Len(f)) \in Seq(S)
    BY <2>1, <2>3, SubSeqProperties
  <2>5. \A k \in 1 .. Len(f) - (i + 1) + 1 : SubSeq(f, i + 1, Len(f))[k] = f[(i + 1) + k - 1]
    BY <2>1, <2>3, SubSeqProperties
  <2>6. Len(SubSeq(f, i + 1, Len(f))) = Len(f) - i
    BY <2>1, <2>3, SubSeqProperties
  <2>. QED BY <2>2, <2>4, <2>5, <2>6
<1>. DEFINE a == SubSeq(f, 1, i - 1)
            b == SubSeq(f, i + 1, Len(f))
<1>3. RemoveAt(f, i) = a \o b
  BY DEF RemoveAt
<1>4. /\ a \in Seq(S) /\ Len(a) = i - 1 /\ b \in Seq(S) /\ Len(b) = Len(f) - i
      /\ \A j \in 1 .. i - 1 : a[j] = f[j]
      /\ \A j \in 1 .. Len(f) - i : b[j] = f[i + j]
  BY <1>1, <1>2
<1>. HIDE DEF a, b
<1>5. /\ a \o b \in Seq(S) /\ Len(a \o b) = Len(f) - 1
      /\ \A j \in 1 .. Len(f) - 1 : (a \o b)[j] = IF j <= i - 1 THEN a[j] ELSE b[j - (i - 1)]
  <2>1. /\ a \o b \in Seq(S) /\ Len(a \o b) = Len(a) + Len(b)
        /\ \A j \in 1 .. Len(a) + Len(b) :
             (a \o b)[j] = IF j <= Len(a) THEN a[j] ELSE b[j - Len(a)]
    BY <1>4, ConcatProperties
  <2>2. Len(a) + Len(b) = Len(f) - 1
    BY <1>4
  <2>. QED BY <1>4, <2>1, <2>2
<1>6. ASSUME NEW j \in 1 .. Len(f) - 1
      PROVE  (a \o b)[j] = IF j < i THEN f[j] ELSE f[j + 1]
  <2>1. CASE j < i
    BY <1>4, <1>5, <2>1
  <2>2. CASE ~(j < i)
    <3>1. j - (i - 1) \in 1 .. Len(f) - i /\ i + (j - (i - 1)) = j + 1
      BY <2>2
    <3>2. b[j - (i - 1)] = f[i + (j - (i - 1))]
      BY <1>4, <3>1
    <3>. QED BY <1>5, <2>2, <3>1, <3>2
  <2>. QED BY <2>1, <2>2
<1>. QED BY <1>3, <1>5, <1>6

\* A press taken out of a queue costs no release its place: the presses that stay are
\* still followed.
LEMMA RemoverAperto ==
  ASSUME NEW f \in Seq(EventosEn), NEW i \in 1 .. Len(f), f[i].aperta, NEW R
  PROVE  /\ RemoveAt(f, i) \in Seq(EventosEn)
         /\ \A e \in ToSet(f) : ~e.aperta => e \in ToSet(RemoveAt(f, i))
         /\ Seguidos(f, R) => Seguidos(RemoveAt(f, i), R)
<1>. DEFINE g == RemoveAt(f, i)
            NovoLugar(j) == IF j < i THEN j ELSE j - 1
            Velho(j) == IF j < i THEN j ELSE j + 1
<1>1. /\ g \in Seq(EventosEn) /\ Len(g) = Len(f) - 1
      /\ \A j \in 1 .. Len(f) - 1 : g[j] = f[Velho(j)]
  BY RemoverUm
<1>. HIDE DEF g
<1>2. \A j \in 1 .. Len(f) : j # i => /\ NovoLugar(j) \in 1 .. Len(f) - 1
                                      /\ Velho(NovoLugar(j)) = j
  OBVIOUS
<1>3. \A j \in 1 .. Len(f) - 1 : /\ Velho(j) \in 1 .. Len(f) /\ Velho(j) # i
                                 /\ NovoLugar(Velho(j)) = j
  OBVIOUS
<1>4. \A j, l \in 1 .. Len(f) : j # i /\ l # i /\ j < l => NovoLugar(j) < NovoLugar(l)
  OBVIOUS
<1>5. DOMAIN f = 1 .. Len(f) /\ DOMAIN g = 1 .. Len(f) - 1
  BY <1>1
<1>6. \A j \in DOMAIN f : j # i => NovoLugar(j) \in DOMAIN g /\ g[NovoLugar(j)] = f[j]
  <2>. HIDE DEF NovoLugar, Velho
  <2>. QED BY <1>1, <1>2, <1>5
<1>7. \A e \in ToSet(f) : ~e.aperta => e \in ToSet(g)
  <2>. HIDE DEF NovoLugar, Velho
  <2>. QED BY <1>6 DEF ToSet
<1>8. ASSUME Seguidos(f, R) PROVE Seguidos(g, R)
  <2>. SUFFICES ASSUME NEW j \in DOMAIN g, g[j].aperta, <<g[j].aba, g[j].tecla>> \notin R
                PROVE  \E l \in DOMAIN g : j < l /\ g[l] = Evento(g[j].aba, g[j].tecla, FALSE)
    BY DEF Seguidos
  <2>. DEFINE v == Velho(j)
  <2>1. v \in DOMAIN f /\ v # i /\ g[j] = f[v] /\ NovoLugar(v) = j
    BY <1>1, <1>3, <1>5
  <2>. HIDE DEF v, NovoLugar, Velho
  <2>2. PICK l \in DOMAIN f : v < l /\ f[l] = Evento(f[v].aba, f[v].tecla, FALSE)
    BY <1>8, <2>1 DEF Seguidos
  <2>3. l # i
    BY <2>2 DEF Evento
  <2>4. NovoLugar(l) \in DOMAIN g /\ g[NovoLugar(l)] = f[l] /\ j < NovoLugar(l)
    BY <1>4, <1>5, <1>6, <2>1, <2>2, <2>3
  <2>. QED BY <2>1, <2>2, <2>4
<1>. QED BY <1>1, <1>7, <1>8 DEF g

\* An event at the end follows everything: if it is a release, its key may leave R.
LEMMA AcrescentarEvento ==
  ASSUME NEW f \in Seq(EventosEn), NEW e \in EventosEn, NEW R, NEW Q,
         Seguidos(f, R), e.aperta => <<e.aba, e.tecla>> \in Q,
         \A x \in R : x \in Q \/ (~e.aperta /\ x = <<e.aba, e.tecla>>)
  PROVE  /\ Append(f, e) \in Seq(EventosEn)
         /\ \A x \in ToSet(f) \union {e} : x \in ToSet(Append(f, e))
         /\ Seguidos(Append(f, e), Q)
<1>. DEFINE g == Append(f, e)
            n == Len(f) + 1
<1>1. /\ g \in Seq(EventosEn) /\ Len(g) = n /\ n \in Nat /\ Len(f) \in Nat
      /\ \A j \in 1 .. Len(f) : g[j] = f[j]
      /\ g[n] = e
  OBVIOUS
<1>. HIDE DEF g
<1>2. DOMAIN f = 1 .. Len(f) /\ DOMAIN g = 1 .. n
  BY <1>1
<1>3. /\ n \in DOMAIN g /\ DOMAIN f \subseteq DOMAIN g
      /\ \A j \in DOMAIN g : j \in DOMAIN f \/ j = n
      /\ \A j \in DOMAIN f : j < n
  BY <1>1, <1>2
<1>4. \A j \in DOMAIN f : g[j] = f[j]
  BY <1>1, <1>2
<1>. HIDE DEF n
<1>5. \A x \in ToSet(f) \union {e} : x \in ToSet(g)
  BY <1>1, <1>3, <1>4 DEF ToSet
<1>6. ASSUME NEW j \in DOMAIN g, g[j].aperta, <<g[j].aba, g[j].tecla>> \notin Q
      PROVE  \E l \in DOMAIN g : j < l /\ g[l] = Evento(g[j].aba, g[j].tecla, FALSE)
  <2>1. j \in DOMAIN f /\ g[j] = f[j] /\ j < n
    BY <1>1, <1>3, <1>4, <1>6
  <2>2. CASE <<f[j].aba, f[j].tecla>> \in R
    <3>1. ~e.aperta /\ <<f[j].aba, f[j].tecla>> = <<e.aba, e.tecla>>
      BY <1>6, <2>1, <2>2
    <3>2. e = Evento(f[j].aba, f[j].tecla, FALSE)
      BY <3>1 DEF Evento, EventosEn
    <3>. QED BY <1>1, <1>3, <2>1, <3>2
  <2>3. CASE <<f[j].aba, f[j].tecla>> \notin R
    <3>1. PICK l \in DOMAIN f : j < l /\ f[l] = Evento(f[j].aba, f[j].tecla, FALSE)
      BY <1>6, <2>1, <2>3 DEF Seguidos
    <3>. QED BY <1>3, <1>4, <2>1, <3>1
  <2>. QED BY <2>2, <2>3
<1>. QED BY <1>1, <1>5, <1>6 DEF Seguidos, g

\* enfileirar: however full the queue, its releases stay, a release goes in, and every
\* press is followed.
LEMMA EnfileirarGuarda ==
  ASSUME NEW f \in Seq(EventosEn), NEW e \in EventosEn, NEW R, NEW Q,
         Seguidos(f, R), e.aperta => <<e.aba, e.tecla>> \in Q,
         \A x \in R : x \in Q \/ (~e.aperta /\ x = <<e.aba, e.tecla>>)
  PROVE  /\ Enfileirar(f, e) \in Seq(EventosEn)
         /\ \A x \in ToSet(f) \union {e} : ~x.aperta => x \in ToSet(Enfileirar(f, e))
         /\ Seguidos(Enfileirar(f, e), Q)
<1>1. CASE Len(f) < Teto
  BY <1>1, AcrescentarEvento DEF Enfileirar
<1>2. CASE ~(Len(f) < Teto) /\ Apertos(f) # {}
  <2>. DEFINE p == PrimeiroPress(f)
  <2>1. p \in Apertos(f)
    <3>1. Apertos(f) \subseteq Nat
      BY DEF Apertos
    <3>2. PICK m \in Apertos(f) : \A j \in Apertos(f) : m <= j
      BY <1>2, <3>1, MenorDeTodos
    <3>. QED BY <3>2 DEF PrimeiroPress
  <2>2. p \in 1 .. Len(f) /\ f[p].aperta
    BY <2>1 DEF Apertos
  <2>. HIDE DEF p
  <2>3. /\ RemoveAt(f, p) \in Seq(EventosEn)
        /\ \A x \in ToSet(f) : ~x.aperta => x \in ToSet(RemoveAt(f, p))
        /\ Seguidos(RemoveAt(f, p), R)
    BY <2>2, RemoverAperto
  <2>4. Enfileirar(f, e) = Append(RemoveAt(f, p), e)
    BY <1>2 DEF Enfileirar, p
  <2>. QED BY <2>3, <2>4, AcrescentarEvento
<1>3. CASE ~(Len(f) < Teto) /\ Apertos(f) = {} /\ e.aperta
  <2>1. Enfileirar(f, e) = f
    BY <1>3 DEF Enfileirar
  <2>2. \A i \in DOMAIN f : ~f[i].aperta
    BY <1>3 DEF Apertos
  <2>. QED BY <1>3, <2>1, <2>2 DEF Seguidos
<1>4. CASE ~(Len(f) < Teto) /\ Apertos(f) = {} /\ ~e.aperta
  BY <1>4, AcrescentarEvento DEF Enfileirar
<1>. QED BY <1>1, <1>2, <1>3, <1>4

\* rodar takes the head: what was behind it still is, and what was in the queue is in
\* the queue or in the writer's hand.
LEMMA TirarCabeca ==
  ASSUME NEW f \in Seq(EventosEn), f # <<>>, NEW R, Seguidos(f, R)
  PROVE  /\ Head(f) \in EventosEn /\ Tail(f) \in Seq(EventosEn)
         /\ \A x \in ToSet(f) : x \in ToSet(Tail(f)) \/ x = Head(f)
         /\ Seguidos(Tail(f), R)
         /\ Head(f).aperta =>
              \/ <<Head(f).aba, Head(f).tecla>> \in R
              \/ Evento(Head(f).aba, Head(f).tecla, FALSE) \in ToSet(Tail(f))
<1>. DEFINE g == Tail(f)
            h == Head(f)
<1>1. /\ g \in Seq(EventosEn) /\ Len(g) = Len(f) - 1 /\ Len(f) \in Nat /\ Len(f) # 0
      /\ \A i \in 1 .. Len(f) - 1 : g[i] = f[i + 1]
      /\ h = f[1] /\ h \in EventosEn
  BY HeadTailProperties
<1>. HIDE DEF g, h
<1>2. DOMAIN f = 1 .. Len(f) /\ DOMAIN g = 1 .. Len(f) - 1 /\ 1 \in DOMAIN f
  BY <1>1
<1>3. \A i \in DOMAIN f : i # 1 => i - 1 \in DOMAIN g /\ g[i - 1] = f[i]
  BY <1>1, <1>2
<1>4. \A i \in DOMAIN g : i + 1 \in DOMAIN f /\ i + 1 # 1 /\ g[i] = f[i + 1] /\ (i + 1) - 1 = i
  BY <1>1, <1>2
<1>5. /\ \A i \in DOMAIN g : \A l \in DOMAIN f : i + 1 < l => l # 1 /\ i < l - 1
      /\ \A l \in DOMAIN f : 1 < l => l # 1
  BY <1>2
<1>6. \A x \in ToSet(f) : x \in ToSet(g) \/ x = h
  BY <1>1, <1>3 DEF ToSet
<1>7. ASSUME NEW i \in DOMAIN g, g[i].aperta, <<g[i].aba, g[i].tecla>> \notin R
      PROVE  \E l \in DOMAIN g : i < l /\ g[l] = Evento(g[i].aba, g[i].tecla, FALSE)
  <2>. DEFINE n == i + 1
  <2>1. n \in DOMAIN f /\ f[n] = g[i]
    BY <1>4
  <2>. HIDE DEF n
  <2>2. PICK l \in DOMAIN f : n < l /\ f[l] = Evento(f[n].aba, f[n].tecla, FALSE)
    BY <1>7, <2>1 DEF Seguidos
  <2>3. l # 1 /\ i < l - 1
    BY <1>5, <2>2 DEF n
  <2>4. l - 1 \in DOMAIN g /\ g[l - 1] = f[l]
    BY <1>3, <2>3
  <2>. QED BY <2>1, <2>2, <2>3, <2>4
<1>8. ASSUME h.aperta, <<h.aba, h.tecla>> \notin R
      PROVE  Evento(h.aba, h.tecla, FALSE) \in ToSet(g)
  <2>1. PICK l \in DOMAIN f : 1 < l /\ f[l] = Evento(h.aba, h.tecla, FALSE)
    BY <1>1, <1>2, <1>8 DEF Seguidos
  <2>2. l - 1 \in DOMAIN g /\ g[l - 1] = f[l]
    BY <1>3, <1>5, <2>1
  <2>. QED BY <2>1, <2>2 DEF ToSet
<1>. QED BY <1>1, <1>6, <1>7, <1>8 DEF Seguidos, g, h

\* More keys resolved, and fewer held down, disturb nothing.
LEMMA MaisResolvidas ==
  ASSUME NEW f, NEW m, NEW r, NEW s, NEW R, NEW Q,
         \A a \in Remotas : \A k \in r[a].teclas : <<a, k>> \in R => <<a, k>> \in Q,
         \A i \in DOMAIN f : <<f[i].aba, f[i].tecla>> \in R => <<f[i].aba, f[i].tecla>> \in Q,
         \A e \in ToSet(m) : <<e.aba, e.tecla>> \in R => <<e.aba, e.tecla>> \in Q,
         \A a \in Remotas : s[a].teclas \subseteq r[a].teclas
  PROVE  /\ Seguidos(f, R) => Seguidos(f, Q)
         /\ MaoSeguida(f, m, R) => MaoSeguida(f, m, Q)
         /\ Sustentadas(r, f, m, R) => Sustentadas(s, f, m, Q)
<1>1. ASSUME Seguidos(f, R) PROVE Seguidos(f, Q)
  BY <1>1 DEF Seguidos
<1>2. ASSUME MaoSeguida(f, m, R) PROVE MaoSeguida(f, m, Q)
  BY <1>2 DEF MaoSeguida
<1>3. ASSUME Sustentadas(r, f, m, R) PROVE Sustentadas(s, f, m, Q)
  BY <1>3 DEF Sustentadas
<1>. QED BY <1>1, <1>2, <1>3

\* HandleKey: only the machine of the event moves, and only while its session is up
\* and its tab may write.
LEMMA HandleKeyFaz ==
  ASSUME TipadaEn, NEW e \in EventosEn
  PROVE  /\ HandleKey(remotoEn, e) \in [Remotas -> MaquinasEn]
         /\ \A a \in Remotas : a # e.aba => HandleKey(remotoEn, e)[a] = remotoEn[a]
         /\ ~pontaEn[e.aba].viva \/ (e.aba = "vnc" /\ pontaEn["vnc"].ronly) =>
              HandleKey(remotoEn, e) = remotoEn
         /\ pontaEn[e.aba].viva /\ ~(e.aba = "vnc" /\ pontaEn["vnc"].ronly) =>
              HandleKey(remotoEn, e)[e.aba].teclas =
                IF e.aperta THEN remotoEn[e.aba].teclas \union {e.tecla}
                ELSE remotoEn[e.aba].teclas \ {e.tecla}
<1>1. e.aba \in Remotas /\ e.tecla \in Teclas
  BY DEF EventosEn
<1>2. remotoEn \in [Remotas -> MaquinasEn] /\ remotoEn[e.aba] \in MaquinasEn
  BY <1>1 DEF TipadaEn
<1>. DEFINE nova == [remotoEn[e.aba] EXCEPT !.teclas =
                       IF e.aperta THEN remotoEn[e.aba].teclas \union {e.tecla}
                       ELSE remotoEn[e.aba].teclas \ {e.tecla}]
<1>3. /\ nova \in MaquinasEn
      /\ nova.teclas = IF e.aperta THEN remotoEn[e.aba].teclas \union {e.tecla}
                       ELSE remotoEn[e.aba].teclas \ {e.tecla}
  BY <1>1, <1>2 DEF MaquinasEn
<1>4. HandleKey(remotoEn, e) =
        IF ~pontaEn[e.aba].viva \/ (e.aba = "vnc" /\ pontaEn[e.aba].ronly) THEN remotoEn
        ELSE [remotoEn EXCEPT ![e.aba] = nova]
  BY <1>2 DEF HandleKey
<1>. HIDE DEF nova
<1>5. /\ [remotoEn EXCEPT ![e.aba] = nova] \in [Remotas -> MaquinasEn]
      /\ [remotoEn EXCEPT ![e.aba] = nova][e.aba] = nova
      /\ \A a \in Remotas : a # e.aba => [remotoEn EXCEPT ![e.aba] = nova][a] = remotoEn[a]
  BY <1>1, <1>2, <1>3
<1>. QED BY <1>2, <1>3, <1>4, <1>5

-----------------------------------------------------------------------------
(* The steps.                                                              *)

LEMMA InicioEn == InitEn => IInvEn
<1>. SUFFICES ASSUME InitEn PROVE IInvEn
  OBVIOUS
<1>1. janelaEn \in JanelasEn
  <2>. PICK s \in {"linux", "outros"}, a \in Remotas \union {"painel"} :
         janelaEn = [sistema |-> s, aba |-> a, dialogo |-> FALSE, campo |-> FALSE,
                     grab |-> FALSE, ligada |-> FALSE, inibe |-> FALSE, desenhada |-> FALSE]
    BY DEF InitEn
  <2>. QED BY DEF JanelasEn
<1>2. teclado \in TecladosEn
  BY DEF InitEn, TecladosEn
<1>3. <<>> \in Seq(EventosEn)
  OBVIOUS
<1>4. filaEn = [fila |-> <<>>, mao |-> <<>>] /\ filaEn \in FilasEn
  BY <1>3 DEF InitEn, FilasEn
<1>5. pontaEn \in [Remotas -> PontasEn] /\ remotoEn \in [Remotas -> MaquinasEn]
  <2>1. \A a \in Remotas, so \in BOOLEAN :
          [viva |-> TRUE, ronly |-> a = "vnc" /\ so, botoes |-> {}] \in PontasEn
    BY DEF PontasEn
  <2>2. PICK so \in BOOLEAN :
          pontaEn = [a \in Remotas |-> [viva |-> TRUE, ronly |-> a = "vnc" /\ so, botoes |-> {}]]
    BY DEF InitEn
  <2>3. [teclas |-> {}, botoes |-> {}] \in MaquinasEn
    BY DEF MaquinasEn
  <2>. QED BY <2>1, <2>2, <2>3 DEF InitEn
<1>6. \A a \in Remotas : remotoEn[a].teclas = {}
  BY DEF InitEn
<1>7. DOMAIN filaEn.fila = {} /\ ToSet(filaEn.mao) = {}
  BY <1>4 DEF ToSet
<1>8. /\ janelaEn.inibe = FALSE /\ janelaEn.ligada = FALSE /\ janelaEn.desenhada = FALSE
  BY DEF InitEn
<1>. QED BY <1>1, <1>2, <1>4, <1>5, <1>6, <1>7, <1>8
     DEF IInvEn, TipadaEn, SemSessaoNada, SoNoLinux, InibicaoLembrada, InibicaoAcompanha,
         Seguidos, MaoSeguida, Sustentadas

\* The three facts about what is on its way, for a step that moves no event and
\* releases no key.
LEMMA CaminhoParado ==
  ASSUME IInvEn, filaEn' = filaEn, Resolvidas \subseteq Resolvidas',
         \A a \in Remotas : remotoEn'[a].teclas \subseteq remotoEn[a].teclas
  PROVE  /\ Seguidos(filaEn.fila, Resolvidas)'
         /\ MaoSeguida(filaEn.fila, filaEn.mao, Resolvidas)'
         /\ Sustentadas(remotoEn, filaEn.fila, filaEn.mao, Resolvidas)'
<1>. DEFINE f == filaEn.fila
            m == filaEn.mao
            R == Resolvidas
            Q == Resolvidas'
<1>1. R \subseteq Q /\ \A a \in Remotas : remotoEn'[a].teclas \subseteq remotoEn[a].teclas
  OBVIOUS
<1>2. Seguidos(f, R) /\ MaoSeguida(f, m, R) /\ Sustentadas(remotoEn, f, m, R)
  BY DEF IInvEn
<1>. HIDE DEF R, Q, f, m
<1>3. Seguidos(f, Q) /\ MaoSeguida(f, m, Q) /\ Sustentadas(remotoEn', f, m, Q)
  BY <1>1, <1>2, MaisResolvidas
<1>4. f' = f /\ m' = m
  BY DEF f, m
<1>. QED BY <1>3, <1>4 DEF Seguidos, MaoSeguida, Sustentadas, f, m, Q

\* A step of the window: the system it runs on stays.
LEMMA PassoDaJanela ==
  ASSUME IInvEn, UNCHANGED <<teclado, filaEn, pontaEn, remotoEn, desviadas>>,
         janelaEn' \in JanelasEn, janelaEn'.sistema = janelaEn.sistema,
         InibicaoLembrada', InibicaoAcompanha'
  PROVE  IInvEn'
<1>1. Resolvidas' = Resolvidas
  BY DEF Resolvidas
<1>2. TipadaEn' /\ SemSessaoNada' /\ SoNoLinux'
  BY DEF IInvEn, TipadaEn, SemSessaoNada, SoNoLinux
<1>. QED BY <1>1, <1>2, CaminhoParado DEF IInvEn

\* A step that leaves the window alone.
LEMMA JanelaParada ==
  ASSUME IInvEn, janelaEn' = janelaEn, TipadaEn', SemSessaoNada', SoNoLinux',
         Seguidos(filaEn.fila, Resolvidas)',
         MaoSeguida(filaEn.fila, filaEn.mao, Resolvidas)',
         Sustentadas(remotoEn, filaEn.fila, filaEn.mao, Resolvidas)'
  PROVE  IInvEn'
BY DEF IInvEn, InibicaoLembrada, InibicaoAcompanha, Quer, ParaOApp

LEMMA JanelaStep ==
  ASSUME IInvEn, MudarContexto \/ CriarGrab \/ AtualizarInibicao
  PROVE  IInvEn'
<1>1. janelaEn \in JanelasEn /\ InibicaoLembrada /\ InibicaoAcompanha
  BY DEF IInvEn, TipadaEn
<1>2. CASE MudarContexto
  <2>1. /\ janelaEn' \in JanelasEn /\ janelaEn'.sistema = janelaEn.sistema
        /\ janelaEn'.inibe = janelaEn.inibe /\ janelaEn'.ligada = janelaEn.ligada
        /\ janelaEn'.grab = janelaEn.grab /\ janelaEn'.desenhada = FALSE
    BY <1>1, <1>2 DEF MudarContexto, JanelasEn
  <2>2. InibicaoLembrada' /\ InibicaoAcompanha'
    BY <1>1, <2>1 DEF InibicaoLembrada, InibicaoAcompanha
  <2>. QED BY <1>2, <2>1, <2>2, PassoDaJanela DEF MudarContexto
<1>3. CASE CriarGrab
  <2>1. /\ janelaEn' \in JanelasEn /\ janelaEn'.sistema = janelaEn.sistema
        /\ janelaEn'.inibe = janelaEn.inibe /\ janelaEn'.ligada = janelaEn.ligada
        /\ janelaEn'.grab = TRUE /\ janelaEn'.desenhada = FALSE
    BY <1>1, <1>3 DEF CriarGrab, JanelasEn
  <2>2. InibicaoLembrada' /\ InibicaoAcompanha'
    BY <1>1, <2>1 DEF InibicaoLembrada, InibicaoAcompanha
  <2>. QED BY <1>3, <2>1, <2>2, PassoDaJanela DEF CriarGrab
<1>4. CASE AtualizarInibicao
  <2>. DEFINE l == IF janelaEn.grab THEN Quer ELSE janelaEn.ligada
              n == IF janelaEn.grab /\ Quer # janelaEn.ligada THEN Quer ELSE janelaEn.inibe
  <2>1. Quer \in BOOLEAN
    BY DEF Quer
  <2>2. l \in BOOLEAN /\ n \in BOOLEAN
    BY <1>1, <2>1 DEF JanelasEn
  <2>3. janelaEn' = [janelaEn EXCEPT !.desenhada = TRUE, !.ligada = l, !.inibe = n]
    BY <1>4 DEF AtualizarInibicao
  <2>4. n = l
    BY <1>1, <2>1 DEF InibicaoLembrada, JanelasEn
  <2>5. l = (janelaEn.grab /\ Quer)
    BY <1>1, <2>1 DEF InibicaoLembrada, JanelasEn
  <2>. HIDE DEF l, n
  <2>6. /\ janelaEn' \in JanelasEn /\ janelaEn'.sistema = janelaEn.sistema
        /\ janelaEn'.inibe = n /\ janelaEn'.ligada = l /\ janelaEn'.grab = janelaEn.grab
        /\ janelaEn'.aba = janelaEn.aba /\ janelaEn'.dialogo = janelaEn.dialogo
        /\ janelaEn'.campo = janelaEn.campo
    BY <1>1, <2>2, <2>3 DEF JanelasEn
  <2>7. Quer' = Quer
    BY <2>6 DEF Quer, ParaOApp
  <2>8. ~janelaEn.grab => ~l
    BY <2>5
  <2>9. InibicaoLembrada'
    BY <2>4, <2>6, <2>8 DEF InibicaoLembrada
  <2>10. InibicaoAcompanha'
    BY <2>4, <2>5, <2>6, <2>7 DEF InibicaoAcompanha
  <2>. QED BY <1>4, <2>6, <2>9, <2>10, PassoDaJanela DEF AtualizarInibicao
<1>. QED BY <1>2, <1>3, <1>4

\* The tab and its machine: nothing enters the queue and no key is released.
LEMMA MaquinaStep ==
  ASSUME IInvEn, UNCHANGED <<janelaEn, teclado, filaEn, desviadas>>,
         pontaEn' \in [Remotas -> PontasEn], remotoEn' \in [Remotas -> MaquinasEn],
         \A a \in Remotas : /\ remotoEn'[a].teclas \subseteq remotoEn[a].teclas
                            /\ ~pontaEn'[a].viva => remotoEn'[a].teclas = {}
  PROVE  IInvEn'
<1>1. Resolvidas' = Resolvidas
  BY DEF Resolvidas
<1>2. TipadaEn' /\ SemSessaoNada' /\ SoNoLinux'
  BY DEF IInvEn, TipadaEn, SemSessaoNada, SoNoLinux
<1>. QED BY <1>1, <1>2, CaminhoParado, JanelaParada

LEMMA AbaStep ==
  ASSUME IInvEn,
         \/ \E a \in Telas : EnviarCombinacao(a)
         \/ \E bs \in SUBSET Botoes : PonteiroRdp(bs) \/ PonteiroVnc(bs)
         \/ AlternarOlho
         \/ \E a \in Remotas : CairOuVoltar(a)
  PROVE  IInvEn'
<1>1. /\ pontaEn \in [Remotas -> PontasEn] /\ remotoEn \in [Remotas -> MaquinasEn]
      /\ \A a \in Remotas : ~pontaEn[a].viva => remotoEn[a].teclas = {}
  BY DEF IInvEn, TipadaEn, SemSessaoNada
<1>2. "rdp" \in Remotas /\ "vnc" \in Remotas /\ Telas \subseteq Remotas
  BY DEF Remotas, Telas
<1>3. CASE \E a \in Telas : EnviarCombinacao(a)
  <2>. PICK a \in Telas : EnviarCombinacao(a)
    BY <1>3
  <2>. DEFINE o == [remotoEn[a] EXCEPT !.teclas = remotoEn[a].teclas \ ToSet(Combinacao)]
  <2>1. remotoEn[a] \in MaquinasEn /\ a \in Remotas
    BY <1>1, <1>2
  <2>2. o \in MaquinasEn /\ o.teclas \subseteq remotoEn[a].teclas
    BY <2>1 DEF MaquinasEn
  <2>3. remotoEn' = [remotoEn EXCEPT ![a] = o]
    BY <1>1, <2>1 DEF EnviarCombinacao
  <2>. HIDE DEF o
  <2>4. /\ remotoEn' \in [Remotas -> MaquinasEn]
        /\ \A b \in Remotas : remotoEn'[b].teclas \subseteq remotoEn[b].teclas
    BY <1>1, <2>1, <2>2, <2>3
  <2>5. \A b \in Remotas : ~pontaEn[b].viva => remotoEn'[b].teclas = {}
    BY <1>1, <2>4
  <2>. QED BY <1>1, <2>4, <2>5, MaquinaStep DEF EnviarCombinacao
<1>4. CASE \E bs \in SUBSET Botoes : PonteiroRdp(bs)
  <2>. PICK bs \in SUBSET Botoes : PonteiroRdp(bs)
    BY <1>4
  <2>. DEFINE mudou == (bs \ pontaEn["rdp"].botoes) \union (pontaEn["rdp"].botoes \ bs)
              o == [remotoEn["rdp"] EXCEPT !.botoes =
                      (remotoEn["rdp"].botoes \ mudou) \union (bs \intersect mudou)]
              p == [pontaEn["rdp"] EXCEPT !.botoes = bs]
  <2>1. remotoEn["rdp"] \in MaquinasEn /\ pontaEn["rdp"] \in PontasEn
    BY <1>1, <1>2
  <2>2. (remotoEn["rdp"].botoes \ mudou) \union (bs \intersect mudou) \in SUBSET Botoes
    BY <2>1 DEF MaquinasEn
  <2>. HIDE DEF mudou
  <2>3. o \in MaquinasEn /\ o.teclas = remotoEn["rdp"].teclas
    BY <2>1, <2>2 DEF MaquinasEn
  <2>4. p \in PontasEn /\ p.viva = pontaEn["rdp"].viva
    BY <2>1 DEF PontasEn
  <2>5. remotoEn' = [remotoEn EXCEPT !["rdp"] = o] /\ pontaEn' = [pontaEn EXCEPT !["rdp"] = p]
    BY <1>1, <1>2, <2>1 DEF PonteiroRdp, mudou
  <2>. HIDE DEF o, p
  <2>6. /\ remotoEn' \in [Remotas -> MaquinasEn] /\ pontaEn' \in [Remotas -> PontasEn]
        /\ \A b \in Remotas : remotoEn'[b].teclas = remotoEn[b].teclas
        /\ \A b \in Remotas : pontaEn'[b].viva = pontaEn[b].viva
    BY <1>1, <1>2, <2>3, <2>4, <2>5
  <2>. QED BY <1>1, <2>6, MaquinaStep DEF PonteiroRdp
<1>5. CASE \E bs \in SUBSET Botoes : PonteiroVnc(bs)
  <2>. PICK bs \in SUBSET Botoes : PonteiroVnc(bs)
    BY <1>5
  <2>. DEFINE o == [remotoEn["vnc"] EXCEPT !.botoes = bs]
  <2>1. remotoEn["vnc"] \in MaquinasEn
    BY <1>1, <1>2
  <2>2. o \in MaquinasEn /\ o.teclas = remotoEn["vnc"].teclas
    BY <2>1 DEF MaquinasEn
  <2>3. remotoEn' = [remotoEn EXCEPT !["vnc"] = o]
    BY <1>1, <1>2, <2>1 DEF PonteiroVnc
  <2>. HIDE DEF o
  <2>4. /\ remotoEn' \in [Remotas -> MaquinasEn]
        /\ \A b \in Remotas : remotoEn'[b].teclas = remotoEn[b].teclas
    BY <1>1, <1>2, <2>2, <2>3
  <2>. QED BY <1>1, <2>4, MaquinaStep DEF PonteiroVnc
<1>6. CASE AlternarOlho
  <2>. DEFINE p == [pontaEn["vnc"] EXCEPT !.ronly = ~pontaEn["vnc"].ronly]
  <2>1. pontaEn["vnc"] \in PontasEn
    BY <1>1, <1>2
  <2>2. p \in PontasEn /\ p.viva = pontaEn["vnc"].viva
    BY <2>1 DEF PontasEn
  <2>3. pontaEn' = [pontaEn EXCEPT !["vnc"] = p]
    BY <1>1, <1>2, <1>6, <2>1 DEF AlternarOlho
  <2>. HIDE DEF p
  <2>4. /\ pontaEn' \in [Remotas -> PontasEn]
        /\ \A b \in Remotas : pontaEn'[b].viva = pontaEn[b].viva
    BY <1>1, <1>2, <2>2, <2>3
  <2>5. remotoEn' = remotoEn
    BY <1>6 DEF AlternarOlho
  <2>. QED BY <1>1, <1>6, <2>4, <2>5, MaquinaStep DEF AlternarOlho
<1>7. CASE \E a \in Remotas : CairOuVoltar(a)
  <2>. PICK a \in Remotas : CairOuVoltar(a)
    BY <1>7
  <2>. DEFINE p == [pontaEn[a] EXCEPT !.viva = ~pontaEn[a].viva]
              o == [teclas |-> {}, botoes |-> {}]
  <2>1. pontaEn[a] \in PontasEn
    BY <1>1
  <2>2. p \in PontasEn /\ o \in MaquinasEn /\ o.teclas = {}
    BY <2>1 DEF PontasEn, MaquinasEn
  <2>3. pontaEn' = [pontaEn EXCEPT ![a] = p] /\ remotoEn' = [remotoEn EXCEPT ![a] = o]
    BY <1>1, <2>1 DEF CairOuVoltar
  <2>. HIDE DEF p, o
  <2>4. /\ pontaEn' \in [Remotas -> PontasEn] /\ remotoEn' \in [Remotas -> MaquinasEn]
        /\ remotoEn'[a].teclas = {}
        /\ \A b \in Remotas : b # a => remotoEn'[b] = remotoEn[b] /\ pontaEn'[b] = pontaEn[b]
    BY <1>1, <2>2, <2>3
  <2>5. \A b \in Remotas : /\ remotoEn'[b].teclas \subseteq remotoEn[b].teclas
                           /\ ~pontaEn'[b].viva => remotoEn'[b].teclas = {}
    BY <1>1, <2>4
  <2>. QED BY <2>4, <2>5, MaquinaStep DEF CairOuVoltar
<1>. QED BY <1>3, <1>4, <1>5, <1>6, <1>7

\* The writer takes the head.
LEMMA TirarStep ==
  ASSUME IInvEn, Tirar
  PROVE  IInvEn'
<1>. DEFINE f == filaEn.fila
            h == Head(f)
            R == Resolvidas
<1>1. /\ f \in Seq(EventosEn) /\ f # <<>> /\ filaEn.mao = <<>>
      /\ filaEn' = [fila |-> Tail(f), mao |-> <<h>>]
  BY DEF Tirar, IInvEn, TipadaEn, FilasEn
<1>2. /\ h \in EventosEn /\ Tail(f) \in Seq(EventosEn)
      /\ \A x \in ToSet(f) : x \in ToSet(Tail(f)) \/ x = h
      /\ Seguidos(Tail(f), R)
      /\ h.aperta => <<h.aba, h.tecla>> \in R \/ Evento(h.aba, h.tecla, FALSE) \in ToSet(Tail(f))
  BY <1>1, TirarCabeca DEF IInvEn
<1>3. filaEn' \in FilasEn /\ filaEn'.fila = Tail(f) /\ filaEn'.mao = <<h>>
  BY <1>1, <1>2 DEF FilasEn
<1>4. ToSet(<<h>>) = {h} /\ ToSet(filaEn.mao) = {}
  BY <1>1 DEF ToSet
<1>5. Resolvidas' = R /\ remotoEn' = remotoEn
  BY DEF Tirar, Resolvidas
<1>6. Sustentadas(remotoEn, f, filaEn.mao, R)
  BY DEF IInvEn
<1>7. janelaEn.sistema # "outros" /\ janelaEn' = janelaEn /\ pontaEn' = pontaEn
      /\ teclado' = teclado
  BY <1>1 DEF Tirar, IInvEn, SoNoLinux
<1>. HIDE DEF f, h, R
<1>8. MaoSeguida(Tail(f), <<h>>, R)
  BY <1>2, <1>4 DEF MaoSeguida
<1>9. Sustentadas(remotoEn, Tail(f), <<h>>, R)
  BY <1>2, <1>4, <1>6 DEF Sustentadas
<1>10. /\ Seguidos(filaEn.fila, Resolvidas)'
       /\ MaoSeguida(filaEn.fila, filaEn.mao, Resolvidas)'
       /\ Sustentadas(remotoEn, filaEn.fila, filaEn.mao, Resolvidas)'
  BY <1>2, <1>3, <1>5, <1>8, <1>9 DEF Seguidos, MaoSeguida, Sustentadas
<1>11. TipadaEn' /\ SemSessaoNada' /\ SoNoLinux'
  BY <1>3, <1>5, <1>7 DEF IInvEn, TipadaEn, SemSessaoNada, SoNoLinux
<1>. QED BY <1>7, <1>10, <1>11, JanelaParada

\* HandleKey keeps a machine whose session is down empty.
LEMMA EscritaSemSessao ==
  ASSUME IInvEn, NEW e \in EventosEn, remotoEn' = HandleKey(remotoEn, e), pontaEn' = pontaEn
  PROVE  SemSessaoNada'
<1>1. TipadaEn /\ e.aba \in Remotas /\ \A a \in Remotas : ~pontaEn[a].viva => remotoEn[a].teclas = {}
  BY DEF IInvEn, SemSessaoNada, EventosEn
<1>2. \A a \in Remotas : ~pontaEn[a].viva => remotoEn'[a] = remotoEn[a]
  BY <1>1, HandleKeyFaz
<1>. QED BY <1>1, <1>2 DEF SemSessaoNada

\* The writer writes: what it lets down is let down, kept back and noted, or was never
\* held; what it presses is followed.
LEMMA EscreverStep ==
  ASSUME IInvEn, Escrever
  PROVE  IInvEn'
<1>. DEFINE f == filaEn.fila
            e == filaEn.mao[1]
            R == Resolvidas
            Q == Resolvidas'
<1>1. /\ TipadaEn /\ filaEn \in FilasEn /\ filaEn.mao # <<>>
  BY DEF Escrever, IInvEn, TipadaEn
<1>2. filaEn.mao = <<e>> /\ e \in EventosEn
  <2>1. PICK x \in EventosEn : filaEn.mao = <<x>>
    BY <1>1 DEF FilasEn
  <2>. QED BY <2>1
<1>3. ToSet(filaEn.mao) = {e}
  BY <1>2 DEF ToSet
<1>4. filaEn' \in FilasEn /\ filaEn'.fila = f /\ filaEn'.mao = <<>> /\ ToSet(filaEn'.mao) = {}
  BY <1>1 DEF Escrever, FilasEn, ToSet
<1>5. /\ remotoEn' = HandleKey(remotoEn, e)
      /\ desviadas' = IF RetidaNaAba(e) THEN desviadas \union {<<e.aba, e.tecla>>} ELSE desviadas
      /\ UNCHANGED <<janelaEn, teclado, pontaEn>>
  BY DEF Escrever
<1>6. R \subseteq Q /\ (RetidaNaAba(e) => <<e.aba, e.tecla>> \in Q)
  BY <1>5 DEF Resolvidas
<1>7. Seguidos(f, R) /\ MaoSeguida(f, filaEn.mao, R) /\ Sustentadas(remotoEn, f, filaEn.mao, R)
  BY DEF IInvEn
<1>. HIDE DEF f, e, R, Q
<1>8. Seguidos(f, Q)
  BY <1>6, <1>7 DEF Seguidos
<1>9. e.aperta => <<e.aba, e.tecla>> \in R \/ Evento(e.aba, e.tecla, FALSE) \in ToSet(f)
  BY <1>3, <1>7 DEF MaoSeguida
<1>10. ASSUME NEW a \in Remotas, NEW k \in remotoEn'[a].teclas
       PROVE  <<a, k>> \in Q \/ Evento(a, k, FALSE) \in ToSet(f)
  <2>0. e.aba \in Remotas /\ e.aperta \in BOOLEAN
    BY <1>2 DEF EventosEn
  <2>1. k \in remotoEn[a].teclas =>
          <<a, k>> \in Q \/ Evento(a, k, FALSE) \in ToSet(f) \/ Evento(a, k, FALSE) = e
    BY <1>3, <1>6, <1>7 DEF Sustentadas
  <2>2. CASE remotoEn' = remotoEn
    <3>1. ASSUME Evento(a, k, FALSE) = e, <<a, k>> \notin Q PROVE FALSE
      <4>1. ~e.aperta /\ e.aba = a /\ e.tecla = k
        BY <3>1 DEF Evento
      <4>2. ~RetidaNaAba(e)
        BY <1>6, <3>1, <4>1
      <4>3. ~(e.aba = "vnc" /\ pontaEn["vnc"].ronly)
        BY <4>1, <4>2 DEF RetidaNaAba
      <4>4. CASE ~pontaEn[a].viva
        <5>1. remotoEn[a].teclas = {}
          BY <4>4 DEF IInvEn, SemSessaoNada
        <5>. QED BY <1>10, <2>2, <5>1
      <4>5. CASE pontaEn[a].viva
        <5>1. HandleKey(remotoEn, e)[e.aba].teclas = remotoEn[e.aba].teclas \ {e.tecla}
          BY <1>1, <1>2, <4>1, <4>3, <4>5, HandleKeyFaz
        <5>. QED BY <1>5, <1>10, <4>1, <5>1
      <4>. QED BY <4>4, <4>5
    <3>. QED BY <2>1, <2>2, <3>1
  <2>3. CASE remotoEn' # remotoEn
    <3>1. pontaEn[e.aba].viva /\ ~(e.aba = "vnc" /\ pontaEn["vnc"].ronly)
      BY <1>1, <1>2, <1>5, <2>3, HandleKeyFaz
    <3>2. remotoEn'[e.aba].teclas = IF e.aperta THEN remotoEn[e.aba].teclas \union {e.tecla}
                                    ELSE remotoEn[e.aba].teclas \ {e.tecla}
      BY <1>1, <1>2, <1>5, <3>1, HandleKeyFaz
    <3>3. a # e.aba => remotoEn'[a] = remotoEn[a]
      BY <1>1, <1>2, <1>5, HandleKeyFaz
    <3>4. CASE k \notin remotoEn[a].teclas
      <4>1. a = e.aba /\ e.aperta /\ k = e.tecla
        BY <1>10, <3>2, <3>3, <3>4
      <4>. QED BY <1>6, <1>9, <4>1
    <3>5. CASE k \in remotoEn[a].teclas
      <4>1. Evento(a, k, FALSE) # e
        <5>. SUFFICES ASSUME Evento(a, k, FALSE) = e PROVE FALSE
          OBVIOUS
        <5>1. ~e.aperta /\ e.aba = a /\ e.tecla = k
          BY DEF Evento
        <5>. QED BY <1>10, <3>2, <5>1
      <4>. QED BY <2>1, <3>5, <4>1
    <3>. QED BY <3>4, <3>5
  <2>. QED BY <2>2, <2>3
<1>11. /\ Seguidos(filaEn.fila, Resolvidas)'
       /\ MaoSeguida(filaEn.fila, filaEn.mao, Resolvidas)'
       /\ Sustentadas(remotoEn, filaEn.fila, filaEn.mao, Resolvidas)'
  BY <1>4, <1>8, <1>10 DEF Seguidos, MaoSeguida, Sustentadas, Q
<1>12. remotoEn' \in [Remotas -> MaquinasEn]
  BY <1>1, <1>2, <1>5, HandleKeyFaz
<1>13. janelaEn.sistema # "outros"
  BY <1>1 DEF IInvEn, SoNoLinux
<1>14. TipadaEn' /\ SemSessaoNada' /\ SoNoLinux'
  <2>1. SemSessaoNada'
    BY <1>2, <1>5, EscritaSemSessao
  <2>. QED BY <1>4, <1>5, <1>12, <1>13, <2>1 DEF IInvEn, TipadaEn, SoNoLinux
<1>. QED BY <1>5, <1>11, <1>14, JanelaParada

\* The keyboard.
LEMMA FisicaFaz ==
  ASSUME IInvEn, NEW k \in Teclas, NEW p \in BOOLEAN
  PROVE  /\ Fisica(k, p) \in TecladosEn
         /\ Fisica(k, p).presas = IF p THEN teclado.presas \union {k} ELSE teclado.presas \ {k}
         /\ \A o \in {"lateral", "fechar"} : /\ Pedir(Fisica(k, p), o) \in TecladosEn
                                             /\ Pedir(Fisica(k, p), o).presas = Fisica(k, p).presas
         /\ [Fisica(k, p) EXCEPT !.ctrl = teclado.ctrl] \in TecladosEn
         /\ [Fisica(k, p) EXCEPT !.ctrl = teclado.ctrl].presas = Fisica(k, p).presas
<1>. DEFINE ps == IF p THEN teclado.presas \union {k} ELSE teclado.presas \ {k}
            c == IF k = "ctrl" THEN p ELSE teclado.ctrl
            t == Fisica(k, p)
<1>1. teclado \in TecladosEn
  BY DEF IInvEn, TipadaEn
<1>2. ps \in SUBSET Teclas /\ c \in BOOLEAN
  BY <1>1 DEF TecladosEn
<1>3. t = [teclado EXCEPT !.presas = ps, !.ctrl = c]
  BY <1>1 DEF Fisica, TecladosEn
<1>. HIDE DEF ps, c, t
<1>4. t \in TecladosEn /\ t.presas = ps
  BY <1>1, <1>2, <1>3 DEF TecladosEn
<1>5. ASSUME NEW o \in {"lateral", "fechar"}
      PROVE  Pedir(t, o) \in TecladosEn /\ Pedir(t, o).presas = t.presas
  BY <1>4 DEF TecladosEn, Pedir
<1>6. [t EXCEPT !.ctrl = teclado.ctrl] \in TecladosEn
      /\ [t EXCEPT !.ctrl = teclado.ctrl].presas = t.presas
  BY <1>1, <1>4 DEF TecladosEn
<1>. QED BY <1>4, <1>5, <1>6 DEF ps, t

\* A key event resolves keys, but for a release that goes to the tab in front.
LEMMA TeclaResolve ==
  ASSUME IInvEn, NEW k \in Teclas, NEW p \in BOOLEAN, TeclaPossivel(k, p),
         teclado'.presas = Fisica(k, p).presas
  PROVE  /\ \A x \in Resolvidas : \/ x \in Resolvidas'
                                  \/ /\ ~p /\ ~ParaOApp /\ Remoto /\ x = <<janelaEn.aba, k>>
                                     /\ ~(janelaEn.sistema = "outros" /\ pontaEn[janelaEn.aba].ronly)
         /\ p => \A a \in Remotas : <<a, k>> \in Resolvidas'
         /\ janelaEn.sistema = "outros" /\ ~p =>
              \A a \in Remotas : pontaEn[a].ronly => <<a, k>> \in Resolvidas'
<1>1. teclado'.presas = IF p THEN teclado.presas \union {k} ELSE teclado.presas \ {k}
  BY FisicaFaz
<1>2. desviadas' = desviadas \union Desvio(k, p)
  BY DEF TeclaPossivel
<1>3. CASE p
  BY <1>1, <1>2, <1>3 DEF Resolvidas
<1>4. CASE ~p
  <2>1. \A a \in Remotas : \/ a # janelaEn.aba \/ ParaOApp
                           \/ janelaEn.sistema = "outros" /\ pontaEn[a].ronly
          => <<a, k>> \in Resolvidas'
    BY <1>2, <1>4 DEF Resolvidas, Desvio
  <2>2. ASSUME NEW x \in Resolvidas, x \notin Resolvidas'
        PROVE  /\ ~p /\ ~ParaOApp /\ Remoto /\ x = <<janelaEn.aba, k>>
               /\ ~(janelaEn.sistema = "outros" /\ pontaEn[janelaEn.aba].ronly)
    <3>1. x \in Remotas \X teclado.presas /\ x \notin Remotas \X teclado'.presas
      BY <1>2, <2>2 DEF Resolvidas
    <3>2. PICK a \in Remotas, l \in teclado.presas : x = <<a, l>>
      BY <3>1
    <3>3. l = k
      BY <1>1, <1>4, <3>1, <3>2
    <3>4. a = janelaEn.aba /\ ~ParaOApp
          /\ ~(janelaEn.sistema = "outros" /\ pontaEn[a].ronly)
      BY <2>1, <2>2, <3>2, <3>3
    <3>. QED BY <1>4, <3>2, <3>3, <3>4 DEF Remoto
  <2>. QED BY <1>4, <2>1, <2>2
<1>. QED BY <1>3, <1>4

\* The queue after a key: its release is in it, whatever had to leave.
LEMMA FilaComTecla ==
  ASSUME IInvEn, NEW e \in EventosEn, remotoEn' = remotoEn,
         filaEn' = [filaEn EXCEPT !.fila = Enfileirar(filaEn.fila, e)],
         e.aperta => <<e.aba, e.tecla>> \in Resolvidas',
         \A x \in Resolvidas : x \in Resolvidas' \/ (~e.aperta /\ x = <<e.aba, e.tecla>>)
  PROVE  /\ filaEn' \in FilasEn
         /\ Seguidos(filaEn.fila, Resolvidas)'
         /\ MaoSeguida(filaEn.fila, filaEn.mao, Resolvidas)'
         /\ Sustentadas(remotoEn, filaEn.fila, filaEn.mao, Resolvidas)'
<1>. DEFINE f == filaEn.fila
            m == filaEn.mao
            g == Enfileirar(f, e)
            R == Resolvidas
            Q == Resolvidas'
<1>1. filaEn \in FilasEn /\ f \in Seq(EventosEn)
  BY DEF IInvEn, TipadaEn, FilasEn
<1>2. Seguidos(f, R) /\ MaoSeguida(f, m, R) /\ Sustentadas(remotoEn, f, m, R)
  BY DEF IInvEn
<1>3. /\ e.aperta => <<e.aba, e.tecla>> \in Q
      /\ \A x \in R : x \in Q \/ (~e.aperta /\ x = <<e.aba, e.tecla>>)
  OBVIOUS
<1>. HIDE DEF R, Q
<1>4. /\ g \in Seq(EventosEn)
      /\ \A x \in ToSet(f) \union {e} : ~x.aperta => x \in ToSet(g)
      /\ Seguidos(g, Q)
  BY <1>1, <1>2, <1>3, EnfileirarGuarda
<1>5. filaEn' \in FilasEn /\ filaEn'.fila = g /\ filaEn'.mao = m
  BY <1>1, <1>4 DEF FilasEn
<1>. HIDE DEF f, m, g
<1>6. ASSUME NEW a, NEW k, <<a, k>> \in R \/ Evento(a, k, FALSE) \in ToSet(f)
      PROVE  <<a, k>> \in Q \/ Evento(a, k, FALSE) \in ToSet(g)
  <2>1. ~Evento(a, k, FALSE).aperta
    BY DEF Evento
  <2>2. CASE <<a, k>> \in R /\ <<a, k>> \notin Q
    <3>1. ~e.aperta /\ a = e.aba /\ k = e.tecla
      BY <1>3, <2>2
    <3>2. e = Evento(a, k, FALSE)
      BY <3>1 DEF Evento, EventosEn
    <3>. QED BY <1>4, <2>1, <3>2
  <2>3. CASE Evento(a, k, FALSE) \in ToSet(f)
    BY <1>4, <2>1, <2>3
  <2>. QED BY <1>6, <2>2, <2>3
<1>7. MaoSeguida(g, m, Q)
  BY <1>2, <1>6 DEF MaoSeguida
<1>8. Sustentadas(remotoEn, g, m, Q)
  <2>. SUFFICES ASSUME NEW a \in Remotas, NEW k \in remotoEn[a].teclas
                PROVE  <<a, k>> \in Q \/ Evento(a, k, FALSE) \in ToSet(g) \union ToSet(m)
    BY DEF Sustentadas
  <2>1. <<a, k>> \in R \/ Evento(a, k, FALSE) \in ToSet(f) \union ToSet(m)
    BY <1>2 DEF Sustentadas
  <2>. QED BY <1>6, <2>1
<1>9. /\ Seguidos(filaEn'.fila, Q) /\ MaoSeguida(filaEn'.fila, filaEn'.mao, Q)
      /\ Sustentadas(remotoEn', filaEn'.fila, filaEn'.mao, Q)
  BY <1>4, <1>5, <1>7, <1>8
<1>10. Seguidos(filaEn.fila, Resolvidas)'
  BY <1>9 DEF Seguidos, Q
<1>11. MaoSeguida(filaEn.fila, filaEn.mao, Resolvidas)'
  BY <1>9 DEF MaoSeguida, Q
<1>12. Sustentadas(remotoEn, filaEn.fila, filaEn.mao, Resolvidas)'
  BY <1>9 DEF Sustentadas, Q
<1>. QED BY <1>5, <1>10, <1>11, <1>12

LEMMA TeclarLinuxStep ==
  ASSUME IInvEn, NEW k \in Teclas, NEW p \in BOOLEAN, TeclarLinux(k, p)
  PROVE  IInvEn'
<1>1. /\ TeclaPossivel(k, p) /\ remotoEn' = remotoEn /\ janelaEn' = janelaEn
      /\ pontaEn' = pontaEn /\ janelaEn.sistema = "linux"
  BY DEF TeclarLinux, TeclaPossivel
<1>2. teclado' \in TecladosEn /\ teclado'.presas = Fisica(k, p).presas
  <2>1. \/ teclado' = Fisica(k, p)
        \/ \E o \in {"lateral", "fechar"} : teclado' = Pedir(Fisica(k, p), o)
    BY DEF TeclarLinux
  <2>2. CASE teclado' = Fisica(k, p)
    BY <2>2, FisicaFaz
  <2>3. CASE \E o \in {"lateral", "fechar"} : teclado' = Pedir(Fisica(k, p), o)
    <3>. PICK o \in {"lateral", "fechar"} : teclado' = Pedir(Fisica(k, p), o)
      BY <2>3
    <3>1. /\ Pedir(Fisica(k, p), o) \in TecladosEn
          /\ Pedir(Fisica(k, p), o).presas = Fisica(k, p).presas
      BY FisicaFaz
    <3>. QED BY <3>1
  <2>. QED BY <2>1, <2>2, <2>3
<1>3. ASSUME filaEn' \in FilasEn,
             Seguidos(filaEn.fila, Resolvidas)',
             MaoSeguida(filaEn.fila, filaEn.mao, Resolvidas)',
             Sustentadas(remotoEn, filaEn.fila, filaEn.mao, Resolvidas)'
      PROVE  IInvEn'
  <2>1. TipadaEn' /\ SemSessaoNada'
    BY <1>1, <1>2, <1>3 DEF IInvEn, TipadaEn, SemSessaoNada
  <2>2. SoNoLinux'
    BY <1>1 DEF SoNoLinux
  <2>. QED BY <1>1, <1>3, <2>1, <2>2, JanelaParada
<1>4. CASE filaEn' = filaEn /\ (p \/ ParaOApp \/ ~Remoto)
  <2>1. Resolvidas \subseteq Resolvidas'
    BY <1>1, <1>2, <1>4, TeclaResolve
  <2>2. filaEn' \in FilasEn
    BY <1>4 DEF IInvEn, TipadaEn
  <2>. QED BY <1>1, <1>3, <1>4, <2>1, <2>2, CaminhoParado
<1>5. CASE /\ Remoto
           /\ filaEn' = [filaEn EXCEPT !.fila = Enfileirar(@, Evento(janelaEn.aba, k, p))]
  <2>. DEFINE e == Evento(janelaEn.aba, k, p)
  <2>1. e \in EventosEn /\ e.aba = janelaEn.aba /\ e.tecla = k /\ e.aperta = p
    BY <1>5 DEF Evento, EventosEn, Remoto
  <2>2. filaEn' = [filaEn EXCEPT !.fila = Enfileirar(filaEn.fila, e)]
    BY <1>5 DEF IInvEn, TipadaEn, FilasEn
  <2>. HIDE DEF e
  <2>3. e.aperta => <<e.aba, e.tecla>> \in Resolvidas'
    BY <1>1, <1>2, <1>5, <2>1, TeclaResolve DEF Remoto
  <2>4. \A x \in Resolvidas : x \in Resolvidas' \/ (~e.aperta /\ x = <<e.aba, e.tecla>>)
    BY <1>1, <1>2, <2>1, TeclaResolve
  <2>. QED BY <1>1, <1>3, <2>1, <2>2, <2>3, <2>4, FilaComTecla
<1>. QED BY <1>4, <1>5 DEF TeclarLinux, F12Limpo

LEMMA TeclarOutrosStep ==
  ASSUME IInvEn, NEW k \in Teclas, NEW p \in BOOLEAN, TeclarOutros(k, p)
  PROVE  IInvEn'
<1>1. /\ TeclaPossivel(k, p) /\ filaEn' = filaEn /\ janelaEn' = janelaEn
      /\ pontaEn' = pontaEn /\ janelaEn.sistema = "outros" /\ TipadaEn
  BY DEF TeclarOutros, TeclaPossivel, IInvEn
<1>2. teclado' \in TecladosEn /\ teclado'.presas = Fisica(k, p).presas
  <2>1. \/ teclado' = Fisica(k, p) \/ teclado' = Pedir(Fisica(k, p), "lateral")
        \/ teclado' = [Fisica(k, p) EXCEPT !.ctrl = teclado.ctrl]
    BY DEF TeclarOutros
  <2>2. /\ Pedir(Fisica(k, p), "lateral") \in TecladosEn
        /\ Pedir(Fisica(k, p), "lateral").presas = Fisica(k, p).presas
    BY FisicaFaz
  <2>3. Fisica(k, p) \in TecladosEn
    BY FisicaFaz
  <2>4. /\ [Fisica(k, p) EXCEPT !.ctrl = teclado.ctrl] \in TecladosEn
        /\ [Fisica(k, p) EXCEPT !.ctrl = teclado.ctrl].presas = Fisica(k, p).presas
    BY FisicaFaz
  <2>. QED BY <2>1, <2>2, <2>3, <2>4
<1>3. filaEn.fila = <<>> /\ filaEn.mao = <<>>
  BY <1>1 DEF IInvEn, SoNoLinux
<1>4. DOMAIN filaEn.fila = {} /\ ToSet(filaEn.fila) = {} /\ ToSet(filaEn.mao) = {}
  BY <1>3 DEF ToSet
<1>5. /\ DOMAIN filaEn'.fila = {} /\ ToSet(filaEn'.fila) = {} /\ ToSet(filaEn'.mao) = {}
  BY <1>1, <1>4
<1>6. \A a \in Remotas : \A l \in remotoEn[a].teclas : <<a, l>> \in Resolvidas
  BY <1>4 DEF IInvEn, Sustentadas
<1>7. ASSUME remotoEn' \in [Remotas -> MaquinasEn], SemSessaoNada',
             \A a \in Remotas : \A l \in remotoEn'[a].teclas : <<a, l>> \in Resolvidas'
      PROVE  IInvEn'
  <2>1. TipadaEn' /\ SoNoLinux'
    BY <1>1, <1>2, <1>3, <1>7 DEF IInvEn, TipadaEn, SoNoLinux
  <2>2. /\ Seguidos(filaEn.fila, Resolvidas)'
        /\ MaoSeguida(filaEn.fila, filaEn.mao, Resolvidas)'
        /\ Sustentadas(remotoEn, filaEn.fila, filaEn.mao, Resolvidas)'
    BY <1>5, <1>7 DEF Seguidos, MaoSeguida, Sustentadas
  <2>. QED BY <1>1, <1>7, <2>1, <2>2, JanelaParada
<1>8. CASE remotoEn' = remotoEn /\ (p \/ ParaOApp \/ ~Remoto)
  <2>1. Resolvidas \subseteq Resolvidas'
    BY <1>1, <1>2, <1>8, TeclaResolve
  <2>2. remotoEn' \in [Remotas -> MaquinasEn] /\ SemSessaoNada'
    BY <1>1, <1>8 DEF IInvEn, TipadaEn, SemSessaoNada
  <2>. QED BY <1>6, <1>7, <1>8, <2>1, <2>2
<1>9. CASE Remoto /\ remotoEn' = HandleKey(remotoEn, Evento(janelaEn.aba, k, p))
  <2>. DEFINE e == Evento(janelaEn.aba, k, p)
  <2>1. e \in EventosEn /\ e.aba = janelaEn.aba /\ e.tecla = k /\ e.aperta = p
        /\ e.aba \in Remotas /\ remotoEn' = HandleKey(remotoEn, e)
    BY <1>9 DEF Evento, EventosEn, Remoto
  <2>. HIDE DEF e
  <2>2. remotoEn' \in [Remotas -> MaquinasEn] /\ SemSessaoNada'
    BY <1>1, <2>1, HandleKeyFaz, EscritaSemSessao
  <2>3. ASSUME NEW a \in Remotas, NEW l \in remotoEn'[a].teclas, <<a, l>> \notin Resolvidas'
        PROVE  FALSE
    <3>1. ~(p /\ l = k)
      BY <1>1, <1>2, <2>3, TeclaResolve
    <3>2. a # e.aba => remotoEn'[a] = remotoEn[a]
      BY <1>1, <2>1, HandleKeyFaz
    <3>3. CASE l \notin remotoEn[a].teclas
      <4>1. a = e.aba /\ remotoEn' # remotoEn
        BY <2>3, <3>2, <3>3
      <4>2. remotoEn'[a].teclas = IF e.aperta THEN remotoEn[a].teclas \union {e.tecla}
                                  ELSE remotoEn[a].teclas \ {e.tecla}
        BY <1>1, <2>1, <4>1, HandleKeyFaz
      <4>. QED BY <2>1, <2>3, <3>1, <3>3, <4>2
    <3>4. CASE l \in remotoEn[a].teclas
      <4>1. <<a, l>> \in Resolvidas
        BY <1>6, <3>4
      <4>2. /\ ~p /\ <<a, l>> = <<janelaEn.aba, k>>
            /\ ~pontaEn[janelaEn.aba].ronly
        BY <1>1, <1>2, <2>3, <4>1, TeclaResolve
      <4>3. a = e.aba /\ l = k
        BY <2>1, <4>2
      <4>4. CASE ~pontaEn[a].viva
        <5>1. remotoEn' = remotoEn /\ remotoEn[a].teclas = {}
          BY <1>1, <2>1, <4>3, <4>4, HandleKeyFaz DEF IInvEn, SemSessaoNada
        <5>. QED BY <3>4, <5>1
      <4>5. CASE pontaEn[a].viva
        <5>1. ~(e.aba = "vnc" /\ pontaEn["vnc"].ronly)
          BY <2>1, <4>2
        <5>2. remotoEn'[a].teclas = remotoEn[a].teclas \ {e.tecla}
          BY <1>1, <2>1, <4>2, <4>3, <4>5, <5>1, HandleKeyFaz
        <5>. QED BY <2>1, <2>3, <4>3, <5>2
      <4>. QED BY <4>4, <4>5
    <3>. QED BY <3>3, <3>4
  <2>. QED BY <1>7, <2>2, <2>3
<1>. QED BY <1>8, <1>9 DEF TeclarOutros, F12Limpo

\* IInvEn is kept by every step.
LEMMA PassoEn == IInvEn /\ [NextEn]_varsEn => IInvEn'
<1>. SUFFICES ASSUME IInvEn, [NextEn]_varsEn PROVE IInvEn'
  OBVIOUS
<1>1. CASE UNCHANGED varsEn
  <2>1. Resolvidas' = Resolvidas /\ janelaEn' = janelaEn /\ filaEn' = filaEn
        /\ remotoEn' = remotoEn /\ pontaEn' = pontaEn /\ teclado' = teclado
    BY <1>1 DEF varsEn, Resolvidas
  <2>2. TipadaEn' /\ SemSessaoNada' /\ SoNoLinux'
    BY <2>1 DEF IInvEn, TipadaEn, SemSessaoNada, SoNoLinux
  <2>. QED BY <2>1, <2>2, CaminhoParado, JanelaParada
<1>2. CASE NextEn
  BY <1>2, TirarStep, EscreverStep, TeclarLinuxStep, TeclarOutrosStep, AbaStep, JanelaStep
     DEF NextEn
<1>. QED BY <1>1, <1>2

-----------------------------------------------------------------------------
(* The theorems.                                                           *)

\* IInvEn holds in every reachable state.
LEMMA IndutivoEn == SpecEn => []IInvEn
BY InicioEn, PassoEn, PTL DEF SpecEn

\* The types of the input.
THEOREM TiposDaEntrada == SpecEn => []TiposEn
<1>1. IInvEn => TiposEn
  <2>. SUFFICES ASSUME IInvEn PROVE TiposEn
    OBVIOUS
  <2>1. filaEn.fila \in Seq([aba : Remotas, tecla : Teclas, aperta : BOOLEAN])
    BY DEF IInvEn, TipadaEn, FilasEn, EventosEn
  <2>2. Len(filaEn.mao) <= 1
    <3>1. CASE filaEn.mao = <<>>
      BY <3>1
    <3>2. ASSUME NEW e \in EventosEn, filaEn.mao = <<e>> PROVE Len(filaEn.mao) <= 1
      <4>1. Len(<<e>>) = 1
        OBVIOUS
      <4>. QED BY <3>2, <4>1
    <3>. QED BY <3>1, <3>2 DEF IInvEn, TipadaEn, FilasEn
  <2>3. teclado.presas \subseteq Teclas /\ teclado.ctrl \in BOOLEAN
    BY DEF IInvEn, TipadaEn, TecladosEn
  <2>. QED BY <2>1, <2>2, <2>3 DEF TiposEn, IInvEn, TipadaEn, PontasEn, MaquinasEn
<1>. QED BY IndutivoEn, <1>1, PTL

\* Nothing is written to a read-only machine.
LEMMA SomenteLeituraStep ==
  IInvEn /\ [NextEn]_varsEn => [NadaNaSomenteLeitura]_varsEn
<1>. SUFFICES ASSUME IInvEn, NextEn, pontaEn["vnc"].ronly, pontaEn["vnc"].viva,
                     pontaEn'["vnc"].viva
              PROVE  remotoEn'["vnc"] = remotoEn["vnc"]
  BY DEF NadaNaSomenteLeitura
<1>1. TipadaEn /\ remotoEn \in [Remotas -> MaquinasEn] /\ pontaEn \in [Remotas -> PontasEn]
      /\ "vnc" \in Remotas /\ "rdp" # "vnc"
  BY DEF IInvEn, TipadaEn, Remotas
<1>2. ASSUME NEW e \in EventosEn, remotoEn' = HandleKey(remotoEn, e)
      PROVE  remotoEn'["vnc"] = remotoEn["vnc"]
  BY <1>1, <1>2, HandleKeyFaz
<1>3. CASE Escrever
  <2>1. filaEn.mao[1] \in EventosEn
    BY <1>1, <1>3 DEF Escrever, TipadaEn, FilasEn
  <2>. QED BY <1>2, <1>3, <2>1 DEF Escrever
<1>4. CASE \E k \in Teclas, p \in BOOLEAN : TeclarOutros(k, p)
  <2>. PICK k \in Teclas, p \in BOOLEAN : TeclarOutros(k, p)
    BY <1>4
  <2>1. Remoto => Evento(janelaEn.aba, k, p) \in EventosEn
    BY DEF Evento, EventosEn, Remoto
  <2>. QED BY <1>2, <2>1 DEF TeclarOutros
<1>5. CASE \E a \in Telas : EnviarCombinacao(a)
  <2>. PICK a \in Telas : EnviarCombinacao(a)
    BY <1>5
  <2>1. a # "vnc"
    BY DEF EnviarCombinacao
  <2>. QED BY <1>1, <2>1 DEF EnviarCombinacao
<1>6. CASE \E bs \in SUBSET Botoes : PonteiroRdp(bs) \/ PonteiroVnc(bs)
  BY <1>1, <1>6 DEF PonteiroRdp, PonteiroVnc
<1>7. CASE \E a \in Remotas : CairOuVoltar(a)
  <2>. PICK a \in Remotas : CairOuVoltar(a)
    BY <1>7
  <2>1. CASE a = "vnc"
    <3>1. pontaEn'["vnc"].viva = ~pontaEn["vnc"].viva
      BY <1>1, <2>1 DEF CairOuVoltar, PontasEn
    <3>. QED BY <3>1
  <2>2. CASE a # "vnc"
    BY <1>1, <2>2 DEF CairOuVoltar
  <2>. QED BY <2>1, <2>2
<1>8. CASE \/ Tirar \/ MudarContexto \/ AlternarOlho \/ CriarGrab \/ AtualizarInibicao
           \/ \E k \in Teclas, p \in BOOLEAN : TeclarLinux(k, p)
  BY <1>8 DEF Tirar, MudarContexto, AlternarOlho, CriarGrab, AtualizarInibicao, TeclarLinux
<1>. QED BY <1>3, <1>4, <1>5, <1>6, <1>7, <1>8 DEF NextEn

\* The promises of the input, for every set of keys, every size of the queue and any
\* number of events: a key that was let go is never left held on the machine without
\* its release on the way, the compositor's shortcuts follow the screen in front, and
\* a read-only machine receives nothing (enfileirar, HandleKey, atualizarInibicao).
THEOREM EntradaGarantida == SpecEn => EntradaCerta
<1>1. IInvEn => SoltarNaoSePerde /\ InibicaoAcompanha
  <2>. SUFFICES ASSUME IInvEn PROVE SoltarNaoSePerde
    BY DEF IInvEn
  <2>. SUFFICES ASSUME NEW a \in Remotas, NEW k \in remotoEn[a].teclas, k \notin teclado.presas
                PROVE  ACaminho(a, k) \/ <<a, k>> \in desviadas
    BY DEF SoltarNaoSePerde
  <2>1. <<a, k>> \in Resolvidas \/ ACaminho(a, k)
    BY DEF IInvEn, Sustentadas, ACaminho
  <2>. QED BY <2>1 DEF Resolvidas
<1>2. SpecEn => [](SoltarNaoSePerde /\ InibicaoAcompanha)
  BY <1>1, IndutivoEn, PTL
<1>3. SpecEn => [][NadaNaSomenteLeitura]_varsEn
  BY IndutivoEn, SomenteLeituraStep, PTL DEF SpecEn
<1>. QED BY <1>2, <1>3 DEF EntradaCerta, SomenteLeitura

-----------------------------------------------------------------------------
(* The parts together.                                                     *)

\* Every part starts in a state of its own.
LEMMA InicioDasPartes ==
  InitPartes => /\ InitEn /\ InitTr /\ InitTe /\ InitSe /\ InitCa
                /\ InitAt /\ InitIn /\ InitAg /\ InitCh /\ Init
BY DEF InitPartes

\* Every step is of one part, and of no other.
LEMMA PassoDasPartes ==
  [NextPartes]_varsPartes =>
    /\ [NextEn]_varsEn /\ [NextTr]_varsTr /\ [NextTe]_varsTe /\ [NextSe]_varsSe
    /\ [NextCa]_varsCa /\ [NextAt]_varsAt /\ [NextIn]_varsIn /\ [NextAg]_varsAg
    /\ [NextCh]_varsCh /\ [Next]_vars
<1>. SUFFICES ASSUME [NextPartes]_varsPartes
              PROVE  /\ [NextEn]_varsEn /\ [NextTr]_varsTr /\ [NextTe]_varsTe /\ [NextSe]_varsSe
                     /\ [NextCa]_varsCa /\ [NextAt]_varsAt /\ [NextIn]_varsIn /\ [NextAg]_varsAg
                     /\ [NextCh]_varsCh /\ [Next]_vars
  OBVIOUS
<1>1. CASE UNCHANGED varsPartes
  BY <1>1 DEF varsPartes
<1>2. CASE /\ caso = "entrada" /\ NextEn
           /\ UNCHANGED <<varsTr, varsTe, varsSe, varsCa, varsAt, varsIn, varsAg, varsCh, vars>>
  BY <1>2
<1>3. CASE /\ caso = "sftp" /\ NextTr
           /\ UNCHANGED <<varsEn, varsTe, varsSe, varsCa, varsAt, varsIn, varsAg, varsCh, vars>>
  BY <1>3
<1>4. CASE /\ caso = "terminal" /\ NextTe
           /\ UNCHANGED <<varsEn, varsTr, varsSe, varsCa, varsAt, varsIn, varsAg, varsCh, vars>>
  BY <1>4
<1>5. CASE /\ caso = "segredos" /\ NextSe
           /\ UNCHANGED <<varsEn, varsTr, varsTe, varsCa, varsAt, varsIn, varsAg, varsCh, vars>>
  BY <1>5
<1>6. CASE /\ caso = "cadastro" /\ NextCa
           /\ UNCHANGED <<varsEn, varsTr, varsTe, varsSe, varsAt, varsIn, varsAg, varsCh, vars>>
  BY <1>6
<1>7. CASE /\ caso = "atualizador" /\ NextAt
           /\ UNCHANGED <<varsEn, varsTr, varsTe, varsSe, varsCa, varsIn, varsAg, varsCh, vars>>
  BY <1>7
<1>8. CASE /\ caso = "instancia" /\ NextIn
           /\ UNCHANGED <<varsEn, varsTr, varsTe, varsSe, varsCa, varsAt, varsAg, varsCh, vars>>
  BY <1>8
<1>9. CASE /\ caso = "atalho" /\ NextAg
           /\ UNCHANGED <<varsEn, varsTr, varsTe, varsSe, varsCa, varsAt, varsIn, varsCh, vars>>
  BY <1>9
<1>10. CASE /\ caso = "chaves" /\ NextCh
           /\ UNCHANGED <<varsEn, varsTr, varsTe, varsSe, varsCa, varsAt, varsIn, varsAg, vars>>
  BY <1>10
<1>11. CASE /\ caso = "prazos" /\ Next
           /\ UNCHANGED <<varsEn, varsTr, varsTe, varsSe, varsCa, varsAt, varsIn, varsAg, varsCh>>
  BY <1>11
<1>. QED BY <1>1, <1>2, <1>3, <1>4, <1>5, <1>6, <1>7, <1>8, <1>9, <1>10, <1>11 DEF NextPartes

\* What runs under MCPartes is, part by part, what each part specifies: no part is
\* disturbed by another, so that the promises proved of each hold of the whole.
THEOREM PartesSaoAsSuas ==
  SpecPartes => /\ SpecEn /\ SpecTr /\ SpecTe /\ SpecSe /\ SpecCa
                /\ SpecAt /\ SpecIn /\ SpecAg /\ SpecCh /\ Spec
<1>1. SpecPartes => SpecEn
  BY InicioDasPartes, PassoDasPartes, PTL DEF SpecPartes, SpecEn
<1>2. SpecPartes => SpecTr
  BY InicioDasPartes, PassoDasPartes, PTL DEF SpecPartes, SpecTr
<1>3. SpecPartes => SpecTe
  BY InicioDasPartes, PassoDasPartes, PTL DEF SpecPartes, SpecTe
<1>4. SpecPartes => SpecSe
  BY InicioDasPartes, PassoDasPartes, PTL DEF SpecPartes, SpecSe
<1>5. SpecPartes => SpecCa
  BY InicioDasPartes, PassoDasPartes, PTL DEF SpecPartes, SpecCa
<1>6. SpecPartes => SpecAt
  BY InicioDasPartes, PassoDasPartes, PTL DEF SpecPartes, SpecAt
<1>7. SpecPartes => SpecIn
  BY InicioDasPartes, PassoDasPartes, PTL DEF SpecPartes, SpecIn
<1>8. SpecPartes => SpecAg
  BY InicioDasPartes, PassoDasPartes, PTL DEF SpecPartes, SpecAg
<1>9. SpecPartes => SpecCh
  BY InicioDasPartes, PassoDasPartes, PTL DEF SpecPartes, SpecCh
<1>10. SpecPartes => Spec
  BY InicioDasPartes, PassoDasPartes, PTL DEF SpecPartes, Spec
<1>. QED BY <1>1, <1>2, <1>3, <1>4, <1>5, <1>6, <1>7, <1>8, <1>9, <1>10

\* The part that runs keeps the types of its variables, whichever it is.
THEOREM PartesTipos == SpecPartes => []TiposPartes
<1>1. /\ caso \in Casos /\ TiposEn /\ TiposTr /\ TiposTe /\ TiposSe /\ TiposCa /\ TiposAt
      /\ TiposIn /\ TiposAg /\ TiposCh /\ TypeOK
      => TiposPartes
  BY DEF TiposPartes, Casos
<1>2. SpecPartes => []TiposEn
  BY PartesSaoAsSuas, TiposDaEntrada, PTL
<1>3. SpecPartes => []TiposTr
  BY PartesSaoAsSuas, TiposDaTransferencia, PTL
<1>4. SpecPartes => []TiposTe
  BY PartesSaoAsSuas, TiposDoTerminal, PTL
<1>5. SpecPartes => []TiposSe
  BY PartesSaoAsSuas, SegredosTipos, PTL
<1>6. SpecPartes => []TiposCa
  BY PartesSaoAsSuas, CadastroTipos, PTL
<1>7. SpecPartes => []TiposAt
  BY PartesSaoAsSuas, AtualizadorTipos, PTL
<1>8. SpecPartes => []TiposIn
  BY PartesSaoAsSuas, InstanciaTipos, PTL
<1>9. SpecPartes => []TiposAg
  BY PartesSaoAsSuas, AtalhoTipos, PTL
<1>10. SpecPartes => []TiposCh
  BY PartesSaoAsSuas, ChavesTipos, PTL
<1>11. SpecPartes => []TypeOK
  BY PartesSaoAsSuas, TiposDaCalibragem, PTL
<1>12. SpecPartes => [](caso \in Casos)
  <2>1. InitPartes => caso \in Casos
    BY DEF InitPartes
  <2>2. caso \in Casos /\ [NextPartes]_varsPartes => (caso \in Casos)'
    BY DEF NextPartes, varsPartes
  <2>. QED BY <2>1, <2>2, PTL DEF SpecPartes
<1>. QED BY <1>1, <1>2, <1>3, <1>4, <1>5, <1>6, <1>7, <1>8, <1>9, <1>10, <1>11, <1>12, PTL

\* Whichever part runs, all the promises of the parts hold at once, of every size of
\* each of them.
THEOREM PartesCumprem ==
  SpecPartes => /\ [](TransferenciaCerta /\ TerminalCerto /\ ConfiancaCerta)
                /\ [](CadastroInteiro /\ AtualizacaoCerta /\ InstanciaCerta)
                /\ [](AtalhoCerto /\ PrazosCertos)
                /\ EntradaCerta
<1>1. SpecPartes => [](TransferenciaCerta /\ TerminalCerto /\ ConfiancaCerta)
  BY PartesSaoAsSuas, TransferenciaSempreCerta, TerminalSempreCerto, ConfiancaSempreCerta, PTL
<1>2. SpecPartes => [](CadastroInteiro /\ AtualizacaoCerta /\ InstanciaCerta)
  BY PartesSaoAsSuas, CadastroSempreInteiro, AtualizacaoSempreCerta, InstanciaCumpre, PTL
<1>3. SpecPartes => [](AtalhoCerto /\ PrazosCertos)
  BY PartesSaoAsSuas, AtalhoSempreCerto, PrazosDasDuasFases, PTL
<1>4. SpecPartes => EntradaCerta
  BY PartesSaoAsSuas, EntradaGarantida
<1>. QED BY <1>1, <1>2, <1>3, <1>4
=============================================================================
