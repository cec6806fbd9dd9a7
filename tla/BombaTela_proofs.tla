-------------------------- MODULE BombaTela_proofs --------------------------
(***************************************************************************)
(* Proofs about BombaTela, for every width of the screen and every number  *)
(* of changes: IInv is inductive, so CreditoUnico, NadaPerdido and         *)
(* SinalPresente hold in every reachable state; and every step is one of   *)
(* EspelhoTela, or leaves what it sees alone.                              *)
(***************************************************************************)
EXTENDS BombaTela, SequenceTheorems, TLAPS

-----------------------------------------------------------------------------
(* Rectangles.                                                             *)

\* The box of two rectangles is a rectangle that covers both, and it starts
\* at 0 when one of them does.
LEMMA JuntarCobre ==
  ASSUME NEW d \in Intervalo, NEW r \in Intervalo
  PROVE  /\ Juntar(d, r) \in Intervalo
         /\ Dentro(d) \subseteq Dentro(Juntar(d, r))
         /\ Dentro(r) \subseteq Dentro(Juntar(d, r))
         /\ ~EhVazio(r) => ~EhVazio(Juntar(d, r))
         /\ ~EhVazio(d) => ~EhVazio(Juntar(d, r))
         /\ ~EhVazio(r) /\ r.x0 = 0 => Juntar(d, r).x0 = 0
         /\ ~EhVazio(d) /\ d.x0 = 0 => Juntar(d, r).x0 = 0
         /\ EhVazio(r) => Juntar(d, r) = d
         /\ ~EhVazio(Juntar(d, r)) =>
              \/ ~EhVazio(d) /\ Juntar(d, r).x0 = d.x0
              \/ ~EhVazio(r) /\ Juntar(d, r).x0 = r.x0
         /\ ~EhVazio(d) => Juntar(d, r).x0 <= d.x0
         /\ ~EhVazio(r) => Juntar(d, r).x0 <= r.x0
<1>. USE LargAssumption
<1>1. CASE EhVazio(r)
  BY <1>1 DEF Juntar, Intervalo, Dentro, EhVazio, Colunas
<1>2. CASE ~EhVazio(r) /\ EhVazio(d)
  BY <1>2 DEF Juntar, Intervalo, Dentro, EhVazio, Colunas
<1>3. CASE ~EhVazio(r) /\ ~EhVazio(d)
  BY <1>3 DEF Juntar, Intervalo, Dentro, EhVazio, Colunas, Menor, Maior
<1>. QED BY <1>1, <1>2, <1>3

\* The rectangle of tudo() covers every column.
LEMMA TelaInteiraCobre ==
  /\ TelaInteira \in Intervalo
  /\ ~EhVazio(TelaInteira)
  /\ TelaInteira.x0 = 0
  /\ Dentro(TelaInteira) = Colunas
BY LargAssumption DEF TelaInteira, Intervalo, EhVazio, Dentro, Colunas

\* Clipping keeps the columns of a screen of width l and no other.
LEMMA RecorteFica ==
  ASSUME NEW r \in Intervalo, NEW l \in Larguras
  PROVE  /\ Recorte(r, l) \in Intervalo
         /\ Recorte(r, l).x0 = r.x0
         /\ Recorte(r, l).x1 <= l
         /\ Dentro(Recorte(r, l)) = {c \in Dentro(r) : c < l}
         /\ EhVazio(Recorte(r, l)) => EhVazio(r) \/ r.x0 >= l
BY LargAssumption DEF Recorte, Intervalo, Menor, Dentro, Colunas, Larguras, EhVazio

-----------------------------------------------------------------------------
(* The initial states.                                                     *)

LEMMA InitIInv == Init => IInv
<1>. SUFFICES ASSUME Init PROVE IInv
  OBVIOUS
<1>. USE LargAssumption, MudancasAssumption
<1>1. quadros \in Seq(Quadro) /\ Len(quadros) = 0
  BY DEF Init
<1>2. TypeOK
  <2>1. [c \in Colunas |-> 0] \in [Colunas -> 0 .. MaxMudancas]
    OBVIOUS
  <2>2. Vazio \in Intervalo
    BY DEF Vazio, Intervalo
  <2>3. tela \in [larg : 0 .. MaxLarg, pix : [Colunas -> 0 .. MaxMudancas]]
    BY <2>1 DEF Init
  <2>4. sujo \in BOOLEAN /\ creditos \in BOOLEAN /\ parar \in BOOLEAN
    BY DEF Init
  <2>5. emPintura \in SUBSET Colunas
    BY DEF Init
  <2>6. fb \in [Colunas -> 0 .. MaxMudancas] /\ copia \in [Colunas -> 0 .. MaxMudancas]
    BY <2>1 DEF Init
  <2>7. larg \in 0 .. MaxLarg /\ largCopia \in 0 .. MaxLarg /\ prox \in 0 .. MaxLarg
        /\ relogio \in 0 .. MaxMudancas /\ creditosNoFio \in Nat /\ adiados \in Nat
    BY DEF Init
  <2>8. dano \in Intervalo /\ tomado \in Intervalo
    BY <2>2 DEF Init
  <2>. QED BY <1>1, <2>3, <2>4, <2>5, <2>6, <2>7, <2>8 DEF Init, TypeOK
<1>3. CreditoUnico
  BY <1>1 DEF Init, CreditoUnico, Fichas, Bit, BombaComCredito
<1>4. BombaCoerente
  BY DEF Init, BombaCoerente
<1>5. ForaDaTela /\ SinalPresente
  BY DEF Init, ForaDaTela, SinalPresente, EhVazio, Vazio
<1>6. 0 .. larg - 1 = {}
  BY DEF Init
<1>. QED BY <1>2, <1>3, <1>4, <1>5, <1>6 DEF IInv

-----------------------------------------------------------------------------
(* Frames.                                                                 *)

\* The frame the pump is about to send is one DecodificarQuadro accepts.
LEMMA QuadroSai == TypeOK /\ BombaCoerente /\ pc = "enviar" => QuadroPronto \in Quadro
<1>. SUFFICES ASSUME TypeOK, BombaCoerente, pc = "enviar" PROVE QuadroPronto \in Quadro
  OBVIOUS
<1>1. /\ tomado.x0 \in Colunas /\ tomado.x1 \in Larguras /\ largCopia \in Larguras
      /\ tomado.x0 < tomado.x1 /\ tomado.x1 <= largCopia
  BY LargAssumption, SMTT(30) DEF TypeOK, BombaCoerente, Intervalo, Colunas, Larguras
<1>2. copia \in [Colunas -> 0 .. MaxMudancas]
  BY DEF TypeOK
<1>. QED BY <1>1, <1>2 DEF QuadroPronto, Quadro

\* Pasting a frame gives a picture of the size of the frame's screen, whose
\* columns are the frame's inside the rectangle and, outside it, those of
\* before or blank.
LEMMA AplicarQuadroTipo ==
  ASSUME NEW t \in [larg : 0 .. MaxLarg, pix : [Colunas -> 0 .. MaxMudancas]],
         NEW q \in Quadro
  PROVE  /\ AplicarQuadro(t, q) \in [larg : 0 .. MaxLarg, pix : [Colunas -> 0 .. MaxMudancas]]
         /\ AplicarQuadro(t, q).larg = q.larg
         /\ \A c \in Dentro(q) : AplicarQuadro(t, q).pix[c] = q.pix[c]
         /\ t.larg = q.larg =>
              \A c \in Colunas \ Dentro(q) : AplicarQuadro(t, q).pix[c] = t.pix[c]
<1>. USE LargAssumption, MudancasAssumption
<1>. DEFINE base == IF t.larg = q.larg THEN t.pix ELSE EmBranco
            novo == [c \in Colunas |-> IF q.x0 <= c /\ c < q.x1 THEN q.pix[c] ELSE base[c]]
<1>1. q.pix \in [Colunas -> 0 .. MaxMudancas] /\ q.larg \in 0 .. MaxLarg
  BY DEF Quadro, Larguras
<1>2. base \in [Colunas -> 0 .. MaxMudancas]
  BY DEF EmBranco
<1>3. novo \in [Colunas -> 0 .. MaxMudancas]
  <2>. HIDE DEF base
  <2>. QED BY <1>1, <1>2
<1>4. AplicarQuadro(t, q) = [larg |-> q.larg, pix |-> novo]
  BY DEF AplicarQuadro
<1>5. \A c \in Dentro(q) : novo[c] = q.pix[c]
  BY DEF Dentro
<1>6. t.larg = q.larg => \A c \in Colunas \ Dentro(q) : novo[c] = t.pix[c]
  BY DEF Dentro
<1>. HIDE DEF novo
<1>. QED BY <1>1, <1>3, <1>4, <1>5, <1>6

-----------------------------------------------------------------------------
(* Types: one step per action.                                             *)

\* Every step keeps every variable in its type; a frame sent always fits its
\* screen.
LEMMA TypeStep == IInv /\ [Next]_vars => TypeOK'
<1>. SUFFICES ASSUME IInv, [Next]_vars PROVE TypeOK'
  OBVIOUS
<1>. USE LargAssumption, MudancasAssumption
<1>. USE DEF IInv, TypeOK, libVars, bombaVars, canalVars, abaVars
<1>1. CASE \E w \in Larguras : NascerFb(w)
  <2>. PICK w \in Larguras : NascerFb(w)
    BY <1>1
  <2>1. fb' = [c \in Colunas |-> relogio + 1] /\ relogio + 1 \in 0 .. MaxMudancas
        /\ relogio' = relogio + 1
    BY DEF NascerFb, TrocarFb
  <2>2. fb' \in [Colunas -> 0 .. MaxMudancas]
    BY <2>1
  <2>. QED BY <2>1, <2>2 DEF NascerFb, TrocarFb, Larguras
<1>2. CASE \E w \in Larguras : Redimensionar(w)
  <2>. PICK w \in Larguras : Redimensionar(w)
    BY <1>2
  <2>1. fb' = [c \in Colunas |-> relogio + 1] /\ relogio + 1 \in 0 .. MaxMudancas
        /\ relogio' = relogio + 1
    BY DEF Redimensionar, TrocarFb
  <2>2. fb' \in [Colunas -> 0 .. MaxMudancas]
    BY <2>1
  <2>. QED BY <2>1, <2>2 DEF Redimensionar, TrocarFb, Larguras
<1>3. CASE FalharResize
  BY <1>3 DEF FalharResize
<1>4. CASE \E c \in Colunas : Pintar(c)
  BY <1>4 DEF Pintar
<1>5. CASE FimPintura
  <2>1. dano' \in Intervalo
    BY <1>5, JuntarCobre DEF FimPintura
  <2>. QED BY <1>5, <2>1 DEF FimPintura
<1>6. CASE AvisarResize
  <2>1. dano' \in Intervalo
    BY <1>6, JuntarCobre, TelaInteiraCobre DEF AvisarResize
  <2>. QED BY <1>6, <2>1 DEF AvisarResize
<1>7. CASE LibSinalizar
  BY <1>7 DEF LibSinalizar
<1>8. CASE EnviarConectado
  BY <1>8 DEF EnviarConectado
<1>9. CASE MarcarTudo
  <2>1. dano' \in Intervalo
    BY <1>9, JuntarCobre, TelaInteiraCobre DEF MarcarTudo
  <2>. QED BY <1>9, <2>1 DEF MarcarTudo
<1>10. CASE SinalizarConectado
  BY <1>10 DEF SinalizarConectado
<1>11. CASE PegarCredito
  BY <1>11 DEF PegarCredito
<1>12. CASE PegarSujo
  BY <1>12 DEF PegarSujo
<1>13. CASE SairDaBomba
  BY <1>13 DEF SairDaBomba
<1>14. CASE Tomar
  <2>1. dano' \in Intervalo /\ tomado' \in Intervalo
    BY <1>14 DEF Tomar, Vazio, Intervalo
  <2>. QED BY <1>14, <2>1 DEF Tomar
<1>15. CASE Capturar
  BY <1>15 DEF Capturar
<1>16. CASE Redanificar
  <2>1. dano' \in Intervalo
    BY <1>16, JuntarCobre DEF Redanificar
  <2>. QED BY <1>16, <2>1 DEF Redanificar
<1>17. CASE CopiarColuna
  <2>1. prox \in Colunas /\ prox' \in 0 .. MaxLarg
    BY <1>17 DEF CopiarColuna, Colunas
  <2>2. copia' \in [Colunas -> 0 .. MaxMudancas]
    BY <1>17, <2>1 DEF CopiarColuna
  <2>. QED BY <1>17, <2>1, <2>2 DEF CopiarColuna
<1>18. CASE Recortar
  <2>1. largCopia \in Larguras
    BY <1>18 DEF Recortar, BombaCoerente, Larguras
  <2>2. dano' \in Intervalo /\ tomado' \in Intervalo
    BY <1>18, <2>1, JuntarCobre, TelaInteiraCobre, RecorteFica DEF Recortar
  <2>. QED BY <1>18, <2>2 DEF Recortar
<1>19. CASE EnviarQuadro
  <2>1. QuadroPronto \in Quadro
    BY <1>19, QuadroSai DEF EnviarQuadro
  <2>2. quadros' \in Seq(Quadro)
    BY <1>19, <2>1 DEF EnviarQuadro
  <2>. QED BY <1>19, <2>2 DEF EnviarQuadro
<1>20. CASE FalharEnvio
  BY <1>20 DEF FalharEnvio
<1>21. CASE DevolverCredito
  BY <1>21 DEF DevolverCredito
<1>22. CASE LerCredito
  BY <1>22 DEF LerCredito
<1>23. CASE FimDosComandos
  BY <1>23 DEF FimDosComandos
<1>24. CASE LerConectado
  BY <1>24 DEF LerConectado
<1>25. CASE \E v \in BOOLEAN : LerQuadro(v)
  <2>. PICK v \in BOOLEAN : LerQuadro(v)
    BY <1>25
  <2>1. Head(quadros) \in Quadro /\ quadros' \in Seq(Quadro)
    BY DEF LerQuadro
  <2>2. tela' \in [larg : 0 .. MaxLarg, pix : [Colunas -> 0 .. MaxMudancas]]
    BY <2>1, AplicarQuadroTipo DEF LerQuadro
  <2>3. creditosNoFio' \in Nat /\ adiados' \in Nat
    BY DEF LerQuadro
  <2>. QED BY <2>1, <2>2, <2>3 DEF LerQuadro
<1>26. CASE VencerAdiado
  BY <1>26 DEF VencerAdiado
<1>27. CASE FecharCanal
  BY <1>27 DEF FecharCanal
<1>28. CASE UNCHANGED vars
  BY <1>28 DEF vars
<1>. QED BY <1>1, <1>2, <1>3, <1>4, <1>5, <1>6, <1>7, <1>8, <1>9, <1>10, <1>11, <1>12, <1>13, <1>14, <1>15, <1>16, <1>17, <1>18, <1>19, <1>20, <1>21, <1>22, <1>23, <1>24, <1>25, <1>26, <1>27, <1>28 DEF Next, Servidor, Lib, Ligar, Bomba, Comandos, Aba

-----------------------------------------------------------------------------
(* The credit.                                                             *)

\* The credit is neither duplicated nor lost by any step.
LEMMA CreditStep == IInv /\ [Next]_vars => CreditoUnico'
<1>. SUFFICES ASSUME IInv, [Next]_vars PROVE CreditoUnico'
  OBVIOUS
<1>. USE LargAssumption, MudancasAssumption
<1>. USE DEF IInv, CreditoUnico, Fichas, BombaComCredito, Bit, libVars, bombaVars,
       canalVars, abaVars
<1>0. /\ Len(quadros) \in Nat /\ creditosNoFio \in Nat /\ adiados \in Nat
      /\ BombaCoerente /\ TypeOK
  BY DEF TypeOK
<1>1. CASE \E w \in Larguras : NascerFb(w)
  BY <1>0, <1>1 DEF NascerFb, TrocarFb
<1>2. CASE \E w \in Larguras : Redimensionar(w)
  BY <1>0, <1>2 DEF Redimensionar, TrocarFb
<1>3. CASE FalharResize
  BY <1>0, <1>3 DEF FalharResize
<1>4. CASE \E c \in Colunas : Pintar(c)
  BY <1>0, <1>4 DEF Pintar
<1>5. CASE FimPintura
  BY <1>0, <1>5 DEF FimPintura
<1>6. CASE AvisarResize
  BY <1>0, <1>6 DEF AvisarResize
<1>7. CASE LibSinalizar
  BY <1>0, <1>7 DEF LibSinalizar
<1>8. CASE EnviarConectado
  BY <1>0, <1>8 DEF EnviarConectado, BombaCoerente
<1>9. CASE MarcarTudo
  BY <1>0, <1>9 DEF MarcarTudo
<1>10. CASE SinalizarConectado
  BY <1>0, <1>10 DEF SinalizarConectado
<1>11. CASE PegarCredito
  BY <1>0, <1>11 DEF PegarCredito
<1>12. CASE PegarSujo
  BY <1>0, <1>12 DEF PegarSujo
<1>13. CASE SairDaBomba
  BY <1>0, <1>13 DEF SairDaBomba
<1>14. CASE Tomar
  BY <1>0, <1>14 DEF Tomar
<1>15. CASE Capturar
  BY <1>0, <1>15 DEF Capturar
<1>16. CASE Redanificar
  BY <1>0, <1>16 DEF Redanificar
<1>17. CASE CopiarColuna
  BY <1>0, <1>17 DEF CopiarColuna
<1>18. CASE Recortar
  BY <1>0, <1>18 DEF Recortar
<1>19. CASE EnviarQuadro
  <2>1. Len(quadros') = Len(quadros) + 1
    <3>1. QuadroPronto \in Quadro
      BY <1>0, <1>19, QuadroSai DEF EnviarQuadro
    <3>. QED BY <1>0, <1>19, <3>1 DEF EnviarQuadro
  <2>. QED BY <1>0, <1>19, <2>1 DEF EnviarQuadro
<1>20. CASE FalharEnvio
  BY <1>0, <1>20 DEF FalharEnvio
<1>21. CASE DevolverCredito
  BY <1>0, <1>21 DEF DevolverCredito
<1>22. CASE LerCredito
  BY <1>0, <1>22 DEF LerCredito
<1>23. CASE FimDosComandos
  BY <1>0, <1>23 DEF FimDosComandos
<1>24. CASE LerConectado
  BY <1>0, <1>24 DEF LerConectado
<1>25. CASE \E v \in BOOLEAN : LerQuadro(v)
  <2>. PICK v \in BOOLEAN : LerQuadro(v)
    BY <1>0, <1>25
  <2>1. Len(quadros') = Len(quadros) - 1
    BY DEF LerQuadro
  <2>. QED BY <1>0, <2>1 DEF LerQuadro
<1>26. CASE VencerAdiado
  BY <1>0, <1>26 DEF VencerAdiado
<1>27. CASE FecharCanal
  BY <1>0, <1>27 DEF FecharCanal
<1>28. CASE UNCHANGED vars
  BY <1>0, <1>28 DEF vars
<1>. QED BY <1>1, <1>2, <1>3, <1>4, <1>5, <1>6, <1>7, <1>8, <1>9, <1>10, <1>11,
       <1>12, <1>13, <1>14, <1>15, <1>16, <1>17, <1>18, <1>19, <1>20, <1>21, <1>22,
       <1>23, <1>24, <1>25, <1>26, <1>27, <1>28 DEF Next, Servidor, Lib, Ligar,
       Bomba, Comandos, Aba

-----------------------------------------------------------------------------
(* The pump.                                                               *)

\* The pump's state stays coherent: a copy sees one geometry, and what it sends
\* fits it.
LEMMA BombaStep == IInv /\ [Next]_vars => BombaCoerente'
<1>. SUFFICES ASSUME IInv, [Next]_vars PROVE BombaCoerente'
  OBVIOUS
<1>. USE LargAssumption, MudancasAssumption
<1>. USE DEF IInv, BombaCoerente, libVars, bombaVars, canalVars, abaVars
<1>0. BombaCoerente /\ TypeOK
  OBVIOUS
<1>1. CASE \E w \in Larguras : NascerFb(w)
  BY <1>0, <1>1 DEF NascerFb, TrocarFb, FbTravado
<1>2. CASE \E w \in Larguras : Redimensionar(w)
  BY <1>0, <1>2 DEF Redimensionar, TrocarFb, FbTravado
<1>3. CASE FalharResize
  BY <1>0, <1>3 DEF FalharResize, FbTravado
<1>4. CASE \E c \in Colunas : Pintar(c)
  <2>. PICK c \in Colunas : Pintar(c)
    BY <1>4
  <2>. QED BY <1>0 DEF Pintar
<1>5. CASE FimPintura
  BY <1>0, <1>5 DEF FimPintura
<1>6. CASE AvisarResize
  BY <1>0, <1>6 DEF AvisarResize
<1>7. CASE LibSinalizar
  BY <1>0, <1>7 DEF LibSinalizar
<1>8. CASE EnviarConectado
  BY <1>0, <1>8 DEF EnviarConectado
<1>9. CASE MarcarTudo
  BY <1>0, <1>9 DEF MarcarTudo
<1>10. CASE SinalizarConectado
  BY <1>0, <1>10 DEF SinalizarConectado
<1>11. CASE PegarCredito
  BY <1>0, <1>11 DEF PegarCredito
<1>12. CASE PegarSujo
  BY <1>0, <1>12 DEF PegarSujo
<1>13. CASE SairDaBomba
  BY <1>0, <1>13 DEF SairDaBomba
<1>14. CASE Tomar
  BY <1>0, <1>14 DEF Tomar
<1>15. CASE Capturar
  BY <1>0, <1>15 DEF Capturar, TypeOK
<1>16. CASE Redanificar
  BY <1>0, <1>16 DEF Redanificar
<1>17. CASE CopiarColuna
  BY <1>0, <1>17 DEF CopiarColuna, TypeOK
<1>18. CASE Recortar
  <2>1. largCopia \in Larguras
    BY <1>0, <1>18 DEF Recortar, Larguras, TypeOK
  <2>2. /\ Recorte(tomado, largCopia) \in Intervalo
        /\ Recorte(tomado, largCopia).x1 <= largCopia
    BY <2>1, <1>0, RecorteFica DEF TypeOK
  <2>. QED BY <1>0, <1>18, <2>1, <2>2 DEF Recortar, TypeOK, EhVazio, Intervalo, Larguras
<1>19. CASE EnviarQuadro
  BY <1>0, <1>19 DEF EnviarQuadro
<1>20. CASE FalharEnvio
  BY <1>0, <1>20 DEF FalharEnvio
<1>21. CASE DevolverCredito
  BY <1>0, <1>21 DEF DevolverCredito
<1>22. CASE LerCredito
  BY <1>0, <1>22 DEF LerCredito
<1>23. CASE FimDosComandos
  BY <1>0, <1>23 DEF FimDosComandos
<1>24. CASE LerConectado
  BY <1>0, <1>24 DEF LerConectado
<1>25. CASE \E v \in BOOLEAN : LerQuadro(v)
  BY <1>0, <1>25 DEF LerQuadro
<1>26. CASE VencerAdiado
  BY <1>0, <1>26 DEF VencerAdiado
<1>27. CASE FecharCanal
  BY <1>0, <1>27 DEF FecharCanal
<1>28. CASE UNCHANGED vars
  BY <1>0, <1>28 DEF vars
<1>. QED BY <1>1, <1>2, <1>3, <1>4, <1>5, <1>6, <1>7, <1>8, <1>9, <1>10, <1>11,
       <1>12, <1>13, <1>14, <1>15, <1>16, <1>17, <1>18, <1>19, <1>20, <1>21, <1>22,
       <1>23, <1>24, <1>25, <1>26, <1>27, <1>28 DEF Next, Servidor, Lib, Ligar,
       Bomba, Comandos, Aba

-----------------------------------------------------------------------------
(* The wake-up.                                                            *)

\* Damage outside a screen that shrank always has its OnResize behind it.
LEMMA ForaStep == IInv /\ [Next]_vars => ForaDaTela'
<1>. SUFFICES ASSUME IInv, [Next]_vars PROVE ForaDaTela'
  OBVIOUS
<1>. USE LargAssumption, MudancasAssumption
<1>. USE DEF IInv, ForaDaTela, ResizeAvisado, libVars, bombaVars, canalVars, abaVars
<1>0. /\ ForaDaTela /\ BombaCoerente /\ TypeOK
      /\ dano \in Intervalo /\ tomado \in Intervalo /\ larg \in 0 .. MaxLarg
  BY DEF TypeOK
<1>1. CASE \E w \in Larguras : NascerFb(w)
  BY <1>0, <1>1 DEF NascerFb, TrocarFb
<1>2. CASE \E w \in Larguras : Redimensionar(w)
  BY <1>0, <1>2 DEF Redimensionar, TrocarFb
<1>3. CASE FalharResize
  BY <1>0, <1>3 DEF FalharResize
<1>4. CASE \E c \in Colunas : Pintar(c)
  BY <1>0, <1>4 DEF Pintar
<1>5. CASE FimPintura
  <2>. PICK r \in Intervalo : /\ CaixaDe(r, emPintura) \/ r = [x0 |-> 0, x1 |-> larg]
                             /\ dano' = Juntar(dano, r)
    BY <1>5 DEF FimPintura
  <2>1. PICK c \in emPintura : c \in Colunas /\ c < larg
    BY <1>0, <1>5 DEF FimPintura, BombaCoerente, TypeOK
  <2>2. r.x0 < larg /\ ~EhVazio(r)
    <3>1. c \in Int /\ larg \in Int /\ r.x0 \in Int /\ r.x1 \in Int
      BY <1>0, <2>1 DEF Colunas, Intervalo
    <3>2. CASE CaixaDe(r, emPintura)
      <4>1. r.x0 <= c /\ c < r.x1
        BY <3>2 DEF CaixaDe
      <4>. QED BY <2>1, <3>1, <4>1 DEF EhVazio
    <3>3. CASE r = [x0 |-> 0, x1 |-> larg]
      <4>1. r.x0 = 0 /\ r.x1 = larg /\ 0 <= c
        BY <2>1, <3>3 DEF Colunas
      <4>. QED BY <2>1, <3>1, <4>1 DEF EhVazio
    <3>. QED BY <3>2, <3>3
  <2>3. dano' \in Intervalo /\ dano'.x0 < larg
    BY <1>0, <2>2, JuntarCobre DEF Intervalo
  <2>4. ~EhVazio(dano) /\ dano.x0 = 0 => ~EhVazio(dano') /\ dano'.x0 = 0
    BY <1>0, JuntarCobre
  <2>5. ~(dano'.x0 >= larg')
    BY <1>0, <1>5, <2>3 DEF FimPintura, Intervalo
  <2>. QED BY <1>0, <1>5, <2>4, <2>5 DEF FimPintura
<1>6. CASE AvisarResize
  <2>1. ~EhVazio(dano') /\ dano'.x0 = 0
    BY <1>0, <1>6, JuntarCobre, TelaInteiraCobre DEF AvisarResize
  <2>. QED BY <1>0, <1>6, <2>1 DEF AvisarResize
<1>7. CASE LibSinalizar
  BY <1>0, <1>7 DEF LibSinalizar
<1>8. CASE EnviarConectado
  BY <1>0, <1>8 DEF EnviarConectado
<1>9. CASE MarcarTudo
  <2>1. ~EhVazio(dano') /\ dano'.x0 = 0
    BY <1>0, <1>9, JuntarCobre, TelaInteiraCobre DEF MarcarTudo
  <2>. QED BY <1>0, <1>9, <2>1 DEF MarcarTudo
<1>10. CASE SinalizarConectado
  BY <1>0, <1>10 DEF SinalizarConectado
<1>11. CASE PegarCredito
  BY <1>0, <1>11 DEF PegarCredito
<1>12. CASE PegarSujo
  BY <1>0, <1>12 DEF PegarSujo
<1>13. CASE SairDaBomba
  BY <1>0, <1>13 DEF SairDaBomba
<1>14. CASE Tomar
  BY <1>0, <1>14 DEF Tomar, EhVazio, Vazio
<1>15. CASE Capturar
  BY <1>0, <1>15 DEF Capturar
<1>16. CASE Redanificar
  <2>1. dano' = Juntar(dano, tomado) /\ ~EhVazio(tomado) /\ ResizeAvisado
    BY <1>0, <1>16 DEF Redanificar, BombaCoerente
  <2>2. dano'.x0 >= larg => larg = 0 \/ lib = "avisar"
    <3>1. CASE EhVazio(dano)
      BY <2>1, <3>1
    <3>2. CASE ~EhVazio(dano)
      <4>1. dano' \in Intervalo /\ dano'.x0 <= dano.x0
        BY <1>0, <2>1, <3>2, JuntarCobre
      <4>. QED BY <1>0, <3>2, <4>1 DEF Intervalo
    <3>. QED BY <3>1, <3>2
  <2>. QED BY <1>0, <1>16, <2>2 DEF Redanificar
<1>17. CASE CopiarColuna
  BY <1>0, <1>17 DEF CopiarColuna
<1>18. CASE Recortar
  <2>1. dano' = dano \/ (~EhVazio(dano') /\ dano'.x0 = 0)
    BY <1>0, <1>18, JuntarCobre, TelaInteiraCobre DEF Recortar
  <2>. QED BY <1>0, <1>18, <2>1 DEF Recortar
<1>19. CASE EnviarQuadro
  BY <1>0, <1>19 DEF EnviarQuadro
<1>20. CASE FalharEnvio
  BY <1>0, <1>20 DEF FalharEnvio
<1>21. CASE DevolverCredito
  BY <1>0, <1>21 DEF DevolverCredito
<1>22. CASE LerCredito
  BY <1>0, <1>22 DEF LerCredito
<1>23. CASE FimDosComandos
  BY <1>0, <1>23 DEF FimDosComandos
<1>24. CASE LerConectado
  BY <1>0, <1>24 DEF LerConectado
<1>25. CASE \E v \in BOOLEAN : LerQuadro(v)
  BY <1>0, <1>25 DEF LerQuadro
<1>26. CASE VencerAdiado
  BY <1>0, <1>26 DEF VencerAdiado
<1>27. CASE FecharCanal
  BY <1>0, <1>27 DEF FecharCanal
<1>28. CASE UNCHANGED vars
  BY <1>0, <1>28 DEF vars
<1>. QED BY <1>1, <1>2, <1>3, <1>4, <1>5, <1>6, <1>7, <1>8, <1>9, <1>10, <1>11,
       <1>12, <1>13, <1>14, <1>15, <1>16, <1>17, <1>18, <1>19, <1>20, <1>21, <1>22,
       <1>23, <1>24, <1>25, <1>26, <1>27, <1>28 DEF Next, Servidor, Lib, Ligar,
       Bomba, Comandos, Aba

\* Damage never stays without a wake-up.
LEMMA SinalStep == IInv /\ [Next]_vars => SinalPresente'
<1>. SUFFICES ASSUME IInv, [Next]_vars PROVE SinalPresente'
  OBVIOUS
<1>. USE LargAssumption, MudancasAssumption
<1>. USE DEF IInv, SinalPresente, libVars, bombaVars, canalVars, abaVars
<1>0. SinalPresente /\ ForaDaTela /\ BombaCoerente /\ TypeOK
      /\ dano \in Intervalo /\ tomado \in Intervalo
  BY DEF TypeOK
<1>1. CASE \E w \in Larguras : NascerFb(w)
  BY <1>0, <1>1 DEF NascerFb, TrocarFb
<1>2. CASE \E w \in Larguras : Redimensionar(w)
  BY <1>0, <1>2 DEF Redimensionar, TrocarFb
<1>3. CASE FalharResize
  BY <1>0, <1>3 DEF FalharResize
<1>4. CASE \E c \in Colunas : Pintar(c)
  BY <1>0, <1>4 DEF Pintar
<1>5. CASE FimPintura
  BY <1>0, <1>5 DEF FimPintura
<1>6. CASE AvisarResize
  BY <1>0, <1>6 DEF AvisarResize
<1>7. CASE LibSinalizar
  BY <1>0, <1>7 DEF LibSinalizar
<1>8. CASE EnviarConectado
  BY <1>0, <1>8 DEF EnviarConectado
<1>9. CASE MarcarTudo
  BY <1>0, <1>9 DEF MarcarTudo
<1>10. CASE SinalizarConectado
  BY <1>0, <1>10 DEF SinalizarConectado
<1>11. CASE PegarCredito
  BY <1>0, <1>11 DEF PegarCredito
<1>12. CASE PegarSujo
  BY <1>0, <1>12 DEF PegarSujo
<1>13. CASE SairDaBomba
  BY <1>0, <1>13 DEF SairDaBomba
<1>14. CASE Tomar
  BY <1>0, <1>14 DEF Tomar, EhVazio, Vazio
<1>15. CASE Capturar
  BY <1>0, <1>15 DEF Capturar
<1>16. CASE Redanificar
  BY <1>0, <1>16, JuntarCobre DEF Redanificar, ForaDaTela, ResizeAvisado
<1>17. CASE CopiarColuna
  BY <1>0, <1>17 DEF CopiarColuna
<1>18. CASE Recortar
  <2>1. largCopia \in Larguras /\ largCopia = larg /\ ~EhVazio(tomado)
    BY <1>0, <1>18 DEF Recortar, Larguras, BombaCoerente, TypeOK
  <2>2. CASE EhVazio(Recorte(tomado, largCopia))
    <3>1. tomado.x0 >= larg
      BY <1>0, <2>1, <2>2, RecorteFica DEF TypeOK
    <3>2. lib \in {"avisar", "sinalizar"} \/ sujo
      BY <1>0, <1>18, <2>1, <3>1 DEF Recortar, ForaDaTela, ResizeAvisado, Larguras
    <3>. QED BY <1>18, <3>2 DEF Recortar
  <2>3. CASE ~EhVazio(Recorte(tomado, largCopia))
    BY <1>0, <1>18, <2>3 DEF Recortar
  <2>. QED BY <2>2, <2>3
<1>19. CASE EnviarQuadro
  BY <1>0, <1>19 DEF EnviarQuadro
<1>20. CASE FalharEnvio
  BY <1>0, <1>20 DEF FalharEnvio
<1>21. CASE DevolverCredito
  BY <1>0, <1>21 DEF DevolverCredito
<1>22. CASE LerCredito
  BY <1>0, <1>22 DEF LerCredito
<1>23. CASE FimDosComandos
  BY <1>0, <1>23 DEF FimDosComandos
<1>24. CASE LerConectado
  BY <1>0, <1>24 DEF LerConectado
<1>25. CASE \E v \in BOOLEAN : LerQuadro(v)
  BY <1>0, <1>25 DEF LerQuadro
<1>26. CASE VencerAdiado
  BY <1>0, <1>26 DEF VencerAdiado
<1>27. CASE FecharCanal
  BY <1>0, <1>27 DEF FecharCanal
<1>28. CASE UNCHANGED vars
  BY <1>0, <1>28 DEF vars
<1>. QED BY <1>1, <1>2, <1>3, <1>4, <1>5, <1>6, <1>7, <1>8, <1>9, <1>10, <1>11,
       <1>12, <1>13, <1>14, <1>15, <1>16, <1>17, <1>18, <1>19, <1>20, <1>21, <1>22,
       <1>23, <1>24, <1>25, <1>26, <1>27, <1>28 DEF Next, Servidor, Lib, Ligar,
       Bomba, Comandos, Aba

-----------------------------------------------------------------------------
(* The columns.                                                            *)

\* A closed socket stays closed and a stopped pump stays stopped.
LEMMA CanalNaoReabre ==
  /\ [Next]_vars /\ canal' = "aberto" => canal = "aberto"
  /\ TypeOK /\ [Next]_vars /\ ~parar' => ~parar
BY DEF Next, Servidor, Lib, Ligar, Bomba, Comandos, Aba, vars, libVars, bombaVars, canalVars,
       abaVars, NascerFb, Redimensionar, TrocarFb, FalharResize, Pintar, FimPintura,
       AvisarResize, LibSinalizar, EnviarConectado, MarcarTudo, SinalizarConectado,
       PegarCredito, PegarSujo, SairDaBomba, Tomar, Capturar, Redanificar, CopiarColuna,
       Recortar, EnviarQuadro, FalharEnvio, DevolverCredito, LerCredito, FimDosComandos,
       LerConectado, LerQuadro, VencerAdiado, FecharCanal

\* Every column stays accounted for: current, pending, or inside a frame under way
\* that will make it current.
LEMMA CelulaStep ==
  IInv /\ [Next]_vars =>
    (canal = "aberto" /\ ~parar =>
       \A c \in 0 .. larg - 1 : EmAndamentoFiel(c) /\ Acompanhada(c))'
<1>. SUFFICES ASSUME IInv, [Next]_vars, canal' = "aberto", ~parar',
                     NEW c \in 0 .. larg' - 1
              PROVE  EmAndamentoFiel(c)' /\ Acompanhada(c)'
  OBVIOUS
<1>. USE LargAssumption, MudancasAssumption
<1>. USE DEF libVars, bombaVars, canalVars, abaVars
<1>0. /\ TypeOK /\ BombaCoerente /\ canal = "aberto" /\ c \in Colunas
      /\ dano \in Intervalo /\ tomado \in Intervalo
      /\ (c < larg => EmAndamentoFiel(c) /\ Acompanhada(c))
      /\ (larg' = larg => c < larg /\ EmAndamentoFiel(c) /\ Acompanhada(c))
  <2>1. TypeOK /\ BombaCoerente /\ dano \in Intervalo /\ tomado \in Intervalo
    BY DEF IInv, TypeOK
  <2>2. TypeOK'
    BY TypeStep
  <2>3. c \in Colunas /\ c < larg' /\ larg \in 0 .. MaxLarg
    <3>1. larg \in 0 .. MaxLarg /\ larg' \in 0 .. MaxLarg
      BY <2>1, <2>2 DEF TypeOK
    <3>2. \A l \in 0 .. MaxLarg : \A d \in 0 .. l - 1 : d \in Colunas /\ d < l
      BY DEF Colunas
    <3>3. c \in Colunas /\ c < larg'
      BY <3>1, <3>2
    <3>. QED BY <3>1, <3>3
  <2>4. canal = "aberto" /\ ~parar
    BY <2>1, CanalNaoReabre
  <2>5. c < larg => EmAndamentoFiel(c) /\ Acompanhada(c)
    BY <2>3, <2>4 DEF IInv, Colunas
  <2>6. larg' = larg => c < larg
    BY <2>3
  <2>. QED BY <2>1, <2>3, <2>4, <2>5, <2>6
<1>p. Pendente(c)' => EmAndamentoFiel(c)' /\ Acompanhada(c)'
  BY DEF EmAndamentoFiel, Acompanhada
<1>q. /\ BombaComCredito => quadros = <<>>
      /\ quadros /= <<>> => Len(quadros) = 1 /\ ~BombaComCredito
  <2>1. Len(quadros) \in Nat /\ creditosNoFio \in Nat /\ adiados \in Nat
        /\ (quadros = <<>> <=> Len(quadros) = 0)
    BY <1>0 DEF TypeOK
  <2>2. Fichas <= 1
    BY DEF IInv, CreditoUnico
  <2>3. BombaComCredito => Len(quadros) = 0
    BY <2>1, <2>2 DEF Fichas, Bit
  <2>4. Len(quadros) <= 1
    BY <2>1, <2>2 DEF Fichas, Bit
  <2>5. BombaComCredito => quadros = <<>>
    BY <2>1, <2>3
  <2>6. Len(quadros) = 0 \/ Len(quadros) = 1
    <3>1. Len(quadros) \in Nat
      BY <2>1
    <3>2. \A n \in Nat : n <= 1 => n = 0 \/ n = 1
      OBVIOUS
    <3>. QED BY <2>4, <3>1, <3>2
  <2>7. quadros /= <<>> => Len(quadros) = 1 /\ ~BombaComCredito
    BY <2>1, <2>3, <2>6
  <2>. QED BY <2>5, <2>7
<1>u. ASSUME larg' = larg, fb' = fb, tela' = tela, quadros' = quadros, tomado' = tomado,
             copia' = copia, largCopia' = largCopia, prox' = prox,
             pc' = pc \/ {pc, pc'} \subseteq {"credito", "sujo", "tomar",
       "devolver", "fim"},
             Pendente(c) => Pendente(c)'
      PROVE  EmAndamentoFiel(c)' /\ Acompanhada(c)'
  BY <1>0, <1>u DEF EmAndamentoFiel, Acompanhada, Atual, Fiel
<1>1. CASE \E w \in Larguras : NascerFb(w)
  BY <1>p, <1>1 DEF NascerFb, TrocarFb, Pendente, APintar
<1>2. CASE \E w \in Larguras : Redimensionar(w)
  BY <1>p, <1>2 DEF Redimensionar, TrocarFb, Pendente, APintar
<1>3. CASE FalharResize
  BY <1>3 DEF FalharResize
<1>4. CASE \E d \in Colunas : Pintar(d)
  <2>. PICK d \in Colunas : Pintar(d)
    BY <1>4
  <2>1. CASE c = d
    BY <1>p, <2>1 DEF Pintar, Pendente, APintar
  <2>2. CASE c /= d
    <3>1. larg' = larg /\ fb'[c] = fb[c] /\ (Pendente(c) => Pendente(c)')
      BY <1>0, <2>2 DEF Pintar, Pendente, APintar, ATomar
    <3>2. EmAndamentoFiel(c) /\ Acompanhada(c)
      BY <1>0, <3>1
    <3>. QED BY <3>1, <3>2 DEF Pintar, EmAndamentoFiel, Acompanhada, Atual, Fiel
  <2>. QED BY <2>1, <2>2
<1>5. CASE FimPintura
  <2>. PICK r \in Intervalo : /\ CaixaDe(r, emPintura) \/ r = [x0 |-> 0, x1 |-> larg]
                             /\ dano' = Juntar(dano, r)
    BY <1>5 DEF FimPintura
  <2>1. Dentro(dano) \subseteq Dentro(dano') /\ Dentro(r) \subseteq Dentro(dano')
    BY <1>0, JuntarCobre
  <2>2. c \in emPintura => c \in Dentro(r)
    BY <1>0, <1>5 DEF FimPintura, CaixaDe, Dentro
  <2>3. Pendente(c) => Pendente(c)'
    BY <1>5, <2>1, <2>2 DEF FimPintura, Pendente, APintar, ATomar
  <2>. QED BY <1>u, <1>5, <2>3 DEF FimPintura
<1>6. CASE AvisarResize
  <2>1. c \in Dentro(dano')
    BY <1>0, <1>6, JuntarCobre, TelaInteiraCobre DEF AvisarResize
  <2>. QED BY <1>p, <2>1 DEF Pendente, ATomar
<1>7. CASE LibSinalizar
  BY <1>u, <1>7 DEF LibSinalizar, Pendente, APintar, ATomar
<1>8. CASE EnviarConectado
  BY <1>u, <1>8 DEF EnviarConectado, Pendente, APintar, ATomar
<1>9. CASE MarcarTudo
  <2>1. c \in Dentro(dano')
    BY <1>0, <1>9, JuntarCobre, TelaInteiraCobre DEF MarcarTudo
  <2>. QED BY <1>p, <2>1 DEF Pendente, ATomar
<1>10. CASE SinalizarConectado
  BY <1>u, <1>10 DEF SinalizarConectado, Pendente, APintar, ATomar
<1>11. CASE PegarCredito
  BY <1>u, <1>11 DEF PegarCredito, Pendente, APintar, ATomar
<1>12. CASE PegarSujo
  BY <1>u, <1>12 DEF PegarSujo, Pendente, APintar, ATomar
<1>13. CASE SairDaBomba
  BY <1>u, <1>13 DEF SairDaBomba, Pendente, APintar, ATomar
<1>14. CASE Tomar
  <2>1. quadros = <<>>
    BY <1>0, <1>q, <1>14 DEF Tomar, BombaComCredito
  <2>2. CASE EhVazio(dano)
    BY <1>u, <1>14, <2>2 DEF Tomar, Pendente, APintar, ATomar
  <2>3. CASE ~EhVazio(dano)
    <3>1. pc' = "capturar" /\ tomado' = dano /\ quadros' = <<>>
      BY <1>14, <2>1, <2>3 DEF Tomar
    <3>2. EmAndamentoFiel(c)'
      BY <3>1 DEF EmAndamentoFiel
    <3>3. Acompanhada(c)
      BY <1>0, <1>14 DEF Tomar
    <3>4. Atual(c) \/ APintar(c) \/ c \in Dentro(dano)
      BY <1>14, <2>1, <3>3 DEF Tomar, Acompanhada, Pendente, ATomar
    <3>. QED BY <1>14, <3>1, <3>2, <3>4 DEF Tomar, Acompanhada, Atual, Pendente, APintar
  <2>. QED BY <2>2, <2>3
<1>15. CASE Capturar
  <2>1. ~(c < 0)
    BY <1>0 DEF Colunas
  <2>2. EmAndamentoFiel(c)'
    BY <1>0, <1>15, <2>1 DEF Capturar, EmAndamentoFiel, Fiel, Pendente, APintar, ATomar
  <2>3. Acompanhada(c)'
    BY <1>0, <1>15 DEF Capturar, Acompanhada, Atual, Pendente, APintar, ATomar
  <2>. QED BY <2>2, <2>3
<1>16. CASE Redanificar
  <2>1. Dentro(dano) \subseteq Dentro(dano') /\ Dentro(tomado) \subseteq Dentro(dano')
    BY <1>0, <1>16, JuntarCobre DEF Redanificar
  <2>2. EmAndamentoFiel(c)'
    BY <1>0, <1>16, <2>1 DEF Redanificar, EmAndamentoFiel, Fiel, Pendente, APintar,
       ATomar
  <2>3. Acompanhada(c)'
    BY <1>0, <1>16, <2>1 DEF Redanificar, Acompanhada, Atual, Pendente, APintar, ATomar
  <2>. QED BY <2>2, <2>3
<1>17. CASE CopiarColuna
  <2>1. prox \in Colunas /\ largCopia = larg /\ c \in Int /\ prox \in Int
    BY <1>0, <1>17 DEF CopiarColuna, BombaCoerente, Colunas, TypeOK
  <2>2. c < prox' => c < prox \/ c = prox
    BY <1>17, <2>1 DEF CopiarColuna
  <2>3. CASE c = prox
    <3>1. copia'[c] = fb[c]
      BY <1>0, <1>17, <2>1, <2>3 DEF CopiarColuna, TypeOK
    <3>. QED BY <1>0, <1>17, <2>1, <3>1 DEF CopiarColuna, EmAndamentoFiel,
       Acompanhada, Atual, Fiel, Pendente, APintar, ATomar
  <2>4. CASE c /= prox
    <3>1. copia'[c] = copia[c]
      BY <1>0, <1>17, <2>1, <2>4 DEF CopiarColuna, TypeOK
    <3>. QED BY <1>0, <1>17, <2>1, <2>2, <2>4, <3>1 DEF CopiarColuna,
       EmAndamentoFiel, Acompanhada, Atual, Fiel, Pendente, APintar, ATomar
  <2>. QED BY <2>3, <2>4
<1>18. CASE Recortar
  <2>1. largCopia \in Larguras /\ largCopia = larg /\ prox = larg /\ c < larg
    BY <1>0, <1>18 DEF Recortar, Larguras, BombaCoerente, TypeOK
  <2>2. CASE EhVazio(Recorte(tomado, largCopia))
    <3>1. c \in Dentro(dano')
      BY <1>0, <1>18, <2>2, JuntarCobre, TelaInteiraCobre DEF Recortar
    <3>. QED BY <1>p, <3>1 DEF Pendente, ATomar
  <2>3. CASE ~EhVazio(Recorte(tomado, largCopia))
    <3>1. c \in Dentro(tomado') <=> c \in Dentro(tomado)
      BY <1>0, <1>18, <2>1, <2>3, RecorteFica DEF Recortar
    <3>2. EmAndamentoFiel(c)'
      BY <1>0, <1>18, <2>1, <2>3, <3>1 DEF Recortar, EmAndamentoFiel, Fiel,
       Pendente, APintar, ATomar
    <3>3. Acompanhada(c)'
      BY <1>0, <1>18, <2>1, <2>3, <3>1 DEF Recortar, Acompanhada, Atual, Pendente,
       APintar, ATomar
    <3>. QED BY <3>2, <3>3
  <2>. QED BY <2>2, <2>3
<1>19. CASE EnviarQuadro
  <2>1. quadros = <<>> /\ pc = "enviar" /\ pc' = "credito"
    BY <1>0, <1>q, <1>19 DEF EnviarQuadro, BombaComCredito
  <2>2. quadros' = <<QuadroPronto>>
    BY <1>19, <2>1 DEF EnviarQuadro
  <2>3. Len(quadros') = 1 /\ quadros'[1] = QuadroPronto
    BY <2>2
  <2>4. Dentro(QuadroPronto) = Dentro(tomado)
    BY DEF QuadroPronto, Dentro
  <2>5. QuadroPronto.larg = largCopia /\ QuadroPronto.pix = copia
    BY DEF QuadroPronto
  <2>6. EmAndamentoFiel(c) /\ Acompanhada(c) /\ larg' = larg /\ fb' = fb
        /\ (Pendente(c) => Pendente(c)')
    BY <1>0, <1>19 DEF EnviarQuadro, Pendente, APintar, ATomar
  <2>7. c \in Dentro(tomado) \/ largCopia /= larg => Fiel(copia, largCopia,
       c) \/ Pendente(c)
    BY <2>1, <2>6 DEF EmAndamentoFiel
  <2>8. EmAndamentoFiel(c)'
    <3>1. \A i \in 1 .. Len(quadros') : quadros'[i] = QuadroPronto
      BY <2>3
    <3>. HIDE DEF QuadroPronto
    <3>. QED BY <2>1, <2>4, <2>5, <2>6, <2>7, <3>1 DEF EmAndamentoFiel, Fiel
  <2>9. Acompanhada(c)'
    <3>1. Atual(c) \/ Pendente(c) \/ c \in Dentro(tomado)
      BY <2>1, <2>6 DEF Acompanhada
    <3>2. 1 \in 1 .. Len(quadros') /\ Dentro(quadros'[1]) = Dentro(tomado)
      BY <2>3, <2>4
    <3>. QED BY <1>19, <2>6, <3>1, <3>2 DEF EnviarQuadro, Acompanhada, Atual
  <2>. QED BY <2>8, <2>9
<1>20. CASE FalharEnvio
  BY <1>0, <1>20 DEF FalharEnvio
<1>21. CASE DevolverCredito
  BY <1>u, <1>21 DEF DevolverCredito, Pendente, APintar, ATomar
<1>22. CASE LerCredito
  BY <1>u, <1>22 DEF LerCredito, Pendente, APintar, ATomar
<1>23. CASE FimDosComandos
  BY <1>0, <1>23 DEF FimDosComandos
<1>24. CASE LerConectado
  BY <1>u, <1>24 DEF LerConectado, Pendente, APintar, ATomar
<1>25. CASE \E v \in BOOLEAN : LerQuadro(v)
  <2>. PICK v \in BOOLEAN : LerQuadro(v)
    BY <1>25
  <2>. DEFINE q == Head(quadros)
  <2>1. q \in Quadro /\ Len(quadros) = 1 /\ q = quadros[1] /\ quadros' = <<>>
    <3>1. quadros \in Seq(Quadro) /\ quadros /= <<>> /\ quadros' = Tail(quadros)
      BY <1>0 DEF LerQuadro, TypeOK
    <3>2. Len(quadros) = 1
      BY <1>q, <3>1
    <3>. QED BY <3>1, <3>2
  <2>2. ~BombaComCredito /\ pc' = pc
    BY <1>q, <2>1 DEF LerQuadro
  <2>3. EmAndamentoFiel(c)'
    BY <2>1, <2>2 DEF EmAndamentoFiel, BombaComCredito
  <2>4. EmAndamentoFiel(c) /\ Acompanhada(c) /\ larg' = larg /\ fb' = fb
        /\ (Pendente(c) => Pendente(c)')
    BY <1>0 DEF LerQuadro, Pendente, APintar, ATomar
  <2>5. tela' = AplicarQuadro(tela, q)
    BY DEF LerQuadro
  <2>. HIDE DEF q
  <2>6. c \in Dentro(q) \/ q.larg /= larg => Fiel(q.pix, q.larg, c) \/ Pendente(c)
    BY <2>1, <2>4 DEF EmAndamentoFiel
  <2>7. Atual(c) \/ Pendente(c) \/ c \in Dentro(q)
    BY <2>1, <2>2, <2>4 DEF Acompanhada, BombaComCredito
  <2>8. CASE Pendente(c)
    BY <1>p, <2>4, <2>8
  <2>9. CASE ~Pendente(c)
    <3>1. q.larg = larg /\ tela'.larg = larg
      BY <1>0, <2>1, <2>5, <2>6, <2>9, AplicarQuadroTipo DEF Fiel, TypeOK
    <3>2. CASE c \in Dentro(q)
      BY <1>0, <2>1, <2>3, <2>4, <2>5, <2>6, <2>9, <3>1, <3>2,
       AplicarQuadroTipo, SMTT(30) DEF Acompanhada, Atual, Fiel, TypeOK
    <3>3. CASE c \notin Dentro(q)
      BY <1>0, <2>1, <2>3, <2>4, <2>5, <2>7, <2>9, <3>1, <3>3,
       AplicarQuadroTipo DEF Acompanhada, Atual, TypeOK
    <3>. QED BY <3>2, <3>3
  <2>. QED BY <2>8, <2>9
<1>26. CASE VencerAdiado
  BY <1>u, <1>26 DEF VencerAdiado, Pendente, APintar, ATomar
<1>27. CASE FecharCanal
  BY <1>0, <1>27 DEF FecharCanal
<1>28. CASE UNCHANGED vars
  BY <1>u, <1>28 DEF vars, Pendente, APintar, ATomar
<1>. QED BY <1>1, <1>2, <1>3, <1>4, <1>5, <1>6, <1>7, <1>8, <1>9, <1>10, <1>11,
       <1>12, <1>13, <1>14, <1>15, <1>16, <1>17, <1>18, <1>19, <1>20, <1>21, <1>22,
       <1>23, <1>24, <1>25, <1>26, <1>27, <1>28 DEF Next, Servidor, Lib, Ligar,
       Bomba, Comandos, Aba

-----------------------------------------------------------------------------
(* The refinement of EspelhoTela.                                          *)

\* The frame under way is the only one, and the pump holds nothing else.
LEMMA UmQuadro ==
  TypeOK /\ CreditoUnico =>
    /\ BombaComCredito => quadros = <<>>
    /\ quadros /= <<>> => /\ ~BombaComCredito
                          /\ Len(quadros) = 1
                          /\ Head(quadros) = quadros[1]
                          /\ Head(quadros) \in Quadro
                          /\ Tail(quadros) = <<>>
<1>. SUFFICES ASSUME TypeOK, CreditoUnico
              PROVE  /\ BombaComCredito => quadros = <<>>
                     /\ quadros /= <<>> => /\ ~BombaComCredito
                                           /\ Len(quadros) = 1
                                           /\ Head(quadros) = quadros[1]
                                           /\ Head(quadros) \in Quadro
                                           /\ Tail(quadros) = <<>>
  OBVIOUS
<1>1. quadros \in Seq(Quadro) /\ creditosNoFio \in Nat /\ adiados \in Nat
  BY DEF TypeOK
<1>2. Len(quadros) \in Nat /\ (quadros = <<>> <=> Len(quadros) = 0)
  BY <1>1
<1>3. Fichas <= 1
  BY DEF CreditoUnico
<1>4. BombaComCredito => Len(quadros) = 0
  BY <1>1, <1>2, <1>3 DEF Fichas, Bit
<1>5. Len(quadros) <= 1
  BY <1>1, <1>2, <1>3 DEF Fichas, Bit
<1>6. Len(quadros) = 0 \/ Len(quadros) = 1
  <2>1. \A n \in Nat : n <= 1 => n = 0 \/ n = 1
    OBVIOUS
  <2>. QED BY <1>2, <1>5, <2>1
<1>7. ASSUME quadros /= <<>>
      PROVE  /\ Len(quadros) = 1
             /\ Head(quadros) = quadros[1] /\ Head(quadros) \in Quadro
             /\ Tail(quadros) = <<>>
  <2>1. Len(quadros) = 1
    BY <1>2, <1>6, <1>7
  <2>2. Head(quadros) = quadros[1] /\ quadros[1] \in Quadro
    BY <1>1, <2>1
  <2>3. Tail(quadros) \in Seq(Quadro) /\ Len(Tail(quadros)) = 0
    BY <1>1, <1>7, <2>1, HeadTailProperties
  <2>4. \A s \in Seq(Quadro) : Len(s) = 0 => s = <<>>
    OBVIOUS
  <2>5. Tail(quadros) = <<>>
    BY <2>3, <2>4
  <2>. QED BY <2>1, <2>2, <2>5
<1>. QED BY <1>2, <1>4, <1>6, <1>7

\* A step that moves nothing of what is copied, sent or shown.
LEMMA OrdemQuieta ==
  ASSUME QuadrosEmOrdem,
         fb' = fb, relogio' = relogio, tela' = tela, quadros' = quadros,
         copia' = copia, prox' = prox, largCopia' = largCopia,
         pc' = pc \/ pc' \notin {"copiar", "enviar"}
  PROVE  QuadrosEmOrdem'
BY DEF QuadrosEmOrdem, DoPassado, NaoRegride

\* A change of the remote screen only makes the framebuffer newer.
LEMMA OrdemMudanca ==
  ASSUME TypeOK, TypeOK', QuadrosEmOrdem,
         \A c \in Colunas : fb[c] <= fb'[c] /\ fb'[c] <= relogio',
         UNCHANGED <<tela, quadros, copia, prox, largCopia, pc>>
  PROVE  QuadrosEmOrdem'
<1>1. ASSUME NEW pix \in [Colunas -> 0 .. MaxMudancas], DoPassado(pix)
      PROVE  \A c \in Colunas : pix[c] <= fb'[c]
  <2>1. \A c \in Colunas : pix[c] \in Int /\ fb[c] \in Int /\ fb'[c] \in Int
    BY MudancasAssumption DEF TypeOK
  <2>2. \A c \in Colunas : pix[c] <= fb[c]
    BY <1>1 DEF DoPassado
  <2>. QED BY <2>1, <2>2
<1>2. \A c \in Colunas : tela.pix[c] <= fb'[c]
  BY <1>1 DEF TypeOK, QuadrosEmOrdem
<1>3. \A c \in Colunas : copia[c] <= fb'[c]
  BY <1>1 DEF TypeOK, QuadrosEmOrdem
<1>4. \A i \in 1 .. Len(quadros) : \A c \in Colunas : quadros[i].pix[c] <= fb'[c]
  <2>. SUFFICES ASSUME NEW i \in 1 .. Len(quadros)
                PROVE  \A c \in Colunas : quadros[i].pix[c] <= fb'[c]
    OBVIOUS
  <2>1. quadros[i] \in Quadro
    BY DEF TypeOK
  <2>2. quadros[i].pix \in [Colunas -> 0 .. MaxMudancas]
    BY <2>1 DEF Quadro
  <2>. QED BY <1>1, <2>2 DEF QuadrosEmOrdem
<1>5. DoPassado(tela.pix)' /\ DoPassado(copia)'
  BY <1>2, <1>3 DEF DoPassado
<1>6. \A i \in 1 .. Len(quadros') : DoPassado(quadros[i].pix)'
  BY <1>4 DEF DoPassado
<1>. QED BY <1>5, <1>6 DEF QuadrosEmOrdem, NaoRegride

\* QuadrosEmOrdem is kept by every step. The copy reads the framebuffer after
\* the last frame was pasted, so what it reads is not older than what is shown.
LEMMA OrdemStep == IInv /\ QuadrosEmOrdem /\ [Next]_vars => QuadrosEmOrdem'
<1>. SUFFICES ASSUME IInv, QuadrosEmOrdem, [Next]_vars PROVE QuadrosEmOrdem'
  OBVIOUS
<1>. USE DEF libVars, bombaVars, canalVars, abaVars
<1>0. TypeOK /\ TypeOK' /\ CreditoUnico
  BY TypeStep DEF IInv
<1>1. ASSUME NEW w \in Larguras, TrocarFb(w),
             UNCHANGED <<tela, quadros, copia, prox, largCopia, pc>>
      PROVE  QuadrosEmOrdem'
  <2>1. \A c \in Colunas : fb'[c] = relogio + 1
    BY <1>1 DEF TrocarFb
  <2>2. relogio' = relogio + 1 /\ relogio \in Int
    BY <1>0, <1>1 DEF TrocarFb, TypeOK
  <2>3. \A c \in Colunas : fb[c] \in Int /\ fb[c] <= relogio
    BY <1>0, MudancasAssumption DEF TypeOK, QuadrosEmOrdem
  <2>4. \A c \in Colunas : fb[c] <= fb'[c] /\ fb'[c] <= relogio'
    BY <2>1, <2>2, <2>3
  <2>. QED BY <1>0, <1>1, <2>4, OrdemMudanca
<1>2. CASE \E w \in Larguras : NascerFb(w) \/ Redimensionar(w)
  BY <1>1, <1>2 DEF NascerFb, Redimensionar
<1>3. CASE FalharResize
  BY <1>3, OrdemQuieta DEF FalharResize
<1>4. CASE \E c \in Colunas : Pintar(c)
  <2>. PICK d \in Colunas : Pintar(d)
    BY <1>4
  <2>1. relogio' = relogio + 1 /\ relogio \in Int /\ fb' = [fb EXCEPT ![d] = relogio + 1]
    BY <1>0 DEF Pintar, TypeOK
  <2>2. \A c \in Colunas : fb[c] \in Int /\ fb[c] <= relogio
    BY <1>0, MudancasAssumption DEF TypeOK, QuadrosEmOrdem
  <2>3. \A c \in Colunas : fb'[c] = IF c = d THEN relogio + 1 ELSE fb[c]
    BY <1>0, <2>1 DEF TypeOK
  <2>4. \A c \in Colunas : fb[c] <= fb'[c] /\ fb'[c] <= relogio'
    BY <2>1, <2>2, <2>3
  <2>. QED BY <1>0, <2>4, OrdemMudanca DEF Pintar
<1>5. CASE FimPintura \/ AvisarResize \/ LibSinalizar
  BY <1>5, OrdemQuieta DEF FimPintura, AvisarResize, LibSinalizar
<1>6. CASE EnviarConectado \/ MarcarTudo \/ SinalizarConectado
  BY <1>6, OrdemQuieta DEF EnviarConectado, MarcarTudo, SinalizarConectado
<1>7. CASE PegarCredito \/ PegarSujo \/ SairDaBomba \/ Tomar \/ Redanificar
           \/ DevolverCredito
  BY <1>7, OrdemQuieta
  DEF PegarCredito, PegarSujo, SairDaBomba, Tomar, Redanificar, DevolverCredito
<1>8. CASE Capturar
  <2>1. \A c \in Colunas : ~(c < 0)
    BY DEF Colunas
  <2>. QED BY <1>8, <2>1 DEF Capturar, QuadrosEmOrdem, DoPassado, NaoRegride
<1>9. CASE CopiarColuna
  <2>1. prox \in Colunas /\ prox' = prox + 1 /\ pc = "copiar" /\ pc' = pc
    BY <1>0, <1>9 DEF CopiarColuna, Colunas, TypeOK
  <2>2. \A c \in Colunas : copia'[c] = IF c = prox THEN fb[c] ELSE copia[c]
    BY <1>0, <1>9, <2>1 DEF CopiarColuna, TypeOK
  <2>3. \A c \in Colunas : fb[c] \in Int /\ tela.pix[c] <= fb[c] /\ copia[c] <= fb[c]
    BY <1>0, MudancasAssumption DEF TypeOK, QuadrosEmOrdem, DoPassado
  <2>4. \A c \in Colunas : copia'[c] <= fb[c]
    BY <2>2, <2>3
  <2>5. \A c \in Colunas : c < prox => tela.pix[c] <= copia[c]
    BY <2>1 DEF QuadrosEmOrdem, NaoRegride
  <2>6. \A c \in Colunas : c < prox + 1 => c < prox \/ c = prox
    BY <2>1 DEF Colunas
  <2>7. \A c \in Colunas : c < prox + 1 => tela.pix[c] <= copia'[c]
    BY <2>2, <2>3, <2>5, <2>6
  <2>. QED BY <1>9, <2>1, <2>4, <2>7 DEF CopiarColuna, QuadrosEmOrdem, DoPassado, NaoRegride
<1>10. CASE Recortar
  BY <1>10 DEF Recortar, QuadrosEmOrdem, DoPassado, NaoRegride
<1>11. CASE EnviarQuadro
  <2>1. pc = "enviar" /\ pc' = "credito" /\ quadros = <<>>
    BY <1>0, <1>11, UmQuadro DEF EnviarQuadro, BombaComCredito
  <2>2. quadros' = <<QuadroPronto>>
    BY <1>11, <2>1 DEF EnviarQuadro
  <2>3. \A i \in 1 .. Len(quadros') : quadros'[i] = QuadroPronto
    BY <2>2
  <2>4. QuadroPronto.pix = copia /\ QuadroPronto.larg = largCopia
    BY DEF QuadroPronto
  <2>5. DoPassado(copia) /\ NaoRegride(copia, largCopia)
    BY <2>1 DEF QuadrosEmOrdem
  <2>6. fb' = fb /\ tela' = tela /\ relogio' = relogio /\ copia' = copia
    BY <1>11 DEF EnviarQuadro
  <2>7. \A i \in 1 .. Len(quadros') :
           /\ \A c \in Colunas : quadros'[i].pix[c] <= fb[c]
           /\ \A c \in Colunas : c < quadros'[i].larg => tela.pix[c] <= quadros'[i].pix[c]
    <3>. HIDE DEF QuadroPronto
    <3>. QED BY <2>3, <2>4, <2>5 DEF DoPassado, NaoRegride
  <2>. QED BY <2>1, <2>6, <2>7 DEF QuadrosEmOrdem, DoPassado, NaoRegride
<1>12. CASE FalharEnvio \/ LerCredito \/ FimDosComandos \/ LerConectado \/ VencerAdiado
            \/ FecharCanal
  BY <1>12, OrdemQuieta
  DEF FalharEnvio, LerCredito, FimDosComandos, LerConectado, VencerAdiado, FecharCanal
<1>13. CASE \E v \in BOOLEAN : LerQuadro(v)
  <2>. PICK v \in BOOLEAN : LerQuadro(v)
    BY <1>13
  <2>. DEFINE q == Head(quadros)
  <2>1. ~BombaComCredito /\ quadros' = <<>> /\ q = quadros[1] /\ Len(quadros) = 1
        /\ tela' = AplicarQuadro(tela, q)
    BY <1>0, UmQuadro DEF LerQuadro
  <2>2. DoPassado(q.pix) /\ DoPassado(tela.pix)
    BY <2>1 DEF QuadrosEmOrdem
  <2>3. \A c \in Colunas : 0 <= fb[c]
    BY <1>0, MudancasAssumption DEF TypeOK
  <2>. HIDE DEF q
  <2>4. \A c \in Colunas : tela'.pix[c] <= fb[c]
    BY <2>1, <2>2, <2>3 DEF AplicarQuadro, EmBranco, DoPassado
  <2>. QED BY <2>1, <2>4 DEF LerQuadro, QuadrosEmOrdem, DoPassado, BombaComCredito
<1>14. CASE UNCHANGED vars
  BY <1>14, OrdemQuieta DEF vars
<1>. QED BY <1>2, <1>3, <1>4, <1>5, <1>6, <1>7, <1>8, <1>9, <1>10, <1>11, <1>12, <1>13,
       <1>14 DEF Next, Servidor, Lib, Ligar, Bomba, Comandos, Aba

\* A step of the tab's loop that pastes a frame is a new picture of EspelhoTela:
\* no column shows what the remote screen never had, and none goes back.
LEMMA MostrarStep ==
  ASSUME IInv, QuadrosEmOrdem, NEW v \in BOOLEAN, LerQuadro(v)
  PROVE  Promessa!Mostrar
<1>. USE DEF libVars, bombaVars, canalVars, abaVars
<1>. DEFINE q == Head(quadros)
<1>0. TypeOK /\ CreditoUnico
  BY DEF IInv
<1>1. q \in Quadro /\ q = quadros[1] /\ Len(quadros) = 1 /\ tela' = AplicarQuadro(tela, q)
  BY <1>0, UmQuadro DEF LerQuadro
<1>2. DoPassado(q.pix) /\ DoPassado(tela.pix) /\ NaoRegride(q.pix, q.larg)
  BY <1>1 DEF QuadrosEmOrdem
<1>. HIDE DEF q
<1>3. q.larg \in Larguras /\ q.pix \in [Colunas -> 0 .. MaxMudancas]
  BY <1>1 DEF Quadro
<1>4. tela'.larg = q.larg
  BY <1>1 DEF AplicarQuadro
<1>5. \A c \in 0 .. q.larg - 1 : c \in Colunas /\ c < q.larg
  BY <1>3, LargAssumption DEF Larguras, Colunas
<1>6. \A c \in Colunas : tela'.pix[c] =
         IF q.x0 <= c /\ c < q.x1 THEN q.pix[c]
         ELSE IF tela.larg = q.larg THEN tela.pix[c] ELSE 0
  BY <1>1 DEF AplicarQuadro, EmBranco
<1>7. \A c \in Colunas : /\ fb[c] \in Int /\ 0 <= fb[c] /\ fb[c] <= relogio
                         /\ tela.pix[c] \in Int /\ q.pix[c] \in Int
                         /\ q.pix[c] <= fb[c] /\ tela.pix[c] <= fb[c]
  BY <1>0, <1>2, <1>3, MudancasAssumption DEF TypeOK, QuadrosEmOrdem, DoPassado
<1>8. relogio \in Int
  BY <1>0 DEF TypeOK
<1>9. \A c \in Colunas : tela'.pix[c] <= relogio
  BY <1>6, <1>7, <1>8
<1>10. tela'.larg = tela.larg =>
         \A c \in Colunas : c < q.larg => tela'.pix[c] >= tela.pix[c]
  BY <1>2, <1>4, <1>6, <1>7 DEF NaoRegride
<1>11. tela'.larg > 0
  BY <1>3, <1>4, LargAssumption DEF Larguras
<1>12. \A c \in 0 .. tela'.larg - 1 : tela'.pix[c] <= relogio /\ Promessa!NaoMaisVelha(c)
  BY <1>4, <1>5, <1>9, <1>10 DEF Promessa!NaoMaisVelha
<1>13. UNCHANGED <<[larg |-> larg, pix |-> fb], relogio, (parar \/ canal = "fechado")>>
  BY DEF LerQuadro
<1>. QED BY <1>11, <1>12, <1>13 DEF Promessa!Mostrar

\* Every step is a step of EspelhoTela or leaves it as it is.
LEMMA PromessaStep ==
  IInv /\ QuadrosEmOrdem /\ [Next]_vars => [Promessa!Next]_(Promessa!vars)
<1>. SUFFICES ASSUME IInv, QuadrosEmOrdem, [Next]_vars
              PROVE  Promessa!Next \/ UNCHANGED Promessa!vars
  BY DEF Promessa!vars
<1>. USE DEF libVars, bombaVars, canalVars, abaVars
<1>0. relogio \in Int
  BY DEF IInv, TypeOK
<1>1. ASSUME relogio' >= relogio, UNCHANGED <<tela, parar, canal>>
      PROVE  Promessa!Next
  BY <1>1 DEF Promessa!Next, Promessa!Mudar
<1>2. ASSUME parar' \/ canal' = "fechado", UNCHANGED <<larg, fb, relogio, tela>>
      PROVE  Promessa!Next
  BY <1>2 DEF Promessa!Next, Promessa!Romper
<1>3. ASSUME UNCHANGED <<larg, fb, relogio, tela, parar, canal>>
      PROVE  UNCHANGED Promessa!vars
  BY <1>3 DEF Promessa!vars
<1>4. CASE \E w \in Larguras : NascerFb(w) \/ Redimensionar(w)
  BY <1>0, <1>1, <1>4 DEF NascerFb, Redimensionar, TrocarFb
<1>5. CASE \E c \in Colunas : Pintar(c)
  BY <1>0, <1>1, <1>5 DEF Pintar
<1>6. CASE FalharResize
  BY <1>0, <1>1, <1>6 DEF FalharResize
<1>7. CASE FalharEnvio \/ FimDosComandos \/ FecharCanal
  BY <1>2, <1>7 DEF FalharEnvio, FimDosComandos, FecharCanal
<1>8. CASE \E v \in BOOLEAN : LerQuadro(v)
  BY <1>8, MostrarStep DEF Promessa!Next
<1>9. CASE FimPintura \/ AvisarResize \/ LibSinalizar
           \/ EnviarConectado \/ MarcarTudo \/ SinalizarConectado
  BY <1>3, <1>9 DEF FimPintura, AvisarResize, LibSinalizar, EnviarConectado, MarcarTudo,
       SinalizarConectado
<1>10. CASE PegarCredito \/ PegarSujo \/ SairDaBomba \/ Tomar \/ Capturar \/ Redanificar
            \/ CopiarColuna \/ Recortar \/ EnviarQuadro \/ DevolverCredito
  BY <1>3, <1>10 DEF PegarCredito, PegarSujo, SairDaBomba, Tomar, Capturar, Redanificar,
       CopiarColuna, Recortar, EnviarQuadro, DevolverCredito
<1>11. CASE LerCredito \/ LerConectado \/ VencerAdiado
  BY <1>3, <1>11 DEF LerCredito, LerConectado, VencerAdiado
<1>12. CASE UNCHANGED vars
  BY <1>3, <1>12 DEF vars
<1>. QED BY <1>4, <1>5, <1>6, <1>7, <1>8, <1>9, <1>10, <1>11, <1>12
       DEF Next, Servidor, Lib, Ligar, Bomba, Comandos, Aba

-----------------------------------------------------------------------------
(* The theorems.                                                           *)

\* IInv holds in every reachable state.
LEMMA Indutivo == Spec => []IInv
<1>1. IInv /\ [Next]_vars => IInv'
  BY TypeStep, CreditStep, BombaStep, CelulaStep, ForaStep, SinalStep DEF IInv
<1>. QED BY InitIInv, <1>1, PTL DEF Spec

\* Every variable keeps its type; in particular every frame on the wire is
\* one DecodificarQuadro accepts, its rectangle inside its screen.
THEOREM TiposCorretos == Spec => []TypeOK
<1>1. IInv => TypeOK
  BY DEF IInv
<1>. QED BY Indutivo, <1>1, PTL

\* The credit of a session is never duplicated, nor lost while the pump runs
\* (creditos, creditar, creditarConformeVisibilidade).
THEOREM CreditoNaoSePerde == Spec => []CreditoUnico
<1>1. IInv => CreditoUnico
  BY DEF IInv
<1>. QED BY Indutivo, <1>1, PTL

\* Damage never waits without a wake-up (sinalizar, enviarQuadro).
THEOREM DanoSinalizado == Spec => []SinalPresente
<1>1. IInv => SinalPresente
  BY DEF IInv
<1>. QED BY Indutivo, <1>1, PTL

\* No column of the screen stays stale with nobody in charge of it, for any
\* width and any number of changes (danoTela, enviarQuadro, aplicarQuadro).
THEOREM NadaSePerde == Spec => []NadaPerdido
<1>1. IInv => NadaPerdido
  <2>. SUFFICES ASSUME IInv, larg > 0, canal = "aberto", ~parar, NEW c \in 0 .. larg - 1
                PROVE  \/ Atual(c) \/ APintar(c) \/ ATomar(c)
                       \/ ACopiar(c) \/ AEnviar(c) \/ AColar(c)
    BY DEF NadaPerdido
  <2>1. EmAndamentoFiel(c) /\ Acompanhada(c)
    BY DEF IInv
  <2>2. c \in Int /\ prox \in Int
    BY DEF IInv, TypeOK
  <2>3. CASE pc \in {"capturar", "redanificar"} /\ c \in Dentro(tomado)
    BY <2>3 DEF ACopiar
  <2>4. CASE pc = "copiar" /\ c \in Dentro(tomado)
    BY <2>1, <2>2, <2>4 DEF ACopiar, EmAndamentoFiel, Pendente
  <2>5. CASE pc = "enviar" /\ c \in Dentro(tomado)
    BY <2>1, <2>5 DEF AEnviar, EmAndamentoFiel, Pendente
  <2>6. CASE \E i \in 1 .. Len(quadros) : c \in Dentro(quadros[i])
    BY <2>1, <2>6 DEF AColar, EmAndamentoFiel, Pendente
  <2>. QED BY <2>1, <2>3, <2>4, <2>5, <2>6 DEF Acompanhada, Pendente
<1>. QED BY Indutivo, <1>1, PTL

\* The tab implements the safety part of EspelhoTela, for every width and any
\* number of changes: what it shows is content the remote screen really had,
\* and no column goes back to something older (rodar, capturar,
\* aplicarQuadro).
THEOREM ImplementaEspelho == Spec => SoAvanca
<1>1. Init => QuadrosEmOrdem
  BY MudancasAssumption DEF Init, QuadrosEmOrdem, DoPassado, NaoRegride
<1>2. Spec => []QuadrosEmOrdem
  BY <1>1, OrdemStep, Indutivo, PTL DEF Spec
<1>3. Init => Promessa!Init
  BY DEF Init, Promessa!Init
<1>4. Spec => Promessa!Init /\ [][Promessa!Next]_(Promessa!vars)
  BY <1>2, <1>3, PromessaStep, Indutivo, PTL DEF Spec
<1>. QED BY <1>4 DEF SoAvanca, Promessa!Seguranca

=============================================================================
