--------------------------- MODULE Partes_proofs ---------------------------
(***************************************************************************)
(* Proofs about parts of MCPartes that share no variable: Calibragem       *)
(* (what the rounding cannot do, and from it the bounds of the two         *)
(* deadlines, for every measure of the canary), Atualizador (the choice    *)
(* among the releases, and what is installed, for every list and every     *)
(* bound), Cadastro (the inventory, for every set of connections and of    *)
(* files, and every number of operations, copies and crashes), and what    *)
(* the program is trusted with: the secrets (Segredos) and the keys of the *)
(* servers (ChaveDoHost), for every set of connections, credentials, tabs, *)
(* servers and keys, and every file there may be at the start.             *)
(***************************************************************************)
EXTENDS Calibragem, Atualizador, Cadastro, Confianca, FiniteSetTheorems,
        SequenceTheorems, WellFoundedInduction, TLAPS

-----------------------------------------------------------------------------
(* The deadlines of the mass execution. *)

LEMMA Resto ==
  ASSUME NEW d \in Nat, NEW m \in Nat \ {0}
  PROVE  /\ d % m \in 0..(m - 1)
         /\ d \div m \in Nat
         /\ d = m * (d \div m) + (d % m)
OBVIOUS

LEMMA Monotona ==
  ASSUME NEW a \in Nat, NEW b \in Nat, NEW m \in Nat, a <= b
  PROVE  m * a <= m * b
OBVIOUS

LEMMA RoundPerto ==
  ASSUME NEW d \in Nat, NEW m \in Nat \ {0}
  PROVE  /\ Round(d, m) \in Nat
         /\ 2 * Round(d, m) >= 2 * d - m
         /\ 2 * Round(d, m) <= 2 * d + m
<1>1. d % m \in 0..(m - 1) /\ d % m <= d
  OBVIOUS
<1> DEFINE r == d % m
<1>2. r \in 0..(m - 1) /\ r <= d
  BY <1>1
<1>3. Round(d, m) = IF 2 * r < m THEN d - r ELSE d + m - r
  BY DEF Round
<1> HIDE DEF r
<1> QED
  BY <1>2, <1>3

LEMMA RoundNaoDesce ==
  ASSUME NEW d \in Nat, NEW m \in Nat \ {0}, NEW k \in Nat, m * k <= d
  PROVE  Round(d, m) >= m * k
<1> DEFINE r == d % m
           q == d \div m
<1>1. r \in 0..(m - 1) /\ q \in Nat /\ d = m * q + r
  BY Resto
<1>2. Round(d, m) = IF 2 * r < m THEN d - r ELSE d + m - r
  BY DEF Round
<1> HIDE DEF r, q
<1>3. k <= q
  <2> SUFFICES ASSUME k >= q + 1 PROVE FALSE
    BY <1>1
  <2>1. m * (q + 1) <= m * k
    BY <1>1, Monotona
  <2>2. m * (q + 1) = m * q + m
    BY <1>1
  <2> QED
    BY <1>1, <2>1, <2>2
<1>4. m * k <= m * q
  BY <1>1, <1>3, Monotona
<1>5. m * q \in Nat /\ m * k \in Nat
  BY <1>1
<1> QED
  BY <1>1, <1>2, <1>4, <1>5

LEMMA RoundNaoSobe ==
  ASSUME NEW d \in Nat, NEW m \in Nat \ {0}, NEW k \in Nat, d <= m * k
  PROVE  Round(d, m) <= m * k
<1> DEFINE r == d % m
           q == d \div m
<1>1. r \in 0..(m - 1) /\ q \in Nat /\ d = m * q + r
  BY Resto
<1>2. Round(d, m) = IF 2 * r < m THEN d - r ELSE d + m - r
  BY DEF Round
<1> HIDE DEF r, q
<1>5. m * q \in Nat /\ m * k \in Nat
  BY <1>1
<1>3. CASE r = 0
  BY <1>1, <1>2, <1>3, <1>5
<1>4. CASE r # 0
  <2>1. q + 1 <= k
    <3> SUFFICES ASSUME k <= q PROVE FALSE
      BY <1>1
    <3>1. m * k <= m * q
      BY <1>1, Monotona
    <3> QED
      BY <1>1, <1>4, <1>5, <3>1
  <2>2. m * (q + 1) <= m * k
    BY <1>1, <2>1, Monotona
  <2>3. m * (q + 1) = m * q + m
    BY <1>1
  <2> QED
    BY <1>1, <1>2, <1>5, <2>2, <2>3
<1> QED
  BY <1>1, <1>3, <1>4

LEMMA ExecComFolga ==
  ASSUME NEW pior \in Nat \ {0}
  PROVE  /\ CalcularTimeoutExec(pior) \in Nat
         /\ CalcularTimeoutExec(pior) >= 2 * pior
         /\ CalcularTimeoutExec(pior) >= PisoExec
<1> DEFINE t == Maior(Margem(pior), PisoExec)
<1>0. Segundo \in Nat \ {0}
  BY CalibragemAssumption
<1>1. Margem(pior) \in Nat /\ Margem(pior) >= 3 * pior
  BY <1>0 DEF Margem
<1>2. t \in Nat /\ t >= 3 * pior /\ t >= 30 * Segundo
  BY <1>0, <1>1 DEF Maior, PisoExec
<1>3. CalcularTimeoutExec(pior) = arredondar(t)
  BY DEF CalcularTimeoutExec
<1> HIDE DEF t
<1>4. CASE t < 600 * Segundo
  <2>1. arredondar(t) = Round(t, 5 * Segundo)
    BY <1>0, <1>2, <1>4 DEF arredondar, Minuto
  <2>2. 5 * Segundo \in Nat \ {0} /\ (5 * Segundo) * 6 = 30 * Segundo
    BY <1>0
  <2>3. Round(t, 5 * Segundo) >= (5 * Segundo) * 6
    BY <1>2, <2>2, RoundNaoDesce
  <2>4. /\ Round(t, 5 * Segundo) \in Nat
        /\ 2 * Round(t, 5 * Segundo) >= 2 * t - 5 * Segundo
    BY <1>2, <2>2, RoundPerto
  <2> QED
    BY <1>0, <1>2, <1>3, <2>1, <2>2, <2>3, <2>4 DEF PisoExec
<1>5. CASE t >= 600 * Segundo
  <2>1. arredondar(t) = Round(t, 60 * Segundo)
    BY <1>0, <1>2, <1>5 DEF arredondar, Minuto
  <2>2. 60 * Segundo \in Nat \ {0}
    BY <1>0
  <2>3. /\ Round(t, 60 * Segundo) \in Nat
        /\ 2 * Round(t, 60 * Segundo) >= 2 * t - 60 * Segundo
    BY <1>2, <2>2, RoundPerto
  <2> QED
    BY <1>0, <1>2, <1>3, <1>5, <2>1, <2>3 DEF PisoExec
<1> QED
  BY <1>0, <1>2, <1>4, <1>5

LEMMA ConexaoComTeto ==
  ASSUME NEW pior \in Nat
  PROVE  /\ AjustarTimeoutConexao(BaseConexao, pior) \in Nat
         /\ AjustarTimeoutConexao(BaseConexao, pior) >= BaseConexao
         /\ AjustarTimeoutConexao(BaseConexao, pior) <= TetoConexao
<1> DEFINE x == Menor(3 * pior, TetoConexao)
<1>0. Segundo \in Nat \ {0}
  BY CalibragemAssumption
<1>1. CASE pior <= 0 \/ 3 * pior <= BaseConexao
  BY <1>0, <1>1 DEF AjustarTimeoutConexao, BaseConexao, TetoConexao
<1>2. CASE ~(pior <= 0 \/ 3 * pior <= BaseConexao)
  <2>1. AjustarTimeoutConexao(BaseConexao, pior) = arredondar(x)
    BY <1>2 DEF AjustarTimeoutConexao
  <2>2. x \in Nat /\ Segundo * 8 <= x /\ x <= 30 * Segundo
    BY <1>0, <1>2 DEF Menor, BaseConexao, TetoConexao
  <2> HIDE DEF x
  <2>3. CASE x < 10 * Segundo
    <3>1. arredondar(x) = Round(x, Segundo)
      BY <1>0, <2>2, <2>3 DEF arredondar, Minuto
    <3>2. x <= Segundo * 10 /\ Segundo * 10 <= 30 * Segundo
      BY <1>0, <2>2, <2>3
    <3>3. Round(x, Segundo) >= Segundo * 8
      BY <1>0, <2>2, RoundNaoDesce
    <3>4. Round(x, Segundo) <= Segundo * 10
      BY <1>0, <2>2, <3>2, RoundNaoSobe
    <3>5. Round(x, Segundo) \in Nat
      BY <1>0, <2>2, RoundPerto
    <3> QED
      BY <1>0, <2>1, <3>1, <3>2, <3>3, <3>4, <3>5 DEF BaseConexao, TetoConexao
  <2>4. CASE x >= 10 * Segundo
    <3>1. arredondar(x) = Round(x, 5 * Segundo)
      BY <1>0, <2>2, <2>4 DEF arredondar, Minuto
    <3>2. /\ 5 * Segundo \in Nat \ {0}
          /\ (5 * Segundo) * 2 <= x
          /\ x <= (5 * Segundo) * 6
      BY <1>0, <2>2, <2>4
    <3>3. Round(x, 5 * Segundo) >= (5 * Segundo) * 2
      BY <2>2, <3>2, RoundNaoDesce
    <3>4. Round(x, 5 * Segundo) <= (5 * Segundo) * 6
      BY <2>2, <3>2, RoundNaoSobe
    <3>5. Round(x, 5 * Segundo) \in Nat
      BY <2>2, <3>2, RoundPerto
    <3> QED
      BY <1>0, <2>1, <3>1, <3>3, <3>4, <3>5 DEF BaseConexao, TetoConexao
  <2> QED
    BY <1>0, <2>2, <2>3, <2>4
<1> QED
  BY <1>1, <1>2

-----------------------------------------------------------------------------
\* Before the canary is over nothing was applied.
AntesDeCalibrar ==
  fase = "canario" => timeout = 0 /\ ~calibrado /\ conexao = BaseConexao

IInv == TypeOK /\ AntesDeCalibrar /\ FolgaSobreOPior /\ ConexaoNaoAperta

LEMMA Inicio == Init => IInv
<1>1. Segundo \in Nat \ {0} /\ Canario \in Nat
  BY CalibragemAssumption
<1> SUFFICES ASSUME Init PROVE IInv
  OBVIOUS
<1>2. TypeOK
  <2>1. BaseConexao \in Nat /\ 0 \in 0..Canario
    BY <1>1 DEF BaseConexao
  <2> QED
    BY <2>1 DEF Init, TypeOK
<1>3. AntesDeCalibrar /\ FolgaSobreOPior
  BY DEF Init, AntesDeCalibrar, FolgaSobreOPior
<1>4. ConexaoNaoAperta
  BY <1>1 DEF Init, ConexaoNaoAperta, BaseConexao, TetoConexao
<1> QED
  BY <1>2, <1>3, <1>4 DEF IInv

LEMMA PassoDosPrazos == IInv /\ [Next]_vars => IInv'
<1> SUFFICES ASSUME IInv, [Next]_vars PROVE IInv'
  OBVIOUS
<1>0. Segundo \in Nat \ {0}
  BY CalibragemAssumption
<1>1. ASSUME NEW dConn \in Nat, NEW d \in Nat, Anotar(dConn, d),
             mediu' \in BOOLEAN, respondeu' \in Nat
      PROVE  IInv'
  <2>1. TypeOK'
    BY <1>1, CalibragemAssumption DEF IInv, TypeOK, Anotar, Maior
  <2> QED
    BY <1>1, <2>1
    DEF IInv, TypeOK, Anotar, AntesDeCalibrar, FolgaSobreOPior, ConexaoNaoAperta
<1>2. CASE MedirSemConectar
  BY <1>1, <1>2, CalibragemAssumption DEF MedirSemConectar, IInv, TypeOK
<1>3. CASE MedirConectado
  <2>1. PICK dConn \in Conexoes, d \in Duracoes \cup {0}, rodou \in BOOLEAN :
          /\ Anotar(dConn, d)
          /\ mediu' = (mediu \/ rodou)
          /\ respondeu' = Maior(respondeu, dConn)
    BY <1>3 DEF MedirConectado
  <2>2. dConn \in Nat /\ d \in Nat
    BY CalibragemAssumption
  <2>3. mediu' \in BOOLEAN /\ respondeu' \in Nat
    BY <2>1, <2>2 DEF IInv, TypeOK, Maior
  <2> QED
    BY <1>1, <2>1, <2>2, <2>3
<1>4. CASE Calibrar
  <2>1. /\ piorCmd \in Nat /\ piorConn \in Nat /\ conexao = BaseConexao
    BY <1>4 DEF Calibrar, IInv, TypeOK, AntesDeCalibrar
  <2>2. conexao' \in Nat /\ conexao' >= BaseConexao /\ conexao' <= TetoConexao
    BY <1>4, <2>1, ConexaoComTeto DEF Calibrar
  <2>3. timeout' \in Nat
    <3>1. CASE piorCmd = 0
      BY <1>0, <1>4, <3>1 DEF Calibrar, CalcularTimeoutExec, SemBaseline, Minuto
    <3>2. CASE piorCmd # 0
      BY <1>4, <2>1, <3>2, ExecComFolga DEF Calibrar
    <3> QED
      BY <3>1, <3>2
  <2>4. TypeOK'
    BY <1>4, <2>2, <2>3 DEF Calibrar, IInv, TypeOK
  <2>5. FolgaSobreOPior'
    <3>1. piorCmd' = piorCmd /\ calibrado' = (piorCmd > 0)
          /\ timeout' = CalcularTimeoutExec(piorCmd)
      BY <1>4 DEF Calibrar
    <3>2. CASE piorCmd = 0
      <4>1. TempoExec' = SemBaseline
        <5>1. ~calibrado'
          <6>1. ~(piorCmd > 0)
            BY <3>2
          <6> QED
            BY <3>1, <6>1, Zenon
        <5>2. (~calibrado => TempoExec = SemBaseline)'
          BY DEF TempoExec, SemBaseline, Minuto
        <5> QED
          BY <5>1, <5>2 DEF SemBaseline, Minuto
      <4> QED
        BY <1>0, <3>1, <3>2, <4>1 DEF FolgaSobreOPior, SemBaseline, Minuto, PisoExec
    <3>3. CASE piorCmd # 0
      <4>1. timeout' >= 2 * piorCmd /\ timeout' >= PisoExec
        BY <2>1, <3>1, <3>3, ExecComFolga
      <4>2. timeout' > 0 /\ calibrado'
        <5>1. timeout' > 0
          BY <1>0, <2>3, <4>1 DEF PisoExec
        <5>2. piorCmd > 0
          BY <2>1, <3>3
        <5>3. calibrado'
          BY <3>1, <5>2
        <5> QED
          BY <5>1, <5>3
      <4>3. fase' = "fase2"
        BY <1>4 DEF Calibrar
      <4>4. TempoExec' = timeout'
        BY <2>3, <4>2, <4>3 DEF TempoExec
      <4>5. (TempoExec >= 2 * piorCmd /\ TempoExec >= PisoExec)'
        BY <3>1, <4>1, <4>4 DEF PisoExec
      <4> QED
        BY <4>5 DEF FolgaSobreOPior
    <3> QED
      BY <3>2, <3>3
  <2>6. AntesDeCalibrar' /\ ConexaoNaoAperta'
    BY <1>4, <2>2 DEF Calibrar, AntesDeCalibrar, ConexaoNaoAperta, BaseConexao, TetoConexao
  <2> QED
    BY <2>4, <2>5, <2>6 DEF IInv
<1>5. CASE UNCHANGED vars
  BY <1>5
  DEF vars, IInv, TypeOK, AntesDeCalibrar, FolgaSobreOPior, ConexaoNaoAperta, TempoExec
<1> QED
  BY <1>2, <1>3, <1>4, <1>5 DEF Next

LEMMA Indutivo == Spec => []IInv
  BY Inicio, PassoDosPrazos, PTL DEF Spec

\* Every variable keeps its range.
THEOREM TiposDaCalibragem == Spec => []TypeOK
<1>1. IInv => TypeOK
  BY DEF IInv
<1> QED
  BY Indutivo, <1>1, PTL

\* Whatever the canary measured, a machine of phase 2 has twice the worst
\* time and at least the floor (CalcularTimeoutExec).
THEOREM ExecSempreComFolga == Spec => []FolgaSobreOPior
<1>1. IInv => FolgaSobreOPior
  BY DEF IInv
<1> QED
  BY Indutivo, <1>1, PTL

\* Whatever the canary measured, the connection deadline stays between what
\* was configured and the ceiling (AjustarTimeoutConexao).
THEOREM ConexaoEntreBaseETeto == Spec => []ConexaoNaoAperta
<1>1. IInv => ConexaoNaoAperta
  BY DEF IInv
<1> QED
  BY Indutivo, <1>1, PTL

\* Both at once: the deadlines the mass execution works with are neither
\* shorter than what was measured nor longer than the ceiling.
THEOREM PrazosDasDuasFases == Spec => []PrazosCertos
<1>1. IInv => PrazosCertos
  BY DEF IInv, PrazosCertos
<1> QED
  BY Indutivo, <1>1, PTL

-----------------------------------------------------------------------------
(* The updater. *)

\* A set of numbers that is not empty has a least one.
LEMMA PrimeiroDeles ==
  ASSUME NEW S \in SUBSET Nat, S # {}
  PROVE  Min(S) \in S /\ \A n \in S : Min(S) <= n
<1> DEFINE R == OpToRel(<, Nat)
<1>1. IsWellFoundedOn(R, Nat)
  BY NatLessThanWellFounded
<1>2. \A x, y \in Nat : x < y => <<x, y>> \in R
  BY DEF OpToRel
<1> HIDE DEF R
<1>3. PICK x \in S : \A y \in S : ~(<<y, x>> \in R)
  BY <1>1, WFMin, Zenon
<1>4. \A y \in S : ~(y < x)
  BY <1>2, <1>3
<1>5. \E z \in S : \A y \in S : z <= y
  BY <1>4
<1> QED
  BY <1>5, Zenon DEF Min

(***************************************************************************)
(* The order of the versions, from their two parts.                        *)
(***************************************************************************)
LEMMA ParteTipo ==
  ASSUME NEW v \in Partes, NEW i \in 1..2
  PROVE  Parte(v, i) \in Nat
<1>1. PICK n \in 1..2 : v \in [1..n -> 0..1]
  BY DEF Partes
<1> QED
  BY <1>1 DEF Parte

LEMMA MaisNovaPartes ==
  ASSUME NEW a \in Partes, NEW b \in Partes
  PROVE  MaisNova(a, b) <=> \/ Parte(a, 1) > Parte(b, 1)
                            \/ Parte(a, 1) = Parte(b, 1) /\ Parte(a, 2) > Parte(b, 2)
<1>1. 1..2 = {1, 2} /\ 1..(1 - 1) = {} /\ 1..(2 - 1) = {1}
  OBVIOUS
<1> QED
  BY <1>1 DEF MaisNova

\* No version is newer than itself; of two that are not equal in order one is newer;
\* and what is not newer than a second is not newer than what the second is not.
LEMMA MaisNovaOrdena ==
  ASSUME NEW a \in Partes, NEW b \in Partes, NEW c \in Partes
  PROVE  /\ ~MaisNova(a, a)
         /\ MaisNova(a, b) => ~MaisNova(b, a)
         /\ MaisNova(a, b) /\ MaisNova(b, c) => MaisNova(a, c)
         /\ ~MaisNova(a, b) /\ ~MaisNova(b, c) => ~MaisNova(a, c)
<1>1. /\ Parte(a, 1) \in Nat /\ Parte(a, 2) \in Nat /\ Parte(b, 1) \in Nat
      /\ Parte(b, 2) \in Nat /\ Parte(c, 1) \in Nat /\ Parte(c, 2) \in Nat
  BY ParteTipo
<1> QED
  BY <1>1, MaisNovaPartes

(***************************************************************************)
(* sort.SliceStable: Ordem is the list, in another order, newest first.    *)
(***************************************************************************)
Vem(lista, j, i) ==
  \/ MaisNova(lista[j].tag, lista[i].tag)
  \/ j < i /\ ~MaisNova(lista[i].tag, lista[j].tag)
DeVersoes(lista, n) ==
  n \in Nat /\ DOMAIN lista = 1..n /\ \A i \in 1..n : lista[i].tag \in Partes

LEMMA VemOrdena ==
  ASSUME NEW lista, NEW n, DeVersoes(lista, n),
         NEW i \in 1..n, NEW j \in 1..n, NEW k \in 1..n
  PROVE  /\ ~Vem(lista, i, i)
         /\ i # j => Vem(lista, i, j) \/ Vem(lista, j, i)
         /\ Vem(lista, i, j) => ~Vem(lista, j, i)
         /\ Vem(lista, i, j) /\ Vem(lista, j, k) => Vem(lista, i, k)
<1>0. n \in Nat /\ \A m \in 1..n : lista[m].tag \in Partes
  BY DEF DeVersoes
<1> DEFINE a == lista[i].tag
           b == lista[j].tag
           c == lista[k].tag
<1>1. a \in Partes /\ b \in Partes /\ c \in Partes
  BY <1>0
<1>2. /\ ~MaisNova(a, a) /\ ~MaisNova(b, b) /\ ~MaisNova(c, c)
      /\ MaisNova(a, b) => ~MaisNova(b, a)
  BY <1>1, MaisNovaOrdena
<1>3. /\ MaisNova(a, b) /\ MaisNova(b, c) => MaisNova(a, c)
      /\ ~MaisNova(c, b) /\ ~MaisNova(b, a) => ~MaisNova(c, a)
      /\ ~MaisNova(c, b) /\ ~MaisNova(b, a) => ~MaisNova(c, a)
      /\ MaisNova(a, b) /\ ~MaisNova(c, b) => MaisNova(a, c)
      /\ ~MaisNova(b, a) /\ MaisNova(b, c) => MaisNova(a, c)
  BY <1>1, MaisNovaOrdena
<1>4. /\ Vem(lista, i, j) <=> MaisNova(a, b) \/ (i < j /\ ~MaisNova(b, a))
      /\ Vem(lista, j, i) <=> MaisNova(b, a) \/ (j < i /\ ~MaisNova(a, b))
      /\ Vem(lista, j, k) <=> MaisNova(b, c) \/ (j < k /\ ~MaisNova(c, b))
      /\ Vem(lista, i, k) <=> MaisNova(a, c) \/ (i < k /\ ~MaisNova(c, a))
      /\ Vem(lista, i, i) <=> MaisNova(a, a) \/ (i < i /\ ~MaisNova(a, a))
  BY DEF Vem
<1> HIDE DEF a, b, c
<1>5. i \in Int /\ j \in Int /\ k \in Int
  OBVIOUS
<1> QED
  BY <1>2, <1>3, <1>4, <1>5

\* The position of a release counts those that come before it.
LEMMA PosicaoConta ==
  ASSUME NEW lista, NEW n, DeVersoes(lista, n), NEW i \in 1..n
  PROVE  /\ Posicao(lista, i) = 1 + Cardinality({j \in 1..n : Vem(lista, j, i)})
         /\ Posicao(lista, i) \in 1..n
<1> DEFINE S == {j \in 1..n : Vem(lista, j, i)}
<1>0. n \in Nat /\ DOMAIN lista = 1..n
  BY DEF DeVersoes
<1>1. Posicao(lista, i) = 1 + Cardinality(S)
  BY <1>0 DEF Posicao, Vem
<1>2. IsFiniteSet(1..n) /\ Cardinality(1..n) = n
  BY <1>0, FS_Interval
<1>3. i \notin S
  BY VemOrdena
<1>4. S \in SUBSET (1..n)
  OBVIOUS
<1>5. /\ IsFiniteSet(S) /\ Cardinality(S) <= n
      /\ Cardinality(S) = n => S = 1..n
  <2> HIDE DEF S
  <2> QED
    BY <1>2, <1>4, FS_Subset
<1>6. Cardinality(S) \in Nat
  BY <1>5, FS_CardinalityType
<1>7. Cardinality(S) # n
  BY <1>3, <1>5
<1> HIDE DEF S
<1>8. Posicao(lista, i) \in 1..n
  BY <1>0, <1>1, <1>5, <1>6, <1>7
<1> QED
  BY <1>1, <1>8 DEF S

LEMMA PosicaoCresce ==
  ASSUME NEW lista, NEW n, DeVersoes(lista, n),
         NEW i \in 1..n, NEW k \in 1..n, Vem(lista, i, k)
  PROVE  Posicao(lista, i) < Posicao(lista, k)
<1> DEFINE S(x) == {j \in 1..n : Vem(lista, j, x)}
<1>0. n \in Nat
  BY DEF DeVersoes
<1>1. S(i) \subseteq S(k)
  BY VemOrdena
<1>2. i \in S(k) /\ i \notin S(i)
  BY VemOrdena
<1>3. Posicao(lista, i) = 1 + Cardinality(S(i)) /\ Posicao(lista, k) = 1 + Cardinality(S(k))
  BY PosicaoConta
<1>4. S(k) \in SUBSET (1..n)
  OBVIOUS
<1> HIDE DEF S
<1>5. IsFiniteSet(1..n)
  BY <1>0, FS_Interval
<1>6. IsFiniteSet(S(k))
  BY <1>4, <1>5, FS_Subset
<1>7. /\ IsFiniteSet(S(i)) /\ Cardinality(S(i)) <= Cardinality(S(k))
      /\ Cardinality(S(i)) = Cardinality(S(k)) => S(i) = S(k)
  BY <1>1, <1>6, FS_Subset
<1>8. Cardinality(S(i)) \in Nat /\ Cardinality(S(k)) \in Nat
  BY <1>6, <1>7, FS_CardinalityType
<1>9. Cardinality(S(i)) # Cardinality(S(k))
  BY <1>2, <1>7
<1> QED
  BY <1>3, <1>7, <1>8, <1>9

\* Every release has one position, and every position one release.
LEMMA PosicaoBijeta ==
  ASSUME NEW lista, NEW n, DeVersoes(lista, n)
  PROVE  \A k \in 1..n : \E i \in 1..n : Posicao(lista, i) = k
<1> DEFINE f == [i \in 1..n |-> Posicao(lista, i)]
<1>0. n \in Nat
  BY DEF DeVersoes
<1>1. f \in [1..n -> 1..n]
  BY PosicaoConta
<1>2. \A i, j \in 1..n : i # j => Posicao(lista, i) # Posicao(lista, j)
  <2> SUFFICES ASSUME NEW i \in 1..n, NEW j \in 1..n, i # j
               PROVE  Posicao(lista, i) # Posicao(lista, j)
    OBVIOUS
  <2>1. Posicao(lista, i) \in 1..n /\ Posicao(lista, j) \in 1..n
    BY PosicaoConta
  <2>2. Vem(lista, i, j) \/ Vem(lista, j, i)
    BY VemOrdena
  <2>3. Vem(lista, i, j) => Posicao(lista, i) < Posicao(lista, j)
    BY PosicaoCresce
  <2>4. Vem(lista, j, i) => Posicao(lista, j) < Posicao(lista, i)
    BY PosicaoCresce
  <2> QED
    BY <1>0, <2>1, <2>2, <2>3, <2>4
<1>3. f \in Injection(1..n, 1..n)
  BY <1>1, <1>2 DEF Injection, IsInjective
<1>4. IsFiniteSet(1..n)
  BY <1>0, FS_Interval
<1>5. f \in Surjection(1..n, 1..n)
  <2> DEFINE S == 1..n
             d == Cardinality(S)
  <2> HIDE DEF f, S
  <2>1. f \in Injection(S, S) /\ IsFiniteSet(S)
    BY <1>3, <1>4 DEF S
  <2>2. f \in Surjection(S, S)
    BY <2>1, FS_Injection
  <2> QED
    BY <2>2 DEF S
<1> QED
  BY <1>5 DEF Surjection

\* The ordered list has the releases of the list, all of them, and no one before a
\* newer one.
LEMMA OrdemCerta ==
  ASSUME NEW lista, NEW n, DeVersoes(lista, n)
  PROVE  /\ DOMAIN Ordem(lista) = 1..n
         /\ \A k \in 1..n : \E i \in 1..n : Ordem(lista)[k] = lista[i]
         /\ \A i \in 1..n : \E k \in 1..n : Ordem(lista)[k] = lista[i]
         /\ \A k, m \in 1..n : k < m => ~MaisNova(Ordem(lista)[m].tag, Ordem(lista)[k].tag)
<1> DEFINE De(k) == CHOOSE i \in 1..n : Posicao(lista, i) = k
<1>0. n \in Nat /\ DOMAIN lista = 1..n
  BY DEF DeVersoes
<1>1. DOMAIN Ordem(lista) = 1..n /\ \A k \in 1..n : Ordem(lista)[k] = lista[De(k)]
  BY <1>0 DEF Ordem
<1>2. \A k \in 1..n : De(k) \in 1..n /\ Posicao(lista, De(k)) = k
  BY PosicaoBijeta
<1> HIDE DEF De
<1>3. \A i, k \in 1..n : Vem(lista, i, k) => Posicao(lista, i) < Posicao(lista, k)
  BY PosicaoCresce
<1>4. ASSUME NEW i \in 1..n
      PROVE  De(Posicao(lista, i)) = i /\ Posicao(lista, i) \in 1..n
  <2>1. Posicao(lista, i) \in 1..n
    BY PosicaoConta
  <2> DEFINE p == Posicao(lista, i)
             o == De(p)
  <2>2. o \in 1..n /\ Posicao(lista, o) = p
    BY <1>2, <2>1
  <2>3. o # i => Vem(lista, o, i) \/ Vem(lista, i, o)
    BY <2>2, VemOrdena
  <2>4. /\ Vem(lista, o, i) => Posicao(lista, o) < p
        /\ Vem(lista, i, o) => p < Posicao(lista, o)
    BY <1>3, <2>2
  <2> QED
    BY <1>0, <2>1, <2>2, <2>3, <2>4
<1>5. ASSUME NEW k \in 1..n, NEW m \in 1..n, k < m
      PROVE  ~MaisNova(Ordem(lista)[m].tag, Ordem(lista)[k].tag)
  <2>1. De(k) \in 1..n /\ De(m) \in 1..n
    BY <1>2
  <2>2. ~(Posicao(lista, De(m)) < Posicao(lista, De(k)))
    BY <1>0, <1>2, <1>5
  <2>3. ~Vem(lista, De(m), De(k))
    BY <1>3, <2>1, <2>2
  <2> QED
    BY <1>1, <2>3 DEF Vem
<1> QED
  BY <1>1, <1>2, <1>4, <1>5

-----------------------------------------------------------------------------
(***************************************************************************)
(* escolher: what is offered.                                              *)
(***************************************************************************)
\* The sweep has no more than positions of the list; one in it that is not a
\* preview is newer than what is installed.
LEMMA VarridasDela ==
  ASSUME NEW ordem, NEW n \in Nat, DOMAIN ordem = 1..n, NEW atual
  PROVE  /\ Varridas(ordem, atual) \subseteq 1..n
         /\ Servem(ordem, atual) \subseteq Varridas(ordem, atual)
         /\ Servem(ordem, atual) \in SUBSET Nat
         /\ \A k \in Varridas(ordem, atual) : ~ordem[k].fora /\ MaisNova(ordem[k].tag, atual)
         /\ \A k \in Varridas(ordem, atual) : \A m \in 1..k :
              ~ordem[m].fora => m \in Varridas(ordem, atual)
<1>1. /\ Varridas(ordem, atual) \subseteq 1..n
      /\ \A k \in Varridas(ordem, atual) :
           /\ ~ordem[k].fora /\ k \in Nat /\ k \in 1..k
           /\ \A m \in 1..k : ordem[m].fora \/ MaisNova(ordem[m].tag, atual)
  BY DEF Varridas
<1>2. ASSUME NEW k \in Varridas(ordem, atual), NEW m \in 1..k, ~ordem[m].fora
      PROVE  m \in Varridas(ordem, atual)
  <2>1. k \in 1..n /\ m \in 1..n /\ 1..m \subseteq 1..k
    BY <1>1
  <2> QED
    BY <1>1, <1>2, <2>1 DEF Varridas
<1> QED
  BY <1>1, <1>2 DEF Servem

\* The sweep reaches every release of the list that is newer than what is installed and
\* no preview.
LEMMA VarridaChega ==
  ASSUME NEW lista, NEW n, DeVersoes(lista, n), NEW atual \in Partes,
         NEW i \in 1..n, ~lista[i].fora, MaisNova(lista[i].tag, atual)
  PROVE  \E p \in 1..n : Ordem(lista)[p] = lista[i] /\ p \in Varridas(Ordem(lista), atual)
<1> DEFINE ordem == Ordem(lista)
<1>0. n \in Nat /\ \A m \in 1..n : lista[m].tag \in Partes
  BY DEF DeVersoes
<1>1. /\ DOMAIN ordem = 1..n
      /\ \A k \in 1..n : ordem[k].tag \in Partes
      /\ \A k, m \in 1..n : k < m => ~MaisNova(ordem[m].tag, ordem[k].tag)
  <2>1. \A k \in 1..n : \E j \in 1..n : ordem[k] = lista[j]
    BY OrdemCerta
  <2>2. DOMAIN ordem = 1..n
    BY OrdemCerta
  <2>3. ASSUME NEW k \in 1..n, NEW m \in 1..n, k < m
        PROVE  ~MaisNova(ordem[m].tag, ordem[k].tag)
    BY <2>3, OrdemCerta
  <2> HIDE DEF ordem
  <2>4. \A k \in 1..n : ordem[k].tag \in Partes
    BY <1>0, <2>1
  <2> QED
    BY <2>2, <2>3, <2>4
<1>2. PICK p \in 1..n : ordem[p] = lista[i]
  BY OrdemCerta
<1>4. \A m \in 1..p : MaisNova(ordem[m].tag, atual)
  <2> SUFFICES ASSUME NEW m \in 1..p PROVE MaisNova(ordem[m].tag, atual)
    OBVIOUS
  <2>1. m \in 1..n /\ (m = p \/ m < p)
    BY <1>0
  <2>2. ordem[m].tag \in Partes /\ ordem[p].tag \in Partes /\ MaisNova(ordem[p].tag, atual)
    BY <1>1, <1>2, <2>1
  <2>3. m < p => ~MaisNova(ordem[p].tag, ordem[m].tag)
    BY <1>1, <2>1
  <2>4. ~MaisNova(ordem[p].tag, ordem[m].tag) /\ ~MaisNova(ordem[m].tag, atual)
          => ~MaisNova(ordem[p].tag, atual)
    BY <2>2, MaisNovaOrdena
  <2> QED
    BY <2>1, <2>2, <2>3, <2>4
<1>5. p \in Varridas(ordem, atual)
  BY <1>0, <1>1, <1>2, <1>4 DEF Varridas
<1> QED
  BY <1>2, <1>5

\* The first of those that serve is of the newest of them.
LEMMA PrimeiraEhNova ==
  ASSUME NEW lista, NEW n, DeVersoes(lista, n), NEW atual \in Partes,
         NEW i \in 1..n, ~lista[i].fora, lista[i].monta = "tem", MaisNova(lista[i].tag, atual)
  PROVE  LET ordem == Ordem(lista) IN
         /\ Servem(ordem, atual) # {}
         /\ ~MaisNova(lista[i].tag, ordem[Min(Servem(ordem, atual))].tag)
<1> DEFINE ordem == Ordem(lista)
           varr == Varridas(ordem, atual)
           serv == Servem(ordem, atual)
<1>0. n \in Nat /\ \A m \in 1..n : lista[m].tag \in Partes
  BY DEF DeVersoes
<1>1. /\ DOMAIN ordem = 1..n
      /\ \A k \in 1..n : ordem[k].tag \in Partes
      /\ \A k, m \in 1..n : k < m => ~MaisNova(ordem[m].tag, ordem[k].tag)
  <2>1. \A k \in 1..n : \E j \in 1..n : ordem[k] = lista[j]
    BY OrdemCerta
  <2>2. DOMAIN ordem = 1..n
    BY OrdemCerta
  <2>3. ASSUME NEW k \in 1..n, NEW m \in 1..n, k < m
        PROVE  ~MaisNova(ordem[m].tag, ordem[k].tag)
    BY <2>3, OrdemCerta
  <2> HIDE DEF ordem
  <2>4. \A k \in 1..n : ordem[k].tag \in Partes
    BY <1>0, <2>1
  <2> QED
    BY <2>2, <2>3, <2>4
<1>2. PICK p \in 1..n : ordem[p] = lista[i] /\ p \in varr
  BY VarridaChega
<1>3. varr \subseteq 1..n /\ serv \subseteq varr /\ serv \in SUBSET Nat
  BY <1>0, <1>1, VarridasDela
<1>6. p \in serv
  BY <1>2 DEF Servem
<1> HIDE DEF varr, serv, ordem
<1>7. Min(serv) \in serv /\ Min(serv) <= p
  BY <1>3, <1>6, PrimeiroDeles
<1>8. Min(serv) \in 1..n /\ ordem[p].tag \in Partes
  BY <1>1, <1>3, <1>7
<1>9. ~MaisNova(ordem[p].tag, ordem[Min(serv)].tag)
  <2>1. CASE Min(serv) = p
    BY <1>8, <2>1, MaisNovaOrdena
  <2>2. CASE Min(serv) < p
    BY <1>1, <1>8, <2>2
  <2> QED
    BY <1>0, <1>7, <1>8, <2>1, <2>2
<1> QED
  BY <1>2, <1>6, <1>9 DEF ordem, serv

\* The choice, of any list and for any version installed.
Boas(lista, atual) ==
  {r \in {lista[i] : i \in DOMAIN lista} :
     ~r.fora /\ MaisNova(r.tag, atual) /\ r.monta = "tem"}
AchadosAt == [tag : Partes \union {<<>>}, tipo : {"nada", "erro", "release"}]
LEMMA SemTag ==
  ASSUME NEW tipo \in {"nada", "erro", "release"}
  PROVE  [tag |-> <<>>, tipo |-> tipo] \in AchadosAt
<1>1. \A t \in Partes \union {<<>>} : [tag |-> t, tipo |-> tipo] \in AchadosAt
  BY DEF AchadosAt
<1>2. <<>> \in Partes \union {<<>>}
  OBVIOUS
<1> QED
  BY <1>1, <1>2, Zenon

LEMMA EscolherAcerta ==
  ASSUME NEW lista, NEW n, DeVersoes(lista, n), NEW atual \in Partes
  PROVE  LET rel == EscolherAt(lista, atual)  boas == Boas(lista, atual) IN
         /\ rel \in AchadosAt
         /\ rel.tipo = "release" =>
              /\ rel.tag \in Partes
              /\ \E r \in boas : r.tag = rel.tag
              /\ \A r \in boas : ~MaisNova(r.tag, rel.tag)
         /\ rel.tipo = "erro" =>
              /\ boas = {}
              /\ \E r \in {lista[i] : i \in DOMAIN lista} :
                   ~r.fora /\ MaisNova(r.tag, atual) /\ r.monta = "erro"
         /\ rel.tipo = "nada" =>
              /\ boas = {}
              /\ \A r \in {lista[i] : i \in DOMAIN lista} :
                   ~r.fora /\ MaisNova(r.tag, atual) => r.monta # "erro"
<1> DEFINE ordem == Ordem(lista)
           varr == Varridas(ordem, atual)
           serv == Servem(ordem, atual)
           rel == EscolherAt(lista, atual)
<1>0. n \in Nat /\ DOMAIN lista = 1..n /\ \A m \in 1..n : lista[m].tag \in Partes
  BY DEF DeVersoes
<1>1. /\ DOMAIN ordem = 1..n
      /\ \A k \in 1..n : \E i \in 1..n : ordem[k] = lista[i]
  <2>1. DOMAIN ordem = 1..n
    BY OrdemCerta
  <2>2. \A k \in 1..n : \E i \in 1..n : ordem[k] = lista[i]
    BY OrdemCerta
  <2> QED
    BY <2>1, <2>2, Zenon
<1>2. /\ varr \subseteq 1..n /\ serv \subseteq varr /\ serv \in SUBSET Nat
      /\ \A k \in varr : ~ordem[k].fora /\ MaisNova(ordem[k].tag, atual)
      /\ \A k \in serv : ordem[k].monta = "tem"
  BY <1>0, <1>1, VarridasDela DEF Servem
<1>3. ASSUME NEW r \in Boas(lista, atual)
      PROVE  serv # {} /\ ~MaisNova(r.tag, ordem[Min(serv)].tag)
  <2>1. PICK i \in 1..n : r = lista[i]
    BY <1>0 DEF Boas
  <2>2. ~lista[i].fora /\ lista[i].monta = "tem" /\ MaisNova(lista[i].tag, atual)
    BY <2>1 DEF Boas
  <2> QED
    BY <2>1, <2>2, PrimeiraEhNova
<1>4. rel = IF serv # {}
            THEN [tag |-> ordem[Min(serv)].tag, tipo |-> "release"]
            ELSE IF \E k \in varr : ordem[k].monta = "erro"
            THEN [tag |-> <<>>, tipo |-> "erro"]
            ELSE [tag |-> <<>>, tipo |-> "nada"]
  BY DEF EscolherAt, NenhumaAt, ErroAt
<1>5. serv # {} => Min(serv) \in serv
  BY <1>2, PrimeiroDeles
<1>9. ASSUME NEW i \in 1..n, ~lista[i].fora, MaisNova(lista[i].tag, atual)
      PROVE  \E k \in varr : ordem[k] = lista[i]
  BY <1>9, VarridaChega
<1> HIDE DEF varr, serv, ordem, rel
<1>6. CASE serv # {}
  <2> DEFINE k == Min(serv)
  <2>1. k \in 1..n /\ ~ordem[k].fora /\ MaisNova(ordem[k].tag, atual) /\ ordem[k].monta = "tem"
    BY <1>2, <1>5, <1>6
  <2>2. PICK i \in 1..n : ordem[k] = lista[i]
    BY <1>1, <2>1
  <2>3. rel.tipo = "release" /\ rel.tag = ordem[k].tag
    BY <1>4, <1>6
  <2>4. lista[i] \in Boas(lista, atual)
    BY <1>0, <2>1, <2>2 DEF Boas
  <2>5. rel \in AchadosAt
    BY <1>0, <1>4, <1>6, <2>2 DEF AchadosAt
  <2> QED
    BY <1>0, <1>3, <2>2, <2>3, <2>4, <2>5 DEF rel
<1>7. CASE serv = {} /\ \E k \in varr : ordem[k].monta = "erro"
  <2>1. PICK k \in varr : ordem[k].monta = "erro"
    BY <1>7
  <2>2. PICK i \in 1..n : ordem[k] = lista[i]
    BY <1>1, <1>2
  <2>3. rel.tipo = "erro"
    BY <1>4, <1>7
  <2>4. Boas(lista, atual) = {}
    BY <1>3, <1>7
  <2>5. rel \in AchadosAt
    BY <1>4, <1>7, SemTag
  <2> QED
    BY <1>0, <1>2, <2>1, <2>2, <2>3, <2>4, <2>5 DEF rel
<1>8. CASE serv = {} /\ ~\E k \in varr : ordem[k].monta = "erro"
  <2>1. rel.tipo = "nada"
    BY <1>4, <1>8
  <2>2. rel \in AchadosAt
    BY <1>4, <1>8, SemTag
  <2>3. Boas(lista, atual) = {}
    BY <1>3, <1>8
  <2>4. \A i \in 1..n : ~lista[i].fora /\ MaisNova(lista[i].tag, atual) => lista[i].monta # "erro"
    BY <1>8, <1>9
  <2>5. \A r \in {lista[i] : i \in DOMAIN lista} :
          ~r.fora /\ MaisNova(r.tag, atual) => r.monta # "erro"
    BY <1>0, <2>4
  <2> QED
    BY <2>1, <2>2, <2>3, <2>5 DEF rel
<1> QED
  BY <1>6, <1>7, <1>8

-----------------------------------------------------------------------------
(***************************************************************************)
(* The inductive invariant.                                                *)
(***************************************************************************)
ListasAt == UNION {Listas(so) : so \in Sistemas}
FasesAt == {"fora", "baixa", "confere", "instala", "fecha"}
DiscosAt == UNION {[v -> Datas] : v \in SUBSET (1..3)}
ObrasAt == [fase : FasesAt, inteiro : BOOLEAN, rodou : BOOLEAN, havia : DiscosAt]
FormaAt ==
  /\ mundoAt \in [so : Sistemas, atual : Partes, lista : ListasAt]
  /\ checAt \in [fase : {"checa", "fim"}, rede : BOOLEAN, rel : AchadosAt]
  /\ dlgAt \in [aberto : BOOLEAN, baixando : BOOLEAN, instalando : BOOLEAN, erro : BOOLEAN]
  /\ obraAt \in ObrasAt
  /\ discoAt \in DiscosAt

\* What was found is what there is to offer over the version that was installed when
\* it was looked for, or the error of a list that did not come; whoever downloads was
\* offered a release.
AchouAt ==
  /\ checAt.fase = "fim" => Suportado(mundoAt.so)
  /\ checAt.fase = "checa" => mundoAt.atual = <<0, 1>>
  /\ checAt.fase = "fim" =>
       checAt.rel = IF checAt.rede THEN EscolherAt(mundoAt.lista, <<0, 1>>) ELSE ErroAt
  /\ checAt.rel.tipo = "release" => checAt.rel.tag \in Partes
  /\ dlgAt.aberto \/ obraAt.fase # "fora" =>
       checAt.fase = "fim" /\ checAt.rel.tipo = "release"

\* The sum and the older installers are of Windows, where what is checked is on disk.
ConfereAt ==
  /\ obraAt.rodou \/ obraAt.fase = "confere" => mundoAt.so = "windows"
  /\ obraAt.fase = "confere" => Novo \in DOMAIN discoAt
  /\ SoConferido
  /\ TelaCerta

IndAt == FormaAt /\ AchouAt /\ ConfereAt

LEMMA ListaDeVersoes ==
  ASSUME NEW lista \in ListasAt
  PROVE  \E n \in Nat : DeVersoes(lista, n)
<1>1. PICK so \in Sistemas : lista \in Listas(so)
  BY DEF ListasAt
<1>2. PICK n \in 0..MaxLista : lista \in [1..n -> Releases(so)]
  BY <1>1 DEF Listas
<1>3. n \in Nat
  BY AtualizadorAssumption
<1> QED
  BY <1>2, <1>3 DEF DeVersoes, Releases

\* What montar says of a release is one of three.
LEMMA MontaDe ==
  ASSUME NEW lista \in ListasAt
  PROVE  \A r \in {lista[i] : i \in DOMAIN lista} : r.monta \in {"tem", "sem", "erro"}
<1>1. PICK so \in Sistemas : lista \in Listas(so)
  BY DEF ListasAt
<1>2. PICK n \in 0..MaxLista : lista \in [1..n -> Releases(so)]
  BY <1>1 DEF Listas
<1>3. \A r \in Releases(so) : r.monta \in {"tem", "sem", "erro"}
  BY DEF Releases, Montagens
<1> QED
  BY <1>2, <1>3

\* The disk: some of the three installers, each with its date.
LEMMA DiscoForma ==
  /\ \A v \in SUBSET (1..3) : \A d \in [v -> Datas] : d \in DiscosAt
  /\ \A d \in DiscosAt : /\ DOMAIN d \in SUBSET (1..3) /\ d \in [DOMAIN d -> Datas]
                        /\ \A p \in DOMAIN d : p \in 1..3 /\ d[p] \in Datas
<1>1. \A v \in SUBSET (1..3) : \A d \in [v -> Datas] : d \in DiscosAt
  BY DEF DiscosAt
<1>2. ASSUME NEW d \in DiscosAt
      PROVE  /\ DOMAIN d \in SUBSET (1..3) /\ d \in [DOMAIN d -> Datas]
             /\ \A p \in DOMAIN d : p \in 1..3 /\ d[p] \in Datas
  <2>1. PICK v \in SUBSET (1..3) : d \in [v -> Datas]
    BY DEF DiscosAt
  <2> QED
    BY <2>1
<1> QED
  BY <1>1, <1>2

LEMMA EstaVersao == <<0, 1>> \in Partes
<1>1. <<0, 1>> \in [1..2 -> 0..1]
  OBVIOUS
<1> QED
  BY <1>1 DEF Partes

LEMMA IndAtInicio ==
  ASSUME InitAt
  PROVE  IndAt
<1>1. PICK so \in Sistemas : \E lista \in Listas(so) :
        mundoAt = [so |-> so, atual |-> <<0, 1>>, lista |-> lista]
  BY DEF InitAt
<1>2. PICK lista \in Listas(so) : mundoAt = [so |-> so, atual |-> <<0, 1>>, lista |-> lista]
  BY <1>1
<1>3. mundoAt \in [so : Sistemas, atual : Partes, lista : ListasAt] /\ mundoAt.atual = <<0, 1>>
  BY <1>2, EstaVersao DEF ListasAt
<1>4. /\ checAt = [fase |-> "checa", rede |-> FALSE, rel |-> [tag |-> <<>>, tipo |-> "nada"]]
      /\ dlgAt = [aberto |-> FALSE, baixando |-> FALSE, instalando |-> FALSE, erro |-> FALSE]
      /\ obraAt = [fase |-> "fora", inteiro |-> FALSE, rodou |-> FALSE, havia |-> <<>>]
  BY DEF InitAt, NenhumaAt
<1>5. discoAt \in DiscosAt /\ <<>> \in DiscosAt
  <2>1. PICK v \in SUBSET {1, 3} : discoAt \in [v -> Datas]
    BY DEF InitAt
  <2>2. v \in SUBSET (1..3) /\ {} \in SUBSET (1..3) /\ <<>> \in [{} -> Datas]
    OBVIOUS
  <2> QED
    BY <2>1, <2>2, DiscoForma
<1>6. checAt \in [fase : {"checa", "fim"}, rede : BOOLEAN, rel : AchadosAt]
  <2>1. [tag |-> <<>>, tipo |-> "nada"] \in AchadosAt
    BY SemTag
  <2> QED
    BY <1>4, <2>1
<1>7. FormaAt
  BY <1>3, <1>4, <1>5, <1>6 DEF FormaAt, FasesAt, ObrasAt
<1>8. checAt.fase = "checa" /\ checAt.rel.tipo = "nada"
  BY <1>4
<1> QED
  BY <1>3, <1>4, <1>7, <1>8 DEF IndAt, AchouAt, ConfereAt, SoConferido, TelaCerta

LEMMA ChecarRecusa ==
  ASSUME IndAt, NEW rede \in BOOLEAN, Checar(rede)
  PROVE  IndAt'
<1> DEFINE r == Achado(rede)
<1>0. /\ checAt.fase = "checa" /\ mundoAt.atual = <<0, 1>> /\ mundoAt.lista \in ListasAt
      /\ checAt' = [fase |-> "fim", rede |-> rede, rel |-> r]
      /\ dlgAt' = [dlgAt EXCEPT !.aberto = r.tipo = "release"]
      /\ mundoAt' = mundoAt /\ obraAt' = obraAt /\ discoAt' = discoAt
      /\ obraAt.fase = "fora" /\ Suportado(mundoAt.so)
  BY DEF IndAt, FormaAt, AchouAt, Checar
<1>1. r = IF rede THEN EscolherAt(mundoAt.lista, <<0, 1>>) ELSE ErroAt
  BY <1>0 DEF Achado
<1>2. r \in AchadosAt /\ (r.tipo = "release" => r.tag \in Partes)
  <2>1. PICK n \in Nat : DeVersoes(mundoAt.lista, n)
    BY <1>0, ListaDeVersoes
  <2>2. /\ EscolherAt(mundoAt.lista, <<0, 1>>) \in AchadosAt
        /\ EscolherAt(mundoAt.lista, <<0, 1>>).tipo = "release"
             => EscolherAt(mundoAt.lista, <<0, 1>>).tag \in Partes
    BY <2>1, EscolherAcerta, EstaVersao
  <2>3. ErroAt \in AchadosAt /\ ErroAt.tipo = "erro"
    BY SemTag DEF ErroAt
  <2> QED
    BY <1>1, <2>2, <2>3
<1> HIDE DEF r
<1>3. FormaAt'
  BY <1>0, <1>2 DEF IndAt, FormaAt
<1>4. /\ checAt'.fase = "fim" /\ checAt'.rel = r /\ checAt'.rede = rede
      /\ dlgAt'.aberto => r.tipo = "release"
  BY <1>0 DEF IndAt, FormaAt
<1>5. dlgAt'.baixando = dlgAt.baixando /\ dlgAt'.instalando = dlgAt.instalando
  BY <1>0 DEF IndAt, FormaAt
<1>6. AchouAt'
  BY <1>0, <1>1, <1>2, <1>4 DEF AchouAt
<1>7. ConfereAt'
  BY <1>0, <1>5 DEF IndAt, ConfereAt, SoConferido, TelaCerta
<1> QED
  BY <1>3, <1>6, <1>7 DEF IndAt

LEMMA DialogoRecusa ==
  ASSUME IndAt, Depois \/ Agora \/ OutroDialogo
  PROVE  IndAt'
<1>1. CASE Depois \/ OutroDialogo
  <2>1. /\ dlgAt' = [dlgAt EXCEPT !.aberto = FALSE]
        /\ mundoAt' = mundoAt /\ checAt' = checAt /\ obraAt' = obraAt /\ discoAt' = discoAt
    BY <1>1 DEF Depois, OutroDialogo
  <2>2. /\ ~dlgAt'.aberto /\ dlgAt'.baixando = dlgAt.baixando
        /\ dlgAt'.instalando = dlgAt.instalando
    BY <2>1 DEF IndAt, FormaAt
  <2>3. FormaAt'
    BY <2>1 DEF IndAt, FormaAt
  <2> QED
    BY <2>1, <2>2, <2>3 DEF IndAt, AchouAt, ConfereAt, SoConferido, TelaCerta
<1>2. CASE Agora
  <2>1. /\ dlgAt.aberto /\ ~dlgAt.baixando /\ ~dlgAt.instalando
        /\ dlgAt' = [dlgAt EXCEPT !.baixando = TRUE, !.erro = FALSE]
        /\ obraAt' = [obraAt EXCEPT !.fase = "baixa"]
        /\ mundoAt' = mundoAt /\ checAt' = checAt /\ discoAt' = discoAt
    BY <1>2 DEF Agora
  <2>2. /\ dlgAt'.baixando /\ ~dlgAt'.instalando /\ obraAt'.fase = "baixa"
        /\ obraAt'.rodou = obraAt.rodou
    BY <2>1 DEF IndAt, FormaAt
  <2>3. FormaAt'
    BY <2>1 DEF IndAt, FormaAt, FasesAt, ObrasAt
  <2> QED
    BY <2>1, <2>2, <2>3 DEF IndAt, AchouAt, ConfereAt, SoConferido, TelaCerta
<1> QED
  BY <1>1, <1>2

\* What a failure leaves: no work, and the bar and the buttons as they were.
LEMMA FalharSolta ==
  ASSUME FormaAt, Falhar
  PROVE  /\ dlgAt' \in [aberto : BOOLEAN, baixando : BOOLEAN, instalando : BOOLEAN, erro : BOOLEAN]
         /\ obraAt' \in ObrasAt
         /\ ~dlgAt'.baixando /\ ~dlgAt'.instalando /\ dlgAt'.aberto = dlgAt.aberto
         /\ obraAt'.fase = "fora" /\ obraAt'.rodou = obraAt.rodou
BY DEF FormaAt, Falhar, FasesAt, ObrasAt

\* Whoever fails leaves the invariant, whatever it did to the disk, and whatever
\* version is installed.
LEMMA FalharMantem ==
  ASSUME IndAt, obraAt.fase # "fora", Falhar, checAt' = checAt, mundoAt' = mundoAt,
         discoAt' \in DiscosAt
  PROVE  IndAt'
<1>1. FormaAt
  BY DEF IndAt
<1>2. FormaAt'
  BY <1>1, FalharSolta DEF FormaAt
<1>3. AchouAt'
  BY <1>1, FalharSolta DEF IndAt, AchouAt
<1>4. ConfereAt'
  BY <1>1, FalharSolta DEF IndAt, ConfereAt, SoConferido, TelaCerta
<1> QED
  BY <1>2, <1>3, <1>4 DEF IndAt

LEMMA BaixarRecusa ==
  ASSUME IndAt, NEW ok \in BOOLEAN, NEW inteiro \in BOOLEAN, NEW criou \in BOOLEAN,
         NEW data \in Datas, Baixar(ok, inteiro, criou, data)
  PROVE  IndAt'
<1> DEFINE win == mundoAt.so = "windows"
<1>0. /\ obraAt.fase = "baixa" /\ mundoAt' = mundoAt /\ checAt' = checAt
      /\ ok => criou
      /\ discoAt' = IF win /\ criou
                    THEN [p \in DOMAIN discoAt \union {Novo} |->
                            IF p = Novo THEN data ELSE discoAt[p]]
                    ELSE discoAt
  BY DEF Baixar
<1>1. /\ discoAt' \in DiscosAt
      /\ win /\ ok => Novo \in DOMAIN discoAt'
  <2>1. /\ discoAt \in DiscosAt /\ DOMAIN discoAt \in SUBSET (1..3)
        /\ \A p \in DOMAIN discoAt : discoAt[p] \in Datas
    BY DiscoForma DEF IndAt, FormaAt
  <2>2. CASE win /\ criou
    <3> DEFINE v == DOMAIN discoAt \union {Novo}
    <3>1. discoAt' = [p \in v |-> IF p = Novo THEN data ELSE discoAt[p]]
      BY <1>0, <2>2
    <3>2. v \in SUBSET (1..3) /\ Novo \in v
      BY <2>1 DEF Novo
    <3>3. discoAt' \in [v -> Datas]
      BY <2>1, <3>1
    <3> HIDE DEF v
    <3> QED
      BY <3>2, <3>3, DiscoForma
  <2>3. CASE ~(win /\ criou)
    BY <1>0, <2>1, <2>3
  <2> QED
    BY <2>2, <2>3
<1>2. CASE ~ok
  <2>1. Falhar
    BY <1>2 DEF Baixar
  <2> QED
    BY <1>0, <1>1, <2>1, FalharMantem
<1>3. CASE ok
  <2>1. /\ obraAt' = [obraAt EXCEPT !.inteiro = inteiro,
                                  !.fase = IF win THEN "confere" ELSE "instala"]
        /\ dlgAt' = [dlgAt EXCEPT !.instalando = mundoAt.so = "linux"]
    BY <1>3 DEF Baixar
  <2>2. /\ obraAt'.fase = IF win THEN "confere" ELSE "instala"
        /\ obraAt'.rodou = obraAt.rodou /\ dlgAt'.aberto = dlgAt.aberto
        /\ dlgAt'.baixando = dlgAt.baixando /\ dlgAt'.instalando = (mundoAt.so = "linux")
    BY <2>1 DEF IndAt, FormaAt
  <2>3. mundoAt.so = "linux" <=> ~win
    BY <1>0 DEF IndAt, AchouAt, Suportado
  <2>4. FormaAt'
    BY <1>0, <1>1, <2>1 DEF IndAt, FormaAt, FasesAt, ObrasAt
  <2>5. AchouAt'
    BY <1>0, <2>2 DEF IndAt, AchouAt
  <2>7. obraAt'.fase = "instala" => ~obraAt'.rodou
    BY <1>0, <2>2 DEF IndAt, ConfereAt
  <2>6. ConfereAt'
    BY <1>0, <1>1, <1>3, <2>2, <2>3, <2>7 DEF IndAt, ConfereAt, SoConferido, TelaCerta
  <2> QED
    BY <2>4, <2>5, <2>6 DEF IndAt
<1> QED
  BY <1>2, <1>3

LEMMA TresFinito == IsFiniteSet(1..3)
<1>1. IsFiniteSet({1})
  BY FS_Singleton
<1>2. IsFiniteSet({1} \union {2})
  BY <1>1, FS_AddElement
<1>3. IsFiniteSet(({1} \union {2}) \union {3})
  BY <1>2, FS_AddElement
<1>4. 1..3 = ({1} \union {2}) \union {3}
  OBVIOUS
<1> QED
  BY <1>3, <1>4

\* The cleaning adds nothing, keeps what was just downloaded and the one to go back to,
\* and nothing else where what was just downloaded is the newest.
LEMMA LimpezaGuarda ==
  ASSUME NEW d \in DiscosAt, Novo \in DOMAIN d
  PROVE  /\ LimparPacotes(d, Novo) \in DiscosAt
         /\ Novo \in DOMAIN LimparPacotes(d, Novo)
         /\ Anterior(d) \subseteq DOMAIN LimparPacotes(d, Novo)
         /\ (\A q \in DOMAIN d : ~AntesDe(d, q, Novo))
              => DOMAIN LimparPacotes(d, Novo) \subseteq {Novo} \union Anterior(d)
<1> DEFINE g == Guardados(d, Novo)
           S(p) == {q \in DOMAIN d : AntesDe(d, q, p)}
<1>0. /\ DOMAIN d \in SUBSET (1..3) /\ \A p \in DOMAIN d : p \in Nat /\ d[p] \in Datas /\ d[p] \in Nat
  BY DiscoForma, AtualizadorAssumption
<1>1. /\ g \subseteq DOMAIN d /\ Novo \in g
      /\ \A p \in DOMAIN d : p \in g <=> p = Novo \/ Cardinality(S(p)) < 2
  BY DEF Guardados, Mantidos
<1>2. LimparPacotes(d, Novo) = [p \in g |-> d[p]]
  BY DEF LimparPacotes
<1>3. LimparPacotes(d, Novo) \in DiscosAt
  <2>1. g \in SUBSET (1..3) /\ LimparPacotes(d, Novo) \in [g -> Datas]
    BY <1>0, <1>1, <1>2
  <2> HIDE DEF g
  <2> QED
    BY <2>1, DiscoForma
<1>4. ASSUME NEW p \in Anterior(d)
      PROVE  p \in g
  <2>1. p \in DOMAIN d /\ S(p) \in SUBSET {Novo}
    BY DEF Anterior
  <2> HIDE DEF S, g
  <2>2. IsFiniteSet({Novo}) /\ Cardinality({Novo}) = 1
    BY FS_Singleton
  <2>3. Cardinality(S(p)) <= 1 /\ Cardinality(S(p)) \in Nat
    BY <2>1, <2>2, FS_Subset, FS_CardinalityType
  <2> QED
    BY <1>1, <2>1, <2>3
<1>5. ASSUME \A q \in DOMAIN d : ~AntesDe(d, q, Novo), NEW p \in g, p # Novo
      PROVE  p \in Anterior(d)
  <2>1. p \in DOMAIN d /\ Cardinality(S(p)) < 2 /\ S(p) \in SUBSET (1..3)
    BY <1>0, <1>1, <1>5
  <2>2. AntesDe(d, Novo, p)
    BY <1>0, <1>5, <2>1 DEF AntesDe
  <2>3. ASSUME NEW q \in DOMAIN d \ {Novo}, AntesDe(d, q, p)
        PROVE  FALSE
    <3>0. Novo \in S(p) /\ q \in S(p) /\ q # Novo
      BY <2>2, <2>3, Zenon
    <3> HIDE DEF S, g
    <3>1. {Novo, q} \subseteq S(p) /\ q # Novo
      BY <3>0
    <3>3. IsFiniteSet(S(p))
      BY <2>1, TresFinito, FS_Subset
    <3>4. IsFiniteSet({Novo}) /\ Cardinality({Novo}) = 1
      BY FS_Singleton
    <3>5. Cardinality({Novo} \union {q}) = 2
      BY <3>1, <3>4, FS_AddElement
    <3>6. {Novo} \union {q} = {Novo, q}
      OBVIOUS
    <3>7. Cardinality({Novo, q}) <= Cardinality(S(p)) /\ Cardinality(S(p)) \in Nat
      BY <3>1, <3>3, FS_Subset, FS_CardinalityType
    <3> QED
      BY <2>1, <3>5, <3>6, <3>7
  <2> QED
    BY <1>5, <2>1, <2>3 DEF Anterior
<1>6. DOMAIN LimparPacotes(d, Novo) = g
  BY <1>2
<1> HIDE DEF g, S
<1> QED
  BY <1>1, <1>3, <1>4, <1>5, <1>6

LEMMA ConferidoRecusa ==
  ASSUME IndAt, InstalarWindows \/ NaoIniciou
  PROVE  IndAt'
<1> DEFINE limpo == LimparPacotes(discoAt, Novo)
<1>0. /\ obraAt.fase = "confere" /\ mundoAt' = mundoAt /\ checAt' = checAt
      /\ Novo \in DOMAIN discoAt /\ mundoAt.so = "windows"
  BY DEF IndAt, ConfereAt, InstalarWindows, NaoIniciou
<1>1. discoAt \in DiscosAt /\ obraAt \in ObrasAt
  BY DEF IndAt, FormaAt
<1>2. /\ limpo \in DiscosAt /\ Novo \in DOMAIN limpo /\ Anterior(discoAt) \subseteq DOMAIN limpo
      /\ (\A q \in DOMAIN discoAt : ~AntesDe(discoAt, q, Novo))
            => DOMAIN limpo \subseteq {Novo} \union Anterior(discoAt)
  BY <1>0, <1>1, LimpezaGuarda
<1> HIDE DEF limpo
<1>3. CASE NaoIniciou
  <2>1. discoAt' = limpo /\ Falhar
    BY <1>3 DEF NaoIniciou, limpo
  <2> QED
    BY <1>0, <1>2, <2>1, FalharMantem
<1>4. CASE InstalarWindows /\ ~SomaConfere
  <2>1. Falhar /\ discoAt' = [p \in DOMAIN discoAt \ {Novo} |-> discoAt[p]]
    BY <1>4 DEF InstalarWindows
  <2> DEFINE v == DOMAIN discoAt \ {Novo}
  <2>2. v \in SUBSET (1..3) /\ discoAt' \in [v -> Datas]
    BY <1>1, <2>1, DiscoForma
  <2> HIDE DEF v
  <2>3. discoAt' \in DiscosAt
    BY <2>2, DiscoForma
  <2> QED
    BY <1>0, <2>1, <2>3, FalharMantem
<1>5. CASE InstalarWindows /\ SomaConfere
  <2>1. /\ discoAt' = limpo /\ obraAt.inteiro
        /\ obraAt' = [obraAt EXCEPT !.fase = "instala", !.rodou = TRUE, !.havia = discoAt]
        /\ dlgAt' = [dlgAt EXCEPT !.instalando = TRUE]
    BY <1>5 DEF InstalarWindows, SomaConfere, limpo
  <2>2. /\ obraAt'.fase = "instala" /\ obraAt'.inteiro /\ dlgAt'.aberto = dlgAt.aberto
        /\ dlgAt'.baixando = dlgAt.baixando /\ dlgAt'.instalando /\ obraAt'.havia = discoAt
    BY <1>1, <2>1 DEF IndAt, FormaAt, ObrasAt
  <2>3. FormaAt'
    BY <1>0, <1>1, <1>2, <2>1 DEF IndAt, FormaAt, FasesAt, ObrasAt
  <2>4. AchouAt'
    BY <1>0, <2>2 DEF IndAt, AchouAt
  <2>5. SoConferido'
    BY <1>2, <2>1, <2>2 DEF SoConferido, Anterior, AntesDe
  <2>6. ConfereAt'
    BY <1>0, <1>2, <2>1, <2>2, <2>5 DEF IndAt, ConfereAt, TelaCerta
  <2> QED
    BY <2>3, <2>4, <2>6 DEF IndAt
<1> QED
  BY <1>3, <1>4, <1>5

LEMMA InstalarRecusa ==
  ASSUME IndAt, \/ \E ok \in BOOLEAN : Instalar(ok)
                \/ NaoReabriu \/ FecharApp \/ FecharPeloInstalador \/ Sair
  PROVE  IndAt'
<1>0. discoAt \in DiscosAt
  BY DEF IndAt, FormaAt
<1>1. CASE NaoReabriu
  BY <1>0, <1>1, FalharMantem DEF NaoReabriu
<1>2. CASE FecharApp \/ Sair
  BY <1>2 DEF FecharApp, Sair, IndAt, FormaAt, AchouAt, ConfereAt, SoConferido, TelaCerta
\* The version that is installed is the one that was offered.
<1>3. ASSUME obraAt.fase = "instala", mundoAt' = [mundoAt EXCEPT !.atual = checAt.rel.tag],
             checAt' = checAt, dlgAt' = dlgAt, discoAt' = discoAt,
             obraAt' = obraAt \/ obraAt' = [obraAt EXCEPT !.fase = "fecha"]
      PROVE  IndAt'
  <2>1. checAt.fase = "fim" /\ checAt.rel.tag \in Partes
    BY <1>3 DEF IndAt, AchouAt
  <2>2. /\ mundoAt'.so = mundoAt.so /\ mundoAt'.lista = mundoAt.lista
        /\ mundoAt' \in [so : Sistemas, atual : Partes, lista : ListasAt]
    BY <1>3, <2>1 DEF IndAt, FormaAt
  <2>3. /\ obraAt' \in ObrasAt
        /\ obraAt'.fase \in {"instala", "fecha"}
        /\ obraAt'.rodou = obraAt.rodou /\ obraAt'.inteiro = obraAt.inteiro
        /\ obraAt'.havia = obraAt.havia
    BY <1>3 DEF IndAt, FormaAt, FasesAt, ObrasAt
  <2>4. FormaAt'
    BY <1>3, <2>2, <2>3 DEF IndAt, FormaAt
  <2>5. AchouAt'
    BY <1>3, <2>1, <2>2 DEF IndAt, AchouAt
  <2>6. ConfereAt'
    BY <1>3, <2>2, <2>3 DEF IndAt, ConfereAt, SoConferido, TelaCerta
  <2> QED
    BY <2>4, <2>5, <2>6 DEF IndAt
<1>4. CASE FecharPeloInstalador
  BY <1>3, <1>4 DEF FecharPeloInstalador
<1>5. ASSUME NEW ok \in BOOLEAN, Instalar(ok)
      PROVE  IndAt'
  <2>1. CASE ok
    BY <1>3, <1>5, <2>1 DEF Instalar
  <2>2. CASE ~ok
    BY <1>0, <1>5, <2>2, FalharMantem DEF Instalar
  <2> QED
    BY <2>1, <2>2
<1> QED
  BY <1>1, <1>2, <1>4, <1>5

LEMMA IndAtPasso ==
  ASSUME IndAt, [NextAt]_varsAt
  PROVE  IndAt'
<1>1. ASSUME NEW rede \in BOOLEAN, Checar(rede) PROVE IndAt'
  BY <1>1, ChecarRecusa
<1>2. CASE Depois \/ Agora \/ OutroDialogo
  BY <1>2, DialogoRecusa
<1>3. ASSUME NEW ok \in BOOLEAN, NEW inteiro \in BOOLEAN, NEW criou \in BOOLEAN,
             NEW data \in Datas, Baixar(ok, inteiro, criou, data)
      PROVE  IndAt'
  BY <1>3, BaixarRecusa
<1>4. CASE InstalarWindows \/ NaoIniciou
  BY <1>4, ConferidoRecusa
<1>5. CASE \/ \E ok \in BOOLEAN : Instalar(ok)
           \/ NaoReabriu \/ FecharApp \/ FecharPeloInstalador \/ Sair
  BY <1>5, InstalarRecusa
<1>6. CASE UNCHANGED varsAt
  BY <1>6 DEF varsAt, IndAt, FormaAt, AchouAt, ConfereAt, SoConferido, TelaCerta
<1> QED
  BY <1>1, <1>2, <1>3, <1>4, <1>5, <1>6 DEF NextAt, Obra

\* What was found stays the right choice, whatever is installed since.
LEMMA IndAtBasta ==
  ASSUME IndAt
  PROVE  AtualizacaoCerta /\ TiposAt
<1> DEFINE lista == mundoAt.lista
           rel == checAt.rel
<1>1. PICK n \in Nat : DeVersoes(lista, n)
  BY ListaDeVersoes DEF IndAt, FormaAt
<1>2. \A r : r \in Boas(lista, <<0, 1>>) <=>
              /\ r \in {lista[i] : i \in DOMAIN lista}
              /\ Oferecivel(r) /\ r.monta = "tem"
  BY Zenon DEF Boas, Oferecivel
<1>3. ASSUME checAt.fase # "fim" PROVE EscolhaCerta
  BY <1>3, Zenon DEF EscolhaCerta
<1>4. ASSUME checAt.fase = "fim", ~checAt.rede, rel = ErroAt PROVE EscolhaCerta
  <2>1. rel.tipo = "erro"
    BY <1>4 DEF ErroAt
  <2> QED
    BY <1>4, <2>1, Zenon DEF EscolhaCerta
<1>5. ASSUME checAt.fase = "fim", checAt.rede, rel = EscolherAt(lista, <<0, 1>>)
      PROVE  EscolhaCerta
  <2>1. /\ rel.tipo = "release" =>
             /\ \E r \in Boas(lista, <<0, 1>>) : r.tag = rel.tag
             /\ \A r \in Boas(lista, <<0, 1>>) : ~MaisNova(r.tag, rel.tag)
        /\ rel.tipo = "erro" =>
             /\ Boas(lista, <<0, 1>>) = {}
             /\ \E r \in {lista[i] : i \in DOMAIN lista} : Oferecivel(r) /\ r.monta = "erro"
        /\ rel.tipo = "nada" =>
             /\ Boas(lista, <<0, 1>>) = {}
             /\ \A r \in {lista[i] : i \in DOMAIN lista} : Oferecivel(r) => r.monta # "erro"
    BY <1>1, <1>5, EscolherAcerta, EstaVersao DEF Oferecivel
  <2> DEFINE boas == {r \in {lista[i] : i \in DOMAIN lista} : Oferecivel(r) /\ r.monta = "tem"}
  <2>2. Boas(lista, <<0, 1>>) = boas
    BY <1>2
  <2>3. rel.tipo = "nada" =>
          \A r \in {lista[i] : i \in DOMAIN lista} : Oferecivel(r) => r.monta = "sem"
    <3>1. \A r \in {lista[i] : i \in DOMAIN lista} : r.monta \in {"tem", "sem", "erro"}
      BY MontaDe DEF IndAt, FormaAt
    <3>2. boas = {} => \A r \in {lista[i] : i \in DOMAIN lista} : Oferecivel(r) => r.monta # "tem"
      OBVIOUS
    <3> QED
      BY <2>1, <2>2, <3>1, <3>2
  <2> QED
    BY <1>5, <2>1, <2>2, <2>3, Zenon DEF EscolhaCerta
<1>6. EscolhaCerta
  <2>1. checAt.fase = "fim" => checAt.rede \in BOOLEAN
    BY DEF IndAt, FormaAt
  <2> QED
    BY <1>3, <1>4, <1>5, <2>1, Zenon DEF IndAt, AchouAt
<1>7. TiposAt
  BY DiscoForma DEF IndAt, FormaAt, FasesAt, AchadosAt, ObrasAt, TiposAt
<1> QED
  BY <1>6, <1>7 DEF IndAt, ConfereAt, AtualizacaoCerta

\* The invariant holds of every list of releases, of every version of each, and of
\* every answer of the network, of the disk and of the installer.
THEOREM AtualizadorInvariante == SpecAt => []IndAt
<1>1. InitAt => IndAt
  BY IndAtInicio
<1>2. IndAt /\ [NextAt]_varsAt => IndAt'
  BY IndAtPasso
<1> QED
  BY <1>1, <1>2, PTL DEF SpecAt

\* The state of the updater keeps its types (internal/atualiza).
THEOREM AtualizadorTipos == SpecAt => []TiposAt
<1>1. IndAt => TiposAt
  BY IndAtBasta
<1> QED
  BY <1>1, AtualizadorInvariante, PTL

\* What is offered is the newest release that serves this system, and is newer than the
\* one installed; an error is told as an error, and "nothing new" only where there is
\* nothing (escolher); no installer runs that was not checked whole (conferirSoma) or
\* without the one to go back to (limparPacotes); and the dialog shows a bar exactly
\* while there is work behind it.
THEOREM AtualizacaoSempreCerta == SpecAt => []AtualizacaoCerta
<1>1. IndAt => AtualizacaoCerta
  BY IndAtBasta
<1> QED
  BY <1>1, AtualizadorInvariante, PTL

-----------------------------------------------------------------------------
(***************************************************************************)
(* The inventory: the inductive invariant.                                 *)
(***************************************************************************)
\* What a section, a file and its .tmp may hold.
Estados == {"inteiro", "vazio", "misto"}
Secao == [ha : BOOLEAN, ronly : Int, windows : Int, extras : Int]
Campos == [ronly : Int, windows : Int, extras : Int]
Caminhos == ArquivosCa \union {"nenhum"}
Conteudo(estados) ==
  [estado : estados, secs : [Nomes -> Secao], geral : BOOLEAN, tema : Int, caminho : Caminhos]
Inis == Conteudo(Estados)
Tmps == Conteudo(Estados \union {"sem"})

\* An operation under way, a dialog, the history.
DeSecao == {"salvar", "pref", "lote"}
Ops == [tipo : DeSecao \union DeGeral \union {"criar", "remover", "nenhuma"}, arq : ArquivosCa,
        nome : Nomes \union {""}, novo : Nomes \union Caminhos \union {""}, campos : Campos]
Obras == [pc : {"fora", "copia", "ler", "abrir", "escrever", "renomear"}, op : Ops,
          linhas : Inis, fd : {"sem", "tmp", "ini", "solto"}]
DialogosCa == [tipo : {"nenhum", "conexao", "ajustes"}, nova : BOOLEAN, nome : Nomes \union {""},
             base : Secao, emUso : ArquivosCa]
HistoriasCa == [ops : Int, quedas : Int, cruzou : BOOLEAN, falhou : BOOLEAN, volta : BOOLEAN,
              primeira : BOOLEAN, devido : [ArquivosCa -> Inis], antes : [ArquivosCa -> Inis]]

\* Who may ask for what: a platform is written by a probe, and the file chosen in the
\* settings is written by the loop, in the default file.
Legal(q, op) ==
  /\ op.tipo \in DeSecao => op.nome \in Nomes /\ op.novo \in Nomes
  /\ op.tipo \in {"criar", "remover"} => op.nome \in Nomes
  /\ op.tipo = "lote" => q \in Sondas
  /\ op.tipo = "caminho" => q = "laco" /\ op.arq = Padrao /\ op.novo \in Caminhos

\* The shape of the state, which holds whatever happens.
FormaCa ==
  /\ discoCa \in [ArquivosCa -> [ini : Inis, tmp : Tmps, hist : Seq(Inis)]]
  /\ obraCa \in [Escritores -> Obras]
  /\ \A q \in Escritores :
       Legal(q, obraCa[q].op) /\ (Ocupado(q) => obraCa[q].op.tipo # "nenhuma")
  /\ loteCa \in [ativo : BOOLEAN, arq : ArquivosCa, copiado : BOOLEAN]
  /\ memCa \in [usado : ArquivosCa, inv : [Nomes -> Secao], portal : Caminhos]
  /\ dlgCa \in DialogosCa /\ (dlgCa.tipo = "conexao" => dlgCa.nome \in Nomes)
  /\ abasCa \subseteq [nome : Nomes, arq : ArquivosCa, ronly : Int]
  /\ obsCa \in HistoriasCa

\* The copy of a detection is made by its first write, and the probes write no more
\* once the detection is over: also whatever happens.
LoteCerto ==
  /\ loteCa.ativo => (loteCa.copiado <=> ~obsCa.primeira)
  /\ \A q \in Escritores : Ocupado(q) /\ obraCa[q].op.tipo = "lote" => loteCa.ativo

\* While nothing failed and no two operations crossed: one writer at a time in a file,
Sozinho ==
  \A p, q \in Escritores : Ocupado(p) /\ Ocupado(q) /\ p # q => obraCa[p].op.arq # obraCa[q].op.arq

\* whose lines are the edit of what the file still holds, and whose .tmp is its own;
ObraCerta ==
  \A q \in Escritores :
    LET o == obraCa[q]  d == discoCa[o.op.arq] IN
    /\ o.pc \in {"abrir", "escrever", "renomear"} => o.linhas = Aplicar(d.ini, o.op)
    /\ o.pc = "escrever" => o.fd = "tmp" /\ d.tmp.estado = "vazio"
    /\ o.pc = "renomear" => d.tmp = o.linhas

\* the file has what is due, though it may have a [geral] before that is due;
DiscoCerto ==
  \A f \in ArquivosCa :
    /\ discoCa[f].ini.estado = "inteiro" /\ obsCa.devido[f].estado = "inteiro"
    /\ Util(discoCa[f].ini) = Util(obsCa.devido[f])
    /\ obsCa.devido[f].geral => discoCa[f].ini.geral

\* and the default file points to the file in use, or the loop is writing that it does.
NoCaminho(q) == Ocupado(q) /\ obraCa[q].op.tipo = "caminho"
EscolhaFirme ==
  IF NoCaminho("laco")
  THEN obraCa["laco"].op.novo = IF memCa.usado = Padrao THEN "nenhum" ELSE memCa.usado
  ELSE memCa.usado \in Apontaveis => CaminhoINIPadrao = memCa.usado

LimpoCa == ~obsCa.cruzou /\ ~obsCa.falhou
CertoCa == Sozinho /\ ObraCerta /\ DiscoCerto /\ Desfazivel /\ EscolhaFirme
IndCa == FormaCa /\ LoteCerto /\ (LimpoCa => CertoCa)

\* Values that are not a chain of EXCEPTs, and what the parts of one are.
LEMMA IniPartes ==
  ASSUME NEW c \in Inis
  PROVE  /\ c.estado \in Estados /\ c.geral \in BOOLEAN /\ c.tema \in Int /\ c.caminho \in Caminhos
         /\ c.secs \in [Nomes -> Secao]
BY DEF Inis, Conteudo

LEMMA SecaoNova ==
  /\ Falta \in Secao
  /\ \A v \in Int : [Falta EXCEPT !.ha = TRUE, !.ronly = v] \in Secao
  /\ \A s \in Secao : Montar(s) \in Secao
  /\ \A s \in Secao, c \in Campos : ComCampos(s, c) \in Secao
<1>1. Falta \in Secao
  BY DEF Falta, Secao
<1>2. \A v \in Int : [Falta EXCEPT !.ha = TRUE, !.ronly = v] \in Secao
  <2>1. \A v \in Int, s \in Secao : [s EXCEPT !.ha = TRUE, !.ronly = v] \in Secao
    BY DEF Secao
  <2> QED
    BY <1>1, <2>1
<1>3. ASSUME NEW s \in Secao PROVE Montar(s) \in Secao
  BY DEF Secao, Montar, Verdade
<1>4. ASSUME NEW s \in Secao, NEW c \in Campos PROVE ComCampos(s, c) \in Secao
  <2>1. /\ Com(s.ronly, c.ronly) \in Int /\ Com(s.windows, c.windows) \in Int
        /\ Com(s.extras, c.extras) \in Int
    BY DEF Secao, Campos, Com
  <2> QED
    BY <2>1 DEF Secao, ComCampos
<1> QED
  BY <1>1, <1>2, <1>3, <1>4

LEMMA CarregarTipo ==
  ASSUME NEW c \in Inis
  PROVE  Carregar(c) \in [Nomes -> Secao]
<1>1. \A n \in Nomes : c.secs[n] \in Secao
  BY IniPartes
<1> QED
  BY <1>1, SecaoNova DEF Carregar

(***************************************************************************)
(* What an edit does, kind by kind.                                        *)
(***************************************************************************)
LEMMA AplicarCasos ==
  ASSUME NEW c, c.estado # "misto", NEW op
  PROVE  /\ op.tipo \in DeSecao => Aplicar(c, op) = SalvarSecao(c, op)
         /\ op.tipo = "criar" => Aplicar(c, op) = CriarSecao(c, op)
         /\ op.tipo = "remover" => Aplicar(c, op) = RemoverSecao(c, op)
         /\ op.tipo \in DeGeral \union {"nenhuma"} => Aplicar(c, op) = SalvarGeral(c, op)
BY DEF Aplicar, DeSecao, DeGeral

\* The sections after an edit of one depend on nothing but the sections before.
SecsApos(secs, op) ==
  IF op.tipo \in DeSecao
  THEN [n \in Nomes |-> IF n = op.novo THEN ComCampos(secs[op.nome], op.campos)
                        ELSE IF n = op.nome THEN Falta ELSE secs[n]]
  ELSE IF op.tipo = "criar"
  THEN [secs EXCEPT ![op.nome] = [Falta EXCEPT !.ha = TRUE, !.ronly = op.campos.ronly]]
  ELSE [secs EXCEPT ![op.nome] = Falta]

LEMMA SecsAposTipo ==
  ASSUME NEW secs \in [Nomes -> Secao], NEW op \in Ops, NEW q, Legal(q, op),
         op.tipo \in DeSecao \union {"criar", "remover"}
  PROVE  SecsApos(secs, op) \in [Nomes -> Secao]
<1>1. op.nome \in Nomes /\ op.campos \in Campos /\ op.campos.ronly \in Int
  BY DEF Legal, Ops, Campos
<1>2. CASE op.tipo \in DeSecao
  <2> DEFINE s == ComCampos(secs[op.nome], op.campos)
  <2>1. s \in Secao
    BY <1>1, SecaoNova
  <2>2. SecsApos(secs, op) = [n \in Nomes |-> IF n = op.novo THEN s
                                             ELSE IF n = op.nome THEN Falta ELSE secs[n]]
    BY <1>2, Zenon DEF SecsApos
  <2> HIDE DEF s
  <2> QED
    BY <2>1, <2>2, SecaoNova
<1>3. CASE op.tipo = "criar"
  <2>1. [Falta EXCEPT !.ha = TRUE, !.ronly = op.campos.ronly] \in Secao
    BY <1>1, SecaoNova
  <2> DEFINE s == [Falta EXCEPT !.ha = TRUE, !.ronly = op.campos.ronly]
  <2>2. SecsApos(secs, op) = [secs EXCEPT ![op.nome] = s]
    BY <1>3 DEF SecsApos, DeSecao
  <2> HIDE DEF s
  <2>3. s \in Secao
    BY <2>1 DEF s
  <2> QED
    BY <1>1, <2>2, <2>3
<1>4. CASE op.tipo = "remover"
  <2>1. SecsApos(secs, op) = [secs EXCEPT ![op.nome] = Falta]
    BY <1>4 DEF SecsApos, DeSecao
  <2> QED
    BY <1>1, <2>1, SecaoNova
<1> QED
  BY <1>2, <1>3, <1>4

LEMMA SecaoSo ==
  ASSUME NEW c \in Inis, c.estado # "misto", NEW op \in Ops, NEW q, Legal(q, op),
         op.tipo \in DeSecao \union {"criar", "remover"}
  PROVE  /\ Aplicar(c, op) \in Inis
         /\ Aplicar(c, op).secs = SecsApos(c.secs, op)
         /\ Aplicar(c, op).tema = c.tema /\ Aplicar(c, op).caminho = c.caminho
         /\ Aplicar(c, op).geral = c.geral
         /\ Aplicar(c, op).estado \in {c.estado, "inteiro"}
<1> DEFINE s == SecsApos(c.secs, op)
           a == Aplicar(c, op)
<1>1. s \in [Nomes -> Secao]
  BY IniPartes, SecsAposTipo
<1>2. CASE op.tipo \in DeSecao
  <2>1. a = [c EXCEPT !.secs = s]
    <3> DEFINE x == ComCampos(c.secs[op.nome], op.campos)
               y == [n \in Nomes |-> IF n = op.novo THEN x
                                     ELSE IF n = op.nome THEN Falta ELSE c.secs[n]]
    <3>1. a = SalvarSecao(c, op)
      BY <1>2, AplicarCasos, ZenonT(30)
    <3>2. SalvarSecao(c, op) = [c EXCEPT !.secs = y]
      BY ZenonT(60) DEF SalvarSecao, Renomeada
    <3>3. s = y
      BY <1>2, Zenon DEF SecsApos
    <3> QED
      BY <3>1, <3>2, <3>3, Zenon
  <2> HIDE DEF a, s
  <2> QED
    BY <1>1, <2>1 DEF Inis, Conteudo, a, s
<1>3. CASE op.tipo = "criar"
  <2> DEFINE x == [Falta EXCEPT !.ha = TRUE, !.ronly = op.campos.ronly]
  <2>1. a = [c EXCEPT !.estado = "inteiro", !.secs[op.nome] = x]
    BY <1>3, AplicarCasos DEF CriarSecao
  <2>2. s = [c.secs EXCEPT ![op.nome] = x]
    BY <1>3 DEF SecsApos, DeSecao
  <2> HIDE DEF x, a, s
  <2>3. a = [c EXCEPT !.estado = "inteiro", !.secs = s]
    BY <2>1, <2>2 DEF Inis, Conteudo
  <2> QED
    BY <1>1, <2>3 DEF Inis, Conteudo, Estados, a, s
<1>4. CASE op.tipo = "remover"
  <2>1. a = [c EXCEPT !.secs = s]
    BY <1>4, AplicarCasos DEF RemoverSecao, SecsApos, Inis, Conteudo, DeSecao
  <2> QED
    BY <1>1, <2>1 DEF Inis, Conteudo
<1> QED
  BY <1>2, <1>3, <1>4

LEMMA GeralSo ==
  ASSUME NEW c \in Inis, c.estado # "misto", NEW op \in Ops, NEW q, Legal(q, op),
         op.tipo \in DeGeral
  PROVE
         /\ Aplicar(c, op) \in Inis /\ Aplicar(c, op).secs = c.secs
         /\ Aplicar(c, op).geral
         /\ Aplicar(c, op).estado \in {c.estado, "inteiro"}
         /\ ~c.geral => /\ Aplicar(c, op).tema = c.tema /\ Aplicar(c, op).caminho = c.caminho
                        /\ Aplicar(c, op).estado = "inteiro"
         /\ c.geral /\ op.tipo = "tema" =>
              Aplicar(c, op).tema = 1 - c.tema /\ Aplicar(c, op).caminho = c.caminho
         /\ c.geral /\ op.tipo = "caminho" =>
              Aplicar(c, op).tema = c.tema /\ Aplicar(c, op).caminho = op.novo
<1> DEFINE a == Aplicar(c, op)
<1>0. a = SalvarGeral(c, op)
  BY AplicarCasos
<1>1. op.tipo = "caminho" => op.novo \in Caminhos
  BY DEF Legal
<1>2. c \in [estado : Estados, secs : [Nomes -> Secao], geral : BOOLEAN, tema : Int,
             caminho : Caminhos]
  BY DEF Inis, Conteudo
<1>3. CASE ~c.geral
  <2>1. a = [c EXCEPT !.geral = TRUE, !.estado = "inteiro"]
    BY <1>0, <1>3 DEF SalvarGeral
  <2> HIDE DEF a
  <2> QED
    BY <1>2, <1>3, <2>1 DEF Inis, Conteudo, Estados, a
<1>4. CASE c.geral /\ op.tipo = "tema"
  <2> DEFINE t == 1 - c.tema
  <2>1. a = [c EXCEPT !.tema = t] /\ t \in Int
    BY <1>0, <1>2, <1>4 DEF SalvarGeral
  <2> HIDE DEF a, t
  <2>2. a \in Inis /\ a.tema = t /\ a.caminho = c.caminho /\ a.secs = c.secs /\ a.geral
        /\ a.estado = c.estado
    BY <1>2, <1>4, <2>1 DEF Inis, Conteudo
  <2> QED
    BY <1>4, <2>2 DEF a, t
<1>5. CASE c.geral /\ op.tipo = "caminho"
  <2>1. a = [c EXCEPT !.caminho = op.novo]
    BY <1>0, <1>5 DEF SalvarGeral
  <2> HIDE DEF a
  <2> QED
    BY <1>1, <1>2, <1>5, <2>1 DEF Inis, Conteudo, a
<1> QED
  BY <1>3, <1>4, <1>5 DEF DeGeral, Inis, Conteudo

LEMMA AplicarTipo ==
  ASSUME NEW c \in Inis, NEW op \in Ops, NEW q, Legal(q, op), op.tipo # "nenhuma"
  PROVE  Aplicar(c, op) \in Inis /\ Feito(c, op) \in Inis
<1>1. ASSUME NEW d \in Inis PROVE Aplicar(d, op) \in Inis
  <2>1. CASE d.estado = "misto"
    <3>1. Aplicar(d, op) = d
      BY <2>1 DEF Aplicar
    <3> QED
      BY <3>1
  <2>2. CASE d.estado # "misto" /\ op.tipo \in DeGeral
    BY <2>2, GeralSo
  <2>3. CASE d.estado # "misto" /\ op.tipo \in DeSecao \union {"criar", "remover"}
    BY <2>3, SecaoSo
  <2> QED
    BY <2>1, <2>2, <2>3 DEF Ops, DeSecao, DeGeral
<1>2. Feito(c, op) \in {Aplicar(c, op), Aplicar(Aplicar(c, op), op)}
  BY DEF Feito
<1> QED
  BY <1>1, <1>2

\* What is written is what is due, of the same edit of two contents that are worth
\* the same; the [geral] that is missing is a write that changes nothing of worth.
LEMMA FeitoIgual ==
  ASSUME NEW c \in Inis, NEW d \in Inis, c.estado = "inteiro", d.estado = "inteiro",
         Util(c) = Util(d), d.geral => c.geral,
         NEW op \in Ops, NEW q, Legal(q, op), op.tipo # "nenhuma"
  PROVE  LET a == Aplicar(c, op)  falta == op.tipo \in DeGeral /\ ~c.geral IN
         /\ a.estado = "inteiro"
         /\ op.tipo \in DeGeral => a.geral
         /\ falta => Util(a) = Util(d) /\ a.caminho = c.caminho
         /\ ~falta => /\ Util(a) = Util(Feito(d, op)) /\ Feito(d, op).estado = "inteiro"
                      /\ Feito(d, op).geral => a.geral
                      /\ op.tipo = "caminho" => a.caminho = op.novo
         /\ op.tipo # "caminho" => a.caminho = c.caminho
<1> DEFINE a == Aplicar(c, op)
           b == Aplicar(d, op)
           e == Aplicar(b, op)
<1>0. c.secs = d.secs /\ c.tema = d.tema /\ c.caminho = d.caminho
  BY DEF Util
<1>1. CASE op.tipo \in DeSecao \union {"criar", "remover"}
  <2>1. op.tipo \notin DeGeral /\ Feito(d, op) = b
    BY <1>1 DEF DeSecao, DeGeral, Feito
  <2>2. /\ a.secs = SecsApos(c.secs, op) /\ a.tema = c.tema /\ a.caminho = c.caminho
        /\ a.geral = c.geral /\ a.estado = "inteiro"
    BY <1>1, SecaoSo
  <2>3. /\ b.secs = SecsApos(d.secs, op) /\ b.tema = d.tema /\ b.caminho = d.caminho
        /\ b.geral = d.geral /\ b.estado = "inteiro"
    BY <1>1, SecaoSo
  <2> HIDE DEF a, b
  <2>4. Util(a) = Util(b)
    BY <1>0, <2>2, <2>3 DEF Util
  <2>5. op.tipo # "caminho"
    BY <2>1 DEF DeGeral
  <2> QED
    BY <2>1, <2>2, <2>3, <2>4, <2>5 DEF a
<1>2. CASE op.tipo \in DeGeral
  <2>1. /\ a.secs = c.secs /\ a.geral /\ a.estado = "inteiro"
        /\ ~c.geral => a.tema = c.tema /\ a.caminho = c.caminho
        /\ c.geral /\ op.tipo = "tema" => a.tema = 1 - c.tema /\ a.caminho = c.caminho
        /\ c.geral /\ op.tipo = "caminho" => a.tema = c.tema /\ a.caminho = op.novo
    BY <1>2, GeralSo
  <2>2. /\ b \in Inis /\ b.secs = d.secs /\ b.geral /\ b.estado = "inteiro"
        /\ ~d.geral => b.tema = d.tema /\ b.caminho = d.caminho
        /\ d.geral /\ op.tipo = "tema" => b.tema = 1 - d.tema /\ b.caminho = d.caminho
        /\ d.geral /\ op.tipo = "caminho" => b.tema = d.tema /\ b.caminho = op.novo
    BY <1>2, GeralSo
  <2>3. /\ e.secs = b.secs /\ e.geral /\ e.estado = "inteiro"
        /\ op.tipo = "tema" => e.tema = 1 - b.tema /\ e.caminho = b.caminho
        /\ op.tipo = "caminho" => e.tema = b.tema /\ e.caminho = op.novo
    <3> HIDE DEF b
    <3>1. b \in Inis /\ b.estado = "inteiro" /\ b.estado # "misto" /\ b.geral
      BY <2>2
    <3>2. /\ e.secs = b.secs /\ e.geral
          /\ e.estado \in {b.estado, "inteiro"}
          /\ b.geral /\ op.tipo = "tema" => e.tema = 1 - b.tema /\ e.caminho = b.caminho
          /\ b.geral /\ op.tipo = "caminho" => e.tema = b.tema /\ e.caminho = op.novo
      BY <1>2, <3>1, GeralSo
    <3> QED
      BY <3>1, <3>2
  <2>4. Feito(d, op) = IF d.geral THEN b ELSE e
    BY <1>2 DEF Feito
  <2>5. op.tipo = "tema" \/ op.tipo = "caminho"
    BY <1>2 DEF DeGeral
  <2> HIDE DEF a, b, e
  <2>6. ~c.geral => Util(a) = Util(d) /\ a.caminho = c.caminho
    BY <1>0, <2>1 DEF Util
  <2>7. ASSUME c.geral PROVE Util(a) = Util(Feito(d, op))
    <3>1. CASE d.geral
      BY <1>0, <2>1, <2>2, <2>4, <2>5, <2>7, <3>1 DEF Util
    <3>2. CASE ~d.geral
      BY <1>0, <2>1, <2>2, <2>3, <2>4, <2>5, <2>7, <3>2 DEF Util
    <3> QED
      BY <3>1, <3>2
  <2>8. Feito(d, op).estado = "inteiro"
    BY <2>2, <2>3, <2>4
  <2> QED
    BY <1>2, <2>1, <2>5, <2>6, <2>7, <2>8 DEF a
<1> QED
  BY <1>1, <1>2 DEF Ops, DeSecao, DeGeral

-----------------------------------------------------------------------------
(***************************************************************************)
(* The steps of nobody's work.                                             *)
(***************************************************************************)
LEMMA Constantes ==
  /\ Vazio \in Inis /\ Misto \in Inis /\ SemTmp \in Tmps /\ Inis \subseteq Tmps
  /\ \A t \in Tmps : t.estado # "sem" => t \in Inis
  /\ Vazio.estado = "vazio"
<1>1. [n \in Nomes |-> Falta] \in [Nomes -> Secao]
  BY SecaoNova
<1> DEFINE s == [n \in Nomes |-> Falta]
<1>2. Vazio = [estado |-> "vazio", secs |-> s, geral |-> FALSE, tema |-> 0, caminho |-> "nenhum"]
  BY DEF Vazio
<1> HIDE DEF s
<1>3. Vazio \in Inis /\ Vazio.estado = "vazio"
  BY <1>1, <1>2 DEF s, Inis, Conteudo, Estados, Caminhos
<1>4. Misto \in Inis
  BY <1>3 DEF Misto, Inis, Conteudo, Estados
<1>5. SemTmp \in Tmps
  BY <1>3 DEF SemTmp, Inis, Tmps, Conteudo, Estados
<1>6. Inis \subseteq Tmps /\ \A t \in Tmps : t.estado # "sem" => t \in Inis
  BY DEF Inis, Tmps, Conteudo, Estados
<1> QED
  BY <1>3, <1>4, <1>5, <1>6

LEMMA ParadoTipo ==
  /\ OpNula \in Ops /\ OpNula.tipo = "nenhuma" /\ OpNula.campos \in Campos
  /\ Nula \in Campos
  /\ Parado \in Obras /\ Parado.pc = "fora" /\ Parado.op = OpNula
<1>1. Nula \in Campos
  BY DEF Nula, Campos
<1>2. Padrao \in ArquivosCa
  BY CadastroAssumption
<1>3. OpNula \in Ops /\ OpNula.tipo = "nenhuma" /\ OpNula.campos \in Campos
  BY <1>1, <1>2 DEF OpNula, Ops
<1>4. Parado \in Obras /\ Parado.pc = "fora" /\ Parado.op = OpNula
  BY <1>3, Constantes DEF Parado, Obras
<1> QED
  BY <1>1, <1>3, <1>4

\* What a step that writes nothing, begins nothing and ends nothing keeps.
LEMMA QuietoCa ==
  ASSUME IndCa, obraCa' = obraCa, discoCa' = discoCa,
         loteCa' \in [ativo : BOOLEAN, arq : ArquivosCa, copiado : BOOLEAN],
         memCa' \in [usado : ArquivosCa, inv : [Nomes -> Secao], portal : Caminhos],
         memCa'.usado = memCa.usado,
         dlgCa' \in DialogosCa, dlgCa'.tipo = "conexao" => dlgCa'.nome \in Nomes,
         abasCa' \subseteq [nome : Nomes, arq : ArquivosCa, ronly : Int],
         obsCa' \in HistoriasCa,
         obsCa'.cruzou = obsCa.cruzou, obsCa'.falhou = obsCa.falhou,
         obsCa'.devido = obsCa.devido, obsCa'.antes = obsCa.antes, LoteCerto'
  PROVE  IndCa'
<1>1. FormaCa'
  BY Zenon DEF IndCa, FormaCa, Ocupado
<1>2. LimpoCa' = LimpoCa
  BY DEF LimpoCa
<1>3. Sozinho' = Sozinho
  BY Zenon DEF Sozinho, Ocupado
<1>4. ObraCerta' = ObraCerta
  BY Zenon DEF ObraCerta, Ocupado
<1>5. DiscoCerto' = DiscoCerto
  BY Zenon DEF DiscoCerto
<1>6. Desfazivel' = Desfazivel
  BY Zenon DEF Desfazivel
<1>7. EscolhaFirme' = EscolhaFirme
  BY Zenon DEF EscolhaFirme, NoCaminho, Ocupado, CaminhoINIPadrao, LerCaminhoGeral
<1> QED
  BY <1>1, <1>2, <1>3, <1>4, <1>5, <1>6, <1>7, Zenon DEF IndCa, CertoCa

LEMMA ObraDe ==
  ASSUME FormaCa, NEW q \in Escritores
  PROVE  /\ obraCa[q] \in Obras /\ obraCa[q].op \in Ops /\ Legal(q, obraCa[q].op)
         /\ obraCa[q].op.arq \in ArquivosCa /\ obraCa[q].linhas \in Inis
         /\ Ocupado(q) => obraCa[q].op.tipo # "nenhuma"
BY DEF FormaCa, Obras, Ops

LEMMA DiscoDe ==
  ASSUME FormaCa, NEW f \in ArquivosCa
  PROVE  /\ discoCa[f].ini \in Inis /\ discoCa[f].tmp \in Tmps /\ discoCa[f].hist \in Seq(Inis)
         /\ obsCa.devido[f] \in Inis /\ obsCa.antes[f] \in Inis
BY DEF FormaCa, HistoriasCa

\* The work of one writer changes.
LEMMA TrocaObra ==
  ASSUME FormaCa, NEW q \in Escritores, NEW o \in Obras, obraCa' = [obraCa EXCEPT ![q] = o],
         Legal(q, o.op), o.pc # "fora" => o.op.tipo # "nenhuma"
  PROVE  /\ obraCa' \in [Escritores -> Obras]
         /\ \A p \in Escritores :
              /\ obraCa'[p] = IF p = q THEN o ELSE obraCa[p]
              /\ Ocupado(p)' = IF p = q THEN o.pc # "fora" ELSE Ocupado(p)
              /\ Legal(p, obraCa'[p].op) /\ (Ocupado(p)' => obraCa'[p].op.tipo # "nenhuma")
<1>1. obraCa \in [Escritores -> Obras]
  BY DEF FormaCa
<1>2. obraCa' \in [Escritores -> Obras]
      /\ \A p \in Escritores : obraCa'[p] = IF p = q THEN o ELSE obraCa[p]
  BY <1>1
<1>3. \A p \in Escritores : Ocupado(p)' = (obraCa'[p].pc # "fora")
  BY DEF Ocupado
<1>4. ASSUME NEW p \in Escritores
      PROVE  /\ Ocupado(p)' = IF p = q THEN o.pc # "fora" ELSE Ocupado(p)
             /\ Legal(p, obraCa'[p].op) /\ (Ocupado(p)' => obraCa'[p].op.tipo # "nenhuma")
  <2>1. CASE p = q
    <3>1. obraCa'[p] = o
      BY <1>2, <2>1
    <3> QED
      BY <1>3, <2>1, <3>1
  <2>2. CASE p # q
    <3>1. obraCa'[p] = obraCa[p]
      BY <1>2, <2>2
    <3>2. Ocupado(p)' = Ocupado(p)
      BY <3>1 DEF Ocupado
    <3> QED
      BY <2>2, <3>1, <3>2, ObraDe
  <2> QED
    BY <2>1, <2>2
<1> QED
  BY <1>2, <1>4

\* What begins an operation keeps the invariant, provided the operation is one that
\* this writer may begin, and the choice of a file goes with it.
LEMMA ComecaMantem ==
  ASSUME IndCa, NEW q \in Escritores, NEW op \in Ops, Legal(q, op), op.tipo # "nenhuma",
         op.tipo = "lote" => loteCa.ativo, ComecarCa(q, op),
         discoCa' = discoCa, loteCa' = loteCa,
         memCa' \in [usado : ArquivosCa, inv : [Nomes -> Secao], portal : Caminhos],
         IF op.tipo = "caminho"
         THEN op.novo = IF memCa'.usado = Padrao THEN "nenhum" ELSE memCa'.usado
         ELSE memCa'.usado = memCa.usado,
         dlgCa' \in DialogosCa, dlgCa'.tipo = "conexao" => dlgCa'.nome \in Nomes,
         abasCa' \subseteq [nome : Nomes, arq : ArquivosCa, ronly : Int]
  PROVE  IndCa'
<1> DEFINE inicio == IF op.tipo \in DeGeral THEN "ler" ELSE "copia"
           o == [Parado EXCEPT !.pc = inicio, !.op = op]
           cruza == obsCa.cruzou \/ \E p \in Escritores :
                      /\ Ocupado(p) /\ obraCa[p].op.arq = op.arq
                      /\ ~({p, q} \subseteq Sondas)
<1>0. FormaCa
  BY DEF IndCa
<1>1. /\ ~Ocupado(q) /\ SemTrava(q)
      /\ obraCa' = [obraCa EXCEPT ![q] = o]
      /\ obsCa' = [obsCa EXCEPT !.ops = @ + 1, !.cruzou = cruza]
  BY DEF ComecarCa
<1>2. inicio \in {"ler", "copia"} /\ cruza \in BOOLEAN
  BY DEF inicio
<1> HIDE DEF inicio, cruza
<1>3. o \in Obras /\ o.pc = inicio /\ o.op = op /\ o.pc # "fora"
  BY <1>2, ParadoTipo DEF Obras
<1> HIDE DEF o
<1>4. /\ obraCa' \in [Escritores -> Obras]
      /\ \A p \in Escritores :
           /\ obraCa'[p] = IF p = q THEN o ELSE obraCa[p]
           /\ Ocupado(p)' = IF p = q THEN o.pc # "fora" ELSE Ocupado(p)
           /\ Legal(p, obraCa'[p].op) /\ (Ocupado(p)' => obraCa'[p].op.tipo # "nenhuma")
  BY <1>0, <1>1, <1>3, TrocaObra
<1>5. /\ obsCa' \in HistoriasCa /\ obsCa'.cruzou = cruza /\ obsCa'.falhou = obsCa.falhou
      /\ obsCa'.devido = obsCa.devido /\ obsCa'.antes = obsCa.antes
      /\ obsCa'.primeira = obsCa.primeira
  <2> DEFINE n == obsCa.ops + 1
  <2>1. obsCa' = [obsCa EXCEPT !.ops = n, !.cruzou = cruza] /\ obsCa \in HistoriasCa
    BY <1>0, <1>1 DEF FormaCa
  <2>2. n \in Int
    BY <1>0 DEF FormaCa, HistoriasCa
  <2> HIDE DEF n
  <2> QED
    BY <1>2, <2>1, <2>2 DEF HistoriasCa
<1>6. FormaCa'
  BY <1>0, <1>4, <1>5 DEF FormaCa
<1>7. LoteCerto'
  <2>1. ASSUME NEW p \in Escritores, Ocupado(p)', obraCa'[p].op.tipo = "lote"
        PROVE  loteCa.ativo
    <3>1. CASE p = q
      BY <1>3, <1>4, <2>1, <3>1
    <3>2. CASE p # q
      BY <1>4, <2>1, <3>2 DEF IndCa, LoteCerto
    <3> QED
      BY <3>1, <3>2
  <2> QED
    BY <1>5, <2>1 DEF IndCa, LoteCerto
<1>8. ASSUME LimpoCa' PROVE CertoCa'
  <2>1. LimpoCa /\ ~cruza
    BY <1>5, <1>8 DEF LimpoCa, cruza
  <2>2. CertoCa
    BY <2>1 DEF IndCa
  <2>3. ASSUME NEW p \in Escritores, Ocupado(p) PROVE p # q /\ obraCa[p].op.arq # op.arq
    <3>1. ~(p \in Sondas /\ q \in Sondas)
      BY <1>1, <2>3 DEF SemTrava
    <3> QED
      BY <1>1, <2>1, <2>3, <3>1 DEF cruza
  <2>4. Sozinho'
    <3> SUFFICES ASSUME NEW p \in Escritores, NEW r \in Escritores, Ocupado(p)', Ocupado(r)', p # r
                 PROVE  obraCa'[p].op.arq # obraCa'[r].op.arq
      BY Zenon DEF Sozinho
    <3>1. CASE p # q /\ r # q
      BY <1>4, <2>2, <3>1 DEF CertoCa, Sozinho
    <3>2. CASE p = q
      <4>1. obraCa'[p].op = op /\ obraCa'[r] = obraCa[r] /\ Ocupado(r)
        BY <1>3, <1>4, <3>2
      <4> QED
        BY <2>3, <4>1
    <3>3. CASE r = q
      <4>1. obraCa'[r].op = op /\ obraCa'[p] = obraCa[p] /\ Ocupado(p)
        BY <1>3, <1>4, <3>3
      <4> QED
        BY <2>3, <4>1
    <3> QED
      BY <3>1, <3>2, <3>3
  <2>5. ObraCerta'
    <3> SUFFICES ASSUME NEW p \in Escritores
                 PROVE  LET w == obraCa'[p]  d == discoCa[w.op.arq] IN
                        /\ w.pc \in {"abrir", "escrever", "renomear"} =>
                             w.linhas = Aplicar(d.ini, w.op)
                        /\ w.pc = "escrever" => w.fd = "tmp" /\ d.tmp.estado = "vazio"
                        /\ w.pc = "renomear" => d.tmp = w.linhas
      BY Zenon DEF ObraCerta
    <3>1. CASE p = q
      BY <1>2, <1>3, <1>4, <3>1
    <3>2. CASE p # q
      <4>1. obraCa'[p] = obraCa[p]
        BY <1>4, <3>2
      <4> QED
        BY <2>2, <4>1 DEF CertoCa, ObraCerta
    <3> QED
      BY <3>1, <3>2
  <2>6. DiscoCerto' /\ Desfazivel'
    BY <1>5, <2>2, Zenon DEF CertoCa, DiscoCerto, Desfazivel
  <2>7. CaminhoINIPadrao' = CaminhoINIPadrao
    BY Zenon DEF CaminhoINIPadrao, LerCaminhoGeral
  <2>8. EscolhaFirme'
    <3>0. "laco" \in Escritores
      BY DEF Escritores
    <3>1. CASE op.tipo = "caminho"
      <4>1. q = "laco"
        BY <3>1 DEF Legal
      <4>2. NoCaminho("laco")' /\ obraCa'["laco"].op = op
        BY <1>3, <1>4, <3>0, <3>1, <4>1 DEF NoCaminho
      <4> QED
        BY <3>1, <4>2 DEF EscolhaFirme
    <3>2. CASE op.tipo # "caminho" /\ q = "laco"
      <4>1. ~NoCaminho("laco") /\ ~NoCaminho("laco")'
        BY <1>1, <1>3, <1>4, <3>0, <3>2 DEF NoCaminho
      <4> QED
        BY <2>2, <2>7, <3>2, <4>1 DEF CertoCa, EscolhaFirme
    <3>3. CASE op.tipo # "caminho" /\ q # "laco"
      <4>1. obraCa'["laco"] = obraCa["laco"] /\ NoCaminho("laco")' = NoCaminho("laco")
        BY <1>4, <3>0, <3>3 DEF NoCaminho
      <4> QED
        BY <2>2, <2>7, <3>3, <4>1 DEF CertoCa, EscolhaFirme
    <3> QED
      BY <3>1, <3>2, <3>3
  <2> QED
    BY <2>4, <2>5, <2>6, <2>8 DEF CertoCa
<1> QED
  BY <1>6, <1>7, <1>8 DEF IndCa

\* The values the steps start from.
LEMMA PartesCa ==
  ASSUME FormaCa
  PROVE  /\ memCa \in [usado : ArquivosCa, inv : [Nomes -> Secao], portal : Caminhos]
         /\ memCa.usado \in ArquivosCa /\ memCa.portal \in Caminhos
         /\ \A n \in Nomes : memCa.inv[n] \in Secao
         /\ dlgCa \in DialogosCa /\ dlgCa.emUso \in ArquivosCa /\ dlgCa.base \in Secao
         /\ dlgCa.tipo = "conexao" => dlgCa.nome \in Nomes
         /\ abasCa \subseteq [nome : Nomes, arq : ArquivosCa, ronly : Int]
         /\ loteCa \in [ativo : BOOLEAN, arq : ArquivosCa, copiado : BOOLEAN]
         /\ loteCa.arq \in ArquivosCa
         /\ obsCa \in HistoriasCa
BY DEF FormaCa, DialogosCa

LEMMA SemDlgTipo ==
  /\ SemDlg \in DialogosCa /\ SemDlg.tipo = "nenhum"
<1>1. Padrao \in ArquivosCa
  BY CadastroAssumption
<1> QED
  BY <1>1, SecaoNova DEF SemDlg, DialogosCa

\* An edit of the preferences, which any file in use takes.
LEMMA OpTema ==
  ASSUME NEW f \in ArquivosCa, NEW q
  PROVE  LET op == [OpNula EXCEPT !.tipo = "tema", !.arq = f] IN
         op \in Ops /\ Legal(q, op) /\ op.tipo = "tema"
BY ParadoTipo DEF Ops, Legal, DeGeral, DeSecao

LEMMA TemaRecusa ==
  ASSUME IndCa, LembrarGeral \/ TrocarAtalho \/ ResponderPortal(TRUE)
  PROVE  IndCa'
<1>0. FormaCa /\ "laco" \in Escritores /\ "lado" \in Escritores
  BY DEF IndCa, Escritores
<1> DEFINE opDe(f) == [OpNula EXCEPT !.tipo = "tema", !.arq = f]
<1>1. \A f \in ArquivosCa, q \in Escritores :
        opDe(f) \in Ops /\ Legal(q, opDe(f)) /\ opDe(f).tipo = "tema"
  BY OpTema
<1>2. CASE LembrarGeral
  <2>1. /\ ComecarCa("laco", opDe(memCa.usado))
        /\ UNCHANGED <<discoCa, loteCa, memCa, abasCa, dlgCa>>
    BY <1>2 DEF LembrarGeral, NoDisco
  <2> HIDE DEF opDe
  <2> QED
    BY <1>0, <1>1, <2>1, PartesCa, ComecaMantem
<1>3. CASE TrocarAtalho
  <2>1. /\ ComecarCa("laco", opDe(dlgCa.emUso))
        /\ UNCHANGED <<discoCa, loteCa, memCa, abasCa, dlgCa>>
    BY <1>3 DEF TrocarAtalho, NoDisco
  <2> HIDE DEF opDe
  <2> QED
    BY <1>0, <1>1, <2>1, PartesCa, ComecaMantem
<1>4. CASE ResponderPortal(TRUE)
  <2>1. /\ ComecarCa("lado", opDe(memCa.portal)) /\ memCa.portal # "nenhum"
        /\ memCa' = [memCa EXCEPT !.portal = "nenhum"]
        /\ UNCHANGED <<discoCa, loteCa, dlgCa, abasCa>>
    BY <1>4 DEF ResponderPortal
  <2> HIDE DEF opDe
  <2>2. memCa.portal \in ArquivosCa
    BY <1>0, <2>1, PartesCa DEF Caminhos
  <2>3. /\ memCa' \in [usado : ArquivosCa, inv : [Nomes -> Secao], portal : Caminhos]
        /\ memCa'.usado = memCa.usado
    BY <1>0, <2>1, PartesCa DEF Caminhos
  <2> QED
    BY <1>0, <1>1, <2>1, <2>2, <2>3, PartesCa, ComecaMantem
<1> QED
  BY <1>2, <1>3, <1>4

LEMMA SalvarDialogoRecusa ==
  ASSUME IndCa, NEW novo \in Nomes, SalvarDialogo(novo)
  PROVE  IndCa'
<1>0. FormaCa /\ "laco" \in Escritores
  BY DEF IndCa, Escritores
<1> DEFINE cs == [ronly |-> dlgCa.base.ronly, windows |-> -1, extras |-> 0]
           op == [tipo |-> IF dlgCa.nova THEN "criar" ELSE "salvar", arq |-> memCa.usado,
                  nome |-> dlgCa.nome, novo |-> IF dlgCa.nova THEN dlgCa.nome ELSE novo,
                  campos |-> cs]
<1>1. /\ ComecarCa("laco", op) /\ dlgCa.tipo = "conexao"
      /\ UNCHANGED <<discoCa, loteCa, memCa, abasCa, dlgCa>>
  BY DEF SalvarDialogo, NoDisco
<1>2. cs \in Campos
  <2>1. dlgCa.base.ronly \in Int
    BY <1>0, PartesCa DEF Secao
  <2> QED
    BY <2>1 DEF Campos
<1> HIDE DEF cs
<1>3. dlgCa.nome \in Nomes /\ memCa.usado \in ArquivosCa
  BY <1>0, <1>1, PartesCa
<1>4. op \in Ops /\ Legal("laco", op) /\ op.tipo \in {"criar", "salvar"}
  BY <1>2, <1>3 DEF Ops, Legal, DeSecao
<1> HIDE DEF op
<1> QED
  BY <1>0, <1>1, <1>4, PartesCa, ComecaMantem

LEMMA RemoverRecusa ==
  ASSUME IndCa, NEW n \in Nomes, RemoverConexao(n)
  PROVE  IndCa'
<1>0. FormaCa /\ "laco" \in Escritores
  BY DEF IndCa, Escritores
<1> DEFINE op == [OpNula EXCEPT !.tipo = "remover", !.arq = memCa.usado, !.nome = n]
<1>1. /\ ComecarCa("laco", op)
      /\ UNCHANGED <<discoCa, loteCa, memCa, abasCa, dlgCa>>
  BY DEF RemoverConexao, NoDisco
<1>2. op \in Ops /\ Legal("laco", op) /\ op.tipo = "remover"
  BY <1>0, PartesCa, ParadoTipo DEF Ops, Legal, DeSecao
<1> HIDE DEF op
<1> QED
  BY <1>0, <1>1, <1>2, PartesCa, ComecaMantem

LEMMA PreferenciaRecusa ==
  ASSUME IndCa, NEW q \in Escritores, NEW t \in abasCa, Preferencia(q, t)
  PROVE  IndCa'
<1>0. FormaCa
  BY DEF IndCa
<1> DEFINE v == 3 - t.ronly
           cs == [Nula EXCEPT !.ronly = v]
           op == [tipo |-> "pref", arq |-> memCa.usado, nome |-> t.nome, novo |-> t.nome,
                  campos |-> cs]
           u == [t EXCEPT !.ronly = v]
<1>1. /\ ComecarCa(q, op) /\ q \in {"laco", "lado"}
      /\ abasCa' = (abasCa \ {t}) \union {u}
      /\ UNCHANGED <<discoCa, loteCa, memCa, dlgCa>>
  BY DEF Preferencia
<1>2. t \in [nome : Nomes, arq : ArquivosCa, ronly : Int]
  BY <1>0, PartesCa
<1>3. v \in Int /\ t.nome \in Nomes
  BY <1>2
<1> HIDE DEF v
<1>4. cs \in Campos
  BY <1>3, ParadoTipo DEF Campos
<1>5. u \in [nome : Nomes, arq : ArquivosCa, ronly : Int]
  BY <1>2, <1>3
<1> HIDE DEF cs, u
<1>6. op \in Ops /\ Legal(q, op) /\ op.tipo = "pref"
  BY <1>0, <1>3, <1>4, PartesCa DEF Ops, Legal, DeSecao
<1> HIDE DEF op
<1>7. abasCa' \subseteq [nome : Nomes, arq : ArquivosCa, ronly : Int]
  BY <1>0, <1>1, <1>5, PartesCa
<1> QED
  BY <1>0, <1>1, <1>6, <1>7, PartesCa, ComecaMantem

LEMMA PlataformaRecusa ==
  ASSUME IndCa, NEW s \in Sondas, NEW n \in Nomes, NEW v \in 1..2, GravarPlataforma(s, n, v)
  PROVE  IndCa'
<1>0. FormaCa /\ s \in Escritores
  BY DEF IndCa, Escritores
<1> DEFINE cs == [Nula EXCEPT !.windows = v]
           op == [tipo |-> "lote", arq |-> loteCa.arq, nome |-> n, novo |-> n, campos |-> cs]
<1>1. /\ ComecarCa(s, op) /\ loteCa.ativo
      /\ UNCHANGED <<discoCa, loteCa, memCa, abasCa, dlgCa>>
  BY DEF GravarPlataforma, NoDisco
<1>2. cs \in Campos
  BY ParadoTipo DEF Campos
<1> HIDE DEF cs
<1>3. op \in Ops /\ Legal(s, op) /\ op.tipo = "lote"
  BY <1>0, <1>2, PartesCa DEF Ops, Legal, DeSecao
<1> HIDE DEF op
<1> QED
  BY <1>0, <1>1, <1>3, PartesCa, ComecaMantem

\* The file chosen is in use before its name is written.
LEMMA TrocarArquivoRecusa ==
  ASSUME IndCa, NEW f \in ArquivosCa, TrocarArquivo(f)
  PROVE  IndCa'
<1>0. FormaCa /\ "laco" \in Escritores
  BY DEF IndCa, Escritores
<1> DEFINE alvo == IF f = Padrao THEN "nenhum" ELSE f
           op == [OpNula EXCEPT !.tipo = "caminho", !.novo = alvo]
           inv == Carregar(discoCa[f].ini)
<1>1. /\ ComecarCa("laco", op)
      /\ memCa' = [memCa EXCEPT !.usado = f, !.inv = inv]
      /\ UNCHANGED <<discoCa, loteCa, dlgCa, abasCa>>
  BY DEF TrocarArquivo
<1>2. alvo \in Caminhos
  BY DEF Caminhos
<1>3. inv \in [Nomes -> Secao]
  BY <1>0, CarregarTipo, DiscoDe
<1> HIDE DEF inv
<1>4. /\ memCa' \in [usado : ArquivosCa, inv : [Nomes -> Secao], portal : Caminhos]
      /\ memCa'.usado = f
  BY <1>0, <1>1, <1>3, PartesCa
<1>5. /\ op \in Ops /\ op.tipo = "caminho" /\ op.novo = alvo /\ op.arq = Padrao
  BY <1>2, ParadoTipo DEF Ops, DeGeral, OpNula
<1>6. Legal("laco", op)
  BY <1>2, <1>5 DEF Legal, DeSecao
<1> HIDE DEF op
<1> QED
  BY <1>0, <1>1, <1>4, <1>5, <1>6, PartesCa, ComecaMantem

\* A step of the loop that leaves the detection and the history alone.
LEMMA QuietoLaco ==
  ASSUME IndCa, obraCa' = obraCa, discoCa' = discoCa, loteCa' = loteCa, obsCa' = obsCa,
         memCa' \in [usado : ArquivosCa, inv : [Nomes -> Secao], portal : Caminhos],
         memCa'.usado = memCa.usado,
         dlgCa' \in DialogosCa, dlgCa'.tipo = "conexao" => dlgCa'.nome \in Nomes,
         abasCa' \subseteq [nome : Nomes, arq : ArquivosCa, ronly : Int]
  PROVE  IndCa'
<1>1. LoteCerto'
  BY Zenon DEF IndCa, LoteCerto, Ocupado
<1>2. FormaCa
  BY DEF IndCa
<1> QED
  BY <1>1, <1>2, PartesCa, QuietoCa

LEMMA DialogoAbre ==
  ASSUME IndCa, NEW n \in Nomes, NEW nova \in BOOLEAN, NEW base \in Secao,
         AbrirDialogoCa(n, nova, base)
  PROVE  IndCa'
<1>0. FormaCa
  BY DEF IndCa
<1>1. /\ dlgCa' = [SemDlg EXCEPT !.tipo = "conexao", !.nova = nova, !.nome = n, !.base = base]
      /\ UNCHANGED <<discoCa, obraCa, loteCa, memCa, abasCa, obsCa>>
  BY DEF AbrirDialogoCa
<1>2. dlgCa' \in DialogosCa /\ dlgCa'.nome \in Nomes
  BY <1>1, SemDlgTipo DEF DialogosCa
<1> QED
  BY <1>0, <1>1, <1>2, PartesCa, QuietoLaco

LEMMA DialogosRecusam ==
  ASSUME IndCa, NEW n \in Nomes, NEW origem \in Nomes,
         EditarConexao(n) \/ NovaConexao(n) \/ DuplicarConexao(n, origem)
  PROVE  IndCa'
<1>0. FormaCa
  BY DEF IndCa
<1>1. CASE EditarConexao(n)
  BY <1>0, <1>1, PartesCa, DialogoAbre DEF EditarConexao
<1>2. CASE NovaConexao(n)
  <2>1. [Falta EXCEPT !.ronly = 1] \in Secao
    <3>1. \A s \in Secao : [s EXCEPT !.ronly = 1] \in Secao
      BY DEF Secao
    <3> QED
      BY <3>1, SecaoNova
  <2> QED
    BY <1>2, <2>1, DialogoAbre DEF NovaConexao
<1>3. CASE DuplicarConexao(n, origem)
  BY <1>0, <1>3, PartesCa, DialogoAbre DEF DuplicarConexao
<1> QED
  BY <1>1, <1>2, <1>3

LEMMA QuietosRecusam ==
  ASSUME IndCa, \/ CancelarDialogo \/ AbrirAjustes \/ TrocarAutostart
                \/ ResponderPortal(FALSE) \/ Recarregar
                \/ \E t \in abasCa : FecharAbaCa(t)
  PROVE  IndCa'
<1>0. FormaCa
  BY DEF IndCa
<1>1. CASE CancelarDialogo
  <2>1. dlgCa' = SemDlg /\ UNCHANGED <<discoCa, obraCa, loteCa, memCa, abasCa, obsCa>>
    BY <1>1 DEF CancelarDialogo
  <2> QED
    BY <1>0, <2>1, PartesCa, SemDlgTipo, QuietoLaco
<1>2. CASE AbrirAjustes
  <2>1. /\ dlgCa' = [SemDlg EXCEPT !.tipo = "ajustes", !.emUso = memCa.usado]
        /\ UNCHANGED <<discoCa, obraCa, loteCa, memCa, abasCa, obsCa>>
    BY <1>2 DEF AbrirAjustes
  <2>2. dlgCa' \in DialogosCa /\ dlgCa'.tipo = "ajustes"
    BY <1>0, <2>1, PartesCa, SemDlgTipo DEF DialogosCa
  <2> QED
    BY <1>0, <2>1, <2>2, PartesCa, QuietoLaco
<1>3. CASE TrocarAutostart \/ ResponderPortal(FALSE)
  <2>1. /\ UNCHANGED <<discoCa, obraCa, loteCa, dlgCa, abasCa, obsCa>>
        /\ \/ memCa' = [memCa EXCEPT !.portal = dlgCa.emUso]
           \/ memCa' = [memCa EXCEPT !.portal = "nenhum"]
    BY <1>3 DEF TrocarAutostart, ResponderPortal
  <2>0. dlgCa.emUso \in Caminhos /\ "nenhum" \in Caminhos
    BY <1>0, PartesCa DEF Caminhos
  <2>2. /\ memCa' \in [usado : ArquivosCa, inv : [Nomes -> Secao], portal : Caminhos]
        /\ memCa'.usado = memCa.usado
    BY <1>0, <2>0, <2>1, PartesCa
  <2> QED
    BY <1>0, <2>1, <2>2, PartesCa, QuietoLaco
<1>4. CASE Recarregar
  <2> DEFINE inv == Carregar(discoCa[memCa.usado].ini)
  <2>1. /\ memCa' = [memCa EXCEPT !.inv = inv]
        /\ UNCHANGED <<discoCa, obraCa, loteCa, dlgCa, abasCa, obsCa>>
    BY <1>4 DEF Recarregar
  <2>2. inv \in [Nomes -> Secao]
    BY <1>0, PartesCa, DiscoDe, CarregarTipo
  <2> HIDE DEF inv
  <2>3. /\ memCa' \in [usado : ArquivosCa, inv : [Nomes -> Secao], portal : Caminhos]
        /\ memCa'.usado = memCa.usado
    BY <1>0, <2>1, <2>2, PartesCa
  <2> QED
    BY <1>0, <2>1, <2>3, PartesCa, QuietoLaco
<1>5. ASSUME NEW t \in abasCa, FecharAbaCa(t) PROVE IndCa'
  <2>1. abasCa' = abasCa \ {t} /\ UNCHANGED <<discoCa, obraCa, loteCa, memCa, dlgCa, obsCa>>
    BY <1>5 DEF FecharAbaCa
  <2>2. abasCa' \subseteq [nome : Nomes, arq : ArquivosCa, ronly : Int]
    BY <1>0, <2>1, PartesCa
  <2> QED
    BY <1>0, <2>1, <2>2, PartesCa, QuietoLaco
<1> QED
  BY <1>1, <1>2, <1>3, <1>4, <1>5

LEMMA AbrirAbaRecusa ==
  ASSUME IndCa, NEW n \in Nomes, AbrirAba(n)
  PROVE  IndCa'
<1>0. FormaCa
  BY DEF IndCa
<1> DEFINE b == obsCa.volta \/
                  (discoCa[memCa.usado].ini.secs[n].ha
                   /\ Montar(discoCa[memCa.usado].ini.secs[n]).ronly # memCa.inv[n].ronly)
<1>1. /\ abasCa' = {[nome |-> n, arq |-> memCa.usado, ronly |-> memCa.inv[n].ronly]}
      /\ obsCa' = [obsCa EXCEPT !.volta = b]
      /\ UNCHANGED <<discoCa, obraCa, loteCa, memCa, dlgCa>>
  BY DEF AbrirAba
<1>2. b \in BOOLEAN
  BY <1>0, PartesCa, DiscoDe, IniPartes DEF HistoriasCa, Secao
<1> HIDE DEF b
<1>3. /\ obsCa' \in HistoriasCa /\ obsCa'.cruzou = obsCa.cruzou /\ obsCa'.falhou = obsCa.falhou
      /\ obsCa'.devido = obsCa.devido /\ obsCa'.antes = obsCa.antes
      /\ obsCa'.primeira = obsCa.primeira
  BY <1>0, <1>1, <1>2, PartesCa DEF HistoriasCa
<1>4. memCa.inv[n].ronly \in Int
  BY <1>0, PartesCa DEF Secao
<1>5. abasCa' \subseteq [nome : Nomes, arq : ArquivosCa, ronly : Int]
  BY <1>0, <1>1, <1>4, PartesCa
<1>6. LoteCerto'
  BY <1>1, <1>3, Zenon DEF IndCa, LoteCerto, Ocupado
<1> QED
  BY <1>0, <1>1, <1>3, <1>5, <1>6, PartesCa, QuietoCa

\* A detection begins with no copy made, and ends when its probes are done.
LEMMA DeteccaoRecusa ==
  ASSUME IndCa, DetectarPlataforma \/ FimDaDeteccao
  PROVE  IndCa'
<1>0. FormaCa /\ LoteCerto
  BY DEF IndCa
<1>1. CASE DetectarPlataforma
  <2>1. /\ loteCa' = [ativo |-> TRUE, arq |-> memCa.usado, copiado |-> FALSE]
        /\ obsCa' = [obsCa EXCEPT !.primeira = TRUE]
        /\ UNCHANGED <<discoCa, obraCa, memCa, dlgCa, abasCa>>
    BY <1>1 DEF DetectarPlataforma
  <2>2. /\ obsCa' \in HistoriasCa /\ obsCa'.cruzou = obsCa.cruzou
        /\ obsCa'.falhou = obsCa.falhou /\ obsCa'.devido = obsCa.devido
        /\ obsCa'.antes = obsCa.antes /\ obsCa'.primeira
    BY <1>0, <2>1, PartesCa DEF HistoriasCa
  <2>3. LoteCerto' /\ loteCa' \in [ativo : BOOLEAN, arq : ArquivosCa, copiado : BOOLEAN]
    BY <1>0, <2>1, <2>2, PartesCa DEF LoteCerto
  <2> QED
    BY <1>0, <2>1, <2>2, <2>3, PartesCa, QuietoCa
<1>2. CASE FimDaDeteccao
  <2> DEFINE inv == Carregar(discoCa[memCa.usado].ini)
  <2>1. /\ loteCa' = [loteCa EXCEPT !.ativo = FALSE] /\ \A s \in Sondas : ~Ocupado(s)
        /\ memCa' = [memCa EXCEPT !.inv = inv]
        /\ UNCHANGED <<discoCa, obraCa, dlgCa, abasCa, obsCa>>
    BY <1>2 DEF FimDaDeteccao
  <2>2. inv \in [Nomes -> Secao]
    BY <1>0, PartesCa, DiscoDe, CarregarTipo
  <2> HIDE DEF inv
  <2>3. /\ memCa' \in [usado : ArquivosCa, inv : [Nomes -> Secao], portal : Caminhos]
        /\ memCa'.usado = memCa.usado
    BY <1>0, <2>1, <2>2, PartesCa
  <2>4. /\ loteCa' \in [ativo : BOOLEAN, arq : ArquivosCa, copiado : BOOLEAN]
        /\ ~loteCa'.ativo
    BY <1>0, <2>1, PartesCa
  <2>5. ASSUME NEW q \in Escritores, Ocupado(q)', obraCa'[q].op.tipo = "lote" PROVE FALSE
    <3>1. q \in Sondas /\ Ocupado(q)
      BY <1>0, <2>1, <2>5, ObraDe DEF Legal, Ocupado
    <3> QED
      BY <2>1, <3>1
  <2>6. LoteCerto'
    BY <2>4, <2>5 DEF LoteCerto
  <2> QED
    BY <1>0, <2>1, <2>3, <2>4, <2>6, PartesCa, QuietoCa
<1> QED
  BY <1>1, <1>2

-----------------------------------------------------------------------------
(***************************************************************************)
(* The steps of an operation.                                              *)
(***************************************************************************)
\* The end of a history of copies is the last copy taken, whatever falls off it.
LEMMA HistUltimo ==
  ASSUME NEW S, NEW h \in Seq(S), NEW x \in S, NEW m \in Nat \ {0}
  PROVE  LET k == IF Len(Append(h, x)) > m THEN Tail(Append(h, x)) ELSE Append(h, x) IN
         /\ k \in Seq(S)
         /\ k # <<>> => Last(k) = x
<1> DEFINE a == Append(h, x)
<1>1. a \in Seq(S) /\ Len(a) = Len(h) + 1 /\ a[Len(a)] = x /\ a # <<>>
  OBVIOUS
<1>2. Last(a) = x
  BY <1>1 DEF Last
<1> HIDE DEF a
<1>3. /\ Tail(a) \in Seq(S) /\ Len(Tail(a)) = Len(a) - 1
      /\ \A i \in 1..Len(Tail(a)) : Tail(a)[i] = a[i + 1]
  BY <1>1, HeadTailProperties
<1>4. Tail(a) # <<>> => Last(Tail(a)) = x
  <2> SUFFICES ASSUME Tail(a) # <<>> PROVE Last(Tail(a)) = x
    OBVIOUS
  <2>1. Len(Tail(a)) # 0 /\ Len(Tail(a)) \in Nat
    BY <1>3, EmptySeq
  <2>2. Len(Tail(a)) \in 1..Len(Tail(a)) /\ Len(a) \in Nat
    BY <1>1, <2>1
  <2>3. Tail(a)[Len(Tail(a))] = a[Len(a)]
    BY <1>3, <2>2
  <2> QED
    BY <1>1, <2>3 DEF Last
<1> QED
  BY <1>1, <1>2, <1>3, <1>4 DEF a

\* One writer goes on with its operation: what is left to say of the others.
LEMMA UmSo ==
  ASSUME FormaCa, Sozinho, ObraCerta, NEW q \in Escritores, Ocupado(q),
         NEW o \in Obras, o.pc # "fora", o.op = obraCa[q].op,
         obraCa' = [obraCa EXCEPT ![q] = o],
         \A f \in ArquivosCa : f # o.op.arq =>
            discoCa'[f].ini = discoCa[f].ini /\ discoCa'[f].tmp = discoCa[f].tmp,
         LET d == discoCa'[o.op.arq] IN
         /\ o.pc \in {"abrir", "escrever", "renomear"} => o.linhas = Aplicar(d.ini, o.op)
         /\ o.pc = "escrever" => o.fd = "tmp" /\ d.tmp.estado = "vazio"
         /\ o.pc = "renomear" => d.tmp = o.linhas
  PROVE  Sozinho' /\ ObraCerta'
<1>1. /\ obraCa' \in [Escritores -> Obras]
      /\ \A p \in Escritores :
           /\ obraCa'[p] = IF p = q THEN o ELSE obraCa[p]
           /\ Ocupado(p)' = IF p = q THEN o.pc # "fora" ELSE Ocupado(p)
  <2>1. Legal(q, o.op) /\ o.op.tipo # "nenhuma"
    BY ObraDe
  <2> QED
    BY <2>1, TrocaObra
<1>2. \A p \in Escritores : obraCa'[p].op = obraCa[p].op /\ Ocupado(p)' = Ocupado(p)
  <2> SUFFICES ASSUME NEW p \in Escritores
               PROVE  obraCa'[p].op = obraCa[p].op /\ Ocupado(p)' = Ocupado(p)
    OBVIOUS
  <2>1. Ocupado(q) \in BOOLEAN /\ Ocupado(q)' \in BOOLEAN
    BY DEF Ocupado
  <2>2. CASE p = q
    BY <1>1, <2>1, <2>2
  <2>3. CASE p # q
    BY <1>1, <2>3
  <2> QED
    BY <2>2, <2>3
<1>3. Sozinho'
  <2> SUFFICES ASSUME NEW p \in Escritores, NEW r \in Escritores, Ocupado(p)', Ocupado(r)', p # r
               PROVE  obraCa'[p].op.arq # obraCa'[r].op.arq
    BY Zenon DEF Sozinho
  <2>1. Ocupado(p) /\ Ocupado(r)
    BY <1>2
  <2>2. obraCa[p].op.arq # obraCa[r].op.arq
    BY <2>1 DEF Sozinho
  <2> QED
    BY <1>2, <2>2
<1>4. ObraCerta'
  <2> SUFFICES ASSUME NEW p \in Escritores
               PROVE  LET w == obraCa'[p]  d == discoCa'[w.op.arq] IN
                      /\ w.pc \in {"abrir", "escrever", "renomear"} =>
                           w.linhas = Aplicar(d.ini, w.op)
                      /\ w.pc = "escrever" => w.fd = "tmp" /\ d.tmp.estado = "vazio"
                      /\ w.pc = "renomear" => d.tmp = w.linhas
    BY Zenon DEF ObraCerta
  <2>1. CASE p = q
    <3>1. obraCa'[p] = o
      BY <1>1, <2>1
    <3> QED
      BY <3>1
  <2>2. CASE p # q
    <3> DEFINE w == obraCa[p]
    <3>1. obraCa'[p] = w /\ w.op.arq \in ArquivosCa
      BY <1>1, <2>2, ObraDe
    <3>2. CASE ~Ocupado(p)
      <4>1. w.pc = "fora"
        BY <3>2 DEF Ocupado
      <4> HIDE DEF w
      <4> QED
        BY <3>1, <4>1
    <3>3. CASE Ocupado(p)
      <4>1. w.op.arq # o.op.arq
        BY <2>2, <3>3 DEF Sozinho
      <4>2. /\ discoCa'[w.op.arq].ini = discoCa[w.op.arq].ini
            /\ discoCa'[w.op.arq].tmp = discoCa[w.op.arq].tmp
        BY <3>1, <4>1
      <4>3. /\ w.pc \in {"abrir", "escrever", "renomear"} =>
                  w.linhas = Aplicar(discoCa[w.op.arq].ini, w.op)
            /\ w.pc = "escrever" => w.fd = "tmp" /\ discoCa[w.op.arq].tmp.estado = "vazio"
            /\ w.pc = "renomear" => discoCa[w.op.arq].tmp = w.linhas
        BY DEF ObraCerta
      <4> HIDE DEF w
      <4> QED
        BY <3>1, <4>2, <4>3
    <3> QED
      BY <3>2, <3>3
  <2> QED
    BY <2>1, <2>2
<1> QED
  BY <1>3, <1>4

\* What the default file points to, and what the loop does about it, did not change.
LEMMA EscolhaIgual ==
  ASSUME discoCa'[Padrao].ini.caminho = discoCa[Padrao].ini.caminho,
         memCa'.usado = memCa.usado, Ocupado("laco")' = Ocupado("laco"),
         obraCa'["laco"].op = obraCa["laco"].op, EscolhaFirme
  PROVE  EscolhaFirme'
<1>1. CaminhoINIPadrao' = CaminhoINIPadrao
  BY Zenon DEF CaminhoINIPadrao, LerCaminhoGeral
<1>2. NoCaminho("laco")' = NoCaminho("laco")
  BY Zenon DEF NoCaminho
<1> QED
  BY <1>1, <1>2, Zenon DEF EscolhaFirme

\* The types, and the detection, of a step that goes on with an operation.
LEMMA SegueForma ==
  ASSUME FormaCa, LoteCerto, NEW q \in Escritores, Ocupado(q),
         NEW o \in Obras, o.pc # "fora", o.op = obraCa[q].op,
         obraCa' = [obraCa EXCEPT ![q] = o],
         discoCa' \in [ArquivosCa -> [ini : Inis, tmp : Tmps, hist : Seq(Inis)]],
         loteCa' \in [ativo : BOOLEAN, arq : ArquivosCa, copiado : BOOLEAN],
         loteCa'.ativo = loteCa.ativo, loteCa.ativo => (loteCa'.copiado <=> ~obsCa'.primeira),
         obsCa' \in HistoriasCa, UNCHANGED <<memCa, dlgCa, abasCa>>
  PROVE  /\ FormaCa' /\ LoteCerto'
         /\ \A p \in Escritores : obraCa'[p].op = obraCa[p].op /\ Ocupado(p)' = Ocupado(p)
<1>1. /\ obraCa' \in [Escritores -> Obras]
      /\ \A p \in Escritores :
           /\ obraCa'[p] = IF p = q THEN o ELSE obraCa[p]
           /\ Ocupado(p)' = IF p = q THEN o.pc # "fora" ELSE Ocupado(p)
           /\ Legal(p, obraCa'[p].op) /\ (Ocupado(p)' => obraCa'[p].op.tipo # "nenhuma")
  <2>1. Legal(q, o.op) /\ o.op.tipo # "nenhuma"
    BY ObraDe
  <2> QED
    BY <2>1, TrocaObra
<1>2. \A p \in Escritores : obraCa'[p].op = obraCa[p].op /\ Ocupado(p)' = Ocupado(p)
  <2> SUFFICES ASSUME NEW p \in Escritores
               PROVE  obraCa'[p].op = obraCa[p].op /\ Ocupado(p)' = Ocupado(p)
    OBVIOUS
  <2>1. Ocupado(q) \in BOOLEAN /\ Ocupado(q)' \in BOOLEAN
    BY DEF Ocupado
  <2>2. CASE p = q
    BY <1>1, <2>1, <2>2
  <2>3. CASE p # q
    BY <1>1, <2>3
  <2> QED
    BY <2>2, <2>3
<1>3. FormaCa'
  BY <1>1 DEF FormaCa
<1>4. LoteCerto'
  <2>1. \A p \in Escritores : Ocupado(p)' /\ obraCa'[p].op.tipo = "lote" => loteCa.ativo
    BY <1>2 DEF LoteCerto
  <2> QED
    BY <2>1 DEF LoteCerto
<1> QED
  BY <1>2, <1>3, <1>4

LEMMA GuardarCopiaRecusa ==
  ASSUME IndCa, NEW q \in Escritores, GuardarCopia(q)
  PROVE  IndCa'
<1> DEFINE f == obraCa[q].op.arq
           lote == obraCa[q].op.tipo = "lote"
           ap == Append(discoCa[f].hist, discoCa[f].ini)
           k == IF Len(ap) > MaxHistorico THEN Tail(ap) ELSE ap
           an == IF lote /\ ~obsCa.primeira THEN obsCa.antes[f] ELSE obsCa.devido[f]
           pr == obsCa.primeira /\ ~lote
           o == [obraCa[q] EXCEPT !.pc = "ler"]
<1>0. FormaCa /\ LoteCerto
  BY DEF IndCa
<1>1. /\ obraCa[q].pc = "copia"
      /\ discoCa' = IF lote /\ loteCa.copiado THEN discoCa ELSE [discoCa EXCEPT ![f].hist = k]
      /\ obsCa' = [obsCa EXCEPT !.antes[f] = an, !.primeira = pr]
      /\ loteCa' = IF lote THEN [loteCa EXCEPT !.copiado = TRUE] ELSE loteCa
      /\ obraCa' = [obraCa EXCEPT ![q].pc = "ler"]
      /\ UNCHANGED <<memCa, dlgCa, abasCa>>
  BY DEF GuardarCopia
<1>2. f \in ArquivosCa /\ obraCa[q] \in Obras /\ Ocupado(q)
  BY <1>0, <1>1, ObraDe DEF Ocupado
<1>3. obraCa' = [obraCa EXCEPT ![q] = o]
  BY <1>0, <1>1 DEF FormaCa
<1>4. o \in Obras /\ o.pc = "ler" /\ o.pc # "fora" /\ o.op = obraCa[q].op
  BY <1>2 DEF Obras
<1>5. lote => loteCa.ativo /\ (loteCa.copiado <=> ~obsCa.primeira)
  BY <1>0, <1>2 DEF LoteCerto
<1>6. an \in Inis /\ pr \in BOOLEAN
  BY <1>0, <1>2, PartesCa, DiscoDe DEF HistoriasCa
<1>7. k \in Seq(Inis) /\ (k # <<>> => Last(k) = discoCa[f].ini)
  <2> DEFINE h == discoCa[f].hist
             x == discoCa[f].ini
  <2>1. h \in Seq(Inis) /\ x \in Inis
    BY <1>0, <1>2, DiscoDe
  <2> HIDE DEF h, x
  <2>2. LET z == IF Len(Append(h, x)) > MaxHistorico THEN Tail(Append(h, x)) ELSE Append(h, x) IN
        z \in Seq(Inis) /\ (z # <<>> => Last(z) = x)
    BY <2>1, HistUltimo, CadastroAssumption
  <2> QED
    BY <2>2 DEF h, x
<1>14. UNCHANGED <<memCa, dlgCa, abasCa>>
  BY <1>1
<1> HIDE DEF f, lote, ap, k, an, pr, o
<1>8. /\ obsCa' \in HistoriasCa /\ obsCa'.primeira = pr
      /\ obsCa'.cruzou = obsCa.cruzou /\ obsCa'.falhou = obsCa.falhou
      /\ obsCa'.devido = obsCa.devido
      /\ \A g \in ArquivosCa : obsCa'.antes[g] = IF g = f THEN an ELSE obsCa.antes[g]
  <2>1. obsCa \in HistoriasCa
    BY <1>0, PartesCa
  <2> QED
    BY <1>1, <1>2, <1>6, <2>1 DEF HistoriasCa
<1>9. /\ discoCa' \in [ArquivosCa -> [ini : Inis, tmp : Tmps, hist : Seq(Inis)]]
      /\ \A g \in ArquivosCa :
           /\ discoCa'[g].ini = discoCa[g].ini /\ discoCa'[g].tmp = discoCa[g].tmp
           /\ discoCa'[g].hist = IF g = f /\ ~(lote /\ loteCa.copiado) THEN k ELSE discoCa[g].hist
  <2>1. discoCa \in [ArquivosCa -> [ini : Inis, tmp : Tmps, hist : Seq(Inis)]]
    BY <1>0 DEF FormaCa
  <2>2. CASE lote /\ loteCa.copiado
    BY <1>1, <2>1, <2>2
  <2>3. CASE ~(lote /\ loteCa.copiado)
    <3>1. discoCa' = [discoCa EXCEPT ![f].hist = k]
      BY <1>1, <2>3
    <3> QED
      BY <1>2, <1>7, <2>1, <2>3, <3>1
  <2> QED
    BY <2>2, <2>3
<1>10. /\ loteCa' \in [ativo : BOOLEAN, arq : ArquivosCa, copiado : BOOLEAN]
       /\ loteCa'.ativo = loteCa.ativo
       /\ loteCa'.copiado = IF lote THEN TRUE ELSE loteCa.copiado
  BY <1>0, <1>1, PartesCa
<1>11. loteCa.ativo => (loteCa'.copiado <=> ~obsCa'.primeira)
  BY <1>0, <1>8, <1>10 DEF LoteCerto, pr
<1>12. /\ FormaCa' /\ LoteCerto'
       /\ \A p \in Escritores : obraCa'[p].op = obraCa[p].op /\ Ocupado(p)' = Ocupado(p)
  BY <1>0, <1>2, <1>3, <1>4, <1>8, <1>9, <1>10, <1>11, <1>14, SegueForma
<1>13. ASSUME LimpoCa' PROVE CertoCa'
  <2>1. CertoCa
    BY <1>8, <1>13 DEF IndCa, LimpoCa
  <2>2. Sozinho' /\ ObraCerta'
    BY <1>0, <1>2, <1>3, <1>4, <1>9, <2>1, UmSo DEF CertoCa
  <2>3. DiscoCerto'
    BY <1>8, <1>9, <2>1 DEF CertoCa, DiscoCerto
  <2>4. Desfazivel'
    <3> SUFFICES ASSUME NEW g \in ArquivosCa, discoCa'[g].hist # <<>>
                 PROVE  Last(discoCa'[g].hist).secs = obsCa'.antes[g].secs
      BY Zenon DEF Desfazivel
    <3>1. CASE g # f
      BY <1>8, <1>9, <2>1, <3>1 DEF CertoCa, Desfazivel
    <3>2. CASE g = f /\ lote /\ loteCa.copiado
      <4>1. an = obsCa.antes[f]
        BY <1>5, <3>2 DEF an
      <4> QED
        BY <1>8, <1>9, <2>1, <3>2, <4>1 DEF CertoCa, Desfazivel
    <3>3. CASE g = f /\ ~(lote /\ loteCa.copiado)
      <4>1. an = obsCa.devido[f]
        BY <1>5, <3>3 DEF an
      <4>2. Util(discoCa[f].ini) = Util(obsCa.devido[f])
        BY <1>2, <2>1 DEF CertoCa, DiscoCerto
      <4>3. discoCa[f].ini.secs = obsCa.devido[f].secs
        BY <4>2 DEF Util
      <4> QED
        BY <1>7, <1>8, <1>9, <3>3, <4>1, <4>3
    <3> QED
      BY <3>1, <3>2, <3>3
  <2>5. EscolhaFirme'
    <3>1. "laco" \in Escritores /\ Padrao \in ArquivosCa
      BY CadastroAssumption DEF Escritores
    <3> QED
      BY <1>1, <1>9, <1>12, <2>1, <3>1, EscolhaIgual DEF CertoCa
  <2> QED
    BY <2>2, <2>3, <2>4, <2>5 DEF CertoCa
<1> QED
  BY <1>12, <1>13 DEF IndCa

\* The types, and the detection, of a step in which operations go on or end.
LEMMA AcabaForma ==
  ASSUME FormaCa, LoteCerto, obraCa' \in [Escritores -> Obras],
         \A p \in Escritores :
           \/ obraCa'[p].op = obraCa[p].op /\ Ocupado(p)' = Ocupado(p)
           \/ obraCa'[p] = Parado,
         discoCa' \in [ArquivosCa -> [ini : Inis, tmp : Tmps, hist : Seq(Inis)]],
         obsCa' \in HistoriasCa, obsCa'.primeira = obsCa.primeira,
         memCa' \in [usado : ArquivosCa, inv : [Nomes -> Secao], portal : Caminhos],
         dlgCa' \in DialogosCa, dlgCa'.tipo = "conexao" => dlgCa'.nome \in Nomes,
         UNCHANGED <<loteCa, abasCa>>
  PROVE  FormaCa' /\ LoteCerto'
<1>1. ASSUME NEW p \in Escritores
      PROVE  /\ Legal(p, obraCa'[p].op) /\ (Ocupado(p)' => obraCa'[p].op.tipo # "nenhuma")
             /\ Ocupado(p)' => Ocupado(p) /\ obraCa'[p].op = obraCa[p].op
  <2>1. CASE obraCa'[p].op = obraCa[p].op /\ Ocupado(p)' = Ocupado(p)
    BY <2>1, ObraDe
  <2>2. CASE obraCa'[p] = Parado
    <3>1. ~Ocupado(p)'
      BY <2>2, ParadoTipo DEF Ocupado
    <3>2. Legal(p, OpNula)
      BY ParadoTipo DEF Legal, DeSecao
    <3> QED
      BY <2>2, <3>1, <3>2, ParadoTipo
  <2> QED
    BY <2>1, <2>2
<1>2. FormaCa'
  BY <1>1 DEF FormaCa
<1>3. LoteCerto'
  <2>1. \A p \in Escritores : Ocupado(p)' /\ obraCa'[p].op.tipo = "lote" => loteCa.ativo
    BY <1>1 DEF LoteCerto
  <2> QED
    BY <2>1 DEF LoteCerto
<1> QED
  BY <1>2, <1>3

LEMMA UmPara ==
  ASSUME FormaCa, NEW q \in Escritores, obraCa' = [obraCa EXCEPT ![q] = Parado]
  PROVE  /\ obraCa' \in [Escritores -> Obras]
         /\ obraCa'[q] = Parado /\ ~Ocupado(q)'
         /\ \A p \in Escritores : p # q => obraCa'[p] = obraCa[p] /\ Ocupado(p)' = Ocupado(p)
<1>1. obraCa \in [Escritores -> Obras]
  BY DEF FormaCa
<1>2. /\ obraCa' \in [Escritores -> Obras] /\ obraCa'[q] = Parado
      /\ \A p \in Escritores : p # q => obraCa'[p] = obraCa[p]
  BY <1>1, ParadoTipo
<1> QED
  BY <1>2, ParadoTipo DEF Ocupado

\* An operation that ends without a write.
LEMMA FimMantem ==
  ASSUME IndCa, NEW q \in Escritores, Fim(q), ~NoCaminho(q),
         UNCHANGED <<discoCa, loteCa, memCa, dlgCa, abasCa, obsCa>>
  PROVE  IndCa'
<1>0. FormaCa /\ LoteCerto
  BY DEF IndCa
<1>1. /\ obraCa' \in [Escritores -> Obras]
      /\ obraCa'[q] = Parado /\ ~Ocupado(q)'
      /\ \A p \in Escritores : p # q => obraCa'[p] = obraCa[p] /\ Ocupado(p)' = Ocupado(p)
  BY <1>0, UmPara DEF Fim
<1>2. discoCa \in [ArquivosCa -> [ini : Inis, tmp : Tmps, hist : Seq(Inis)]]
  BY <1>0 DEF FormaCa
<1>3. FormaCa' /\ LoteCerto'
  BY <1>0, <1>1, <1>2, PartesCa, AcabaForma
<1>4. ASSUME LimpoCa' PROVE CertoCa'
  <2>1. CertoCa
    BY <1>4 DEF IndCa, LimpoCa
  <2>2. Sozinho'
    <3> SUFFICES ASSUME NEW p \in Escritores, NEW r \in Escritores, Ocupado(p)', Ocupado(r)', p # r
                 PROVE  obraCa'[p].op.arq # obraCa'[r].op.arq
      BY Zenon DEF Sozinho
    <3>1. p # q /\ r # q
      BY <1>1
    <3> QED
      BY <1>1, <2>1, <3>1 DEF CertoCa, Sozinho
  <2>3. ObraCerta'
    <3> SUFFICES ASSUME NEW p \in Escritores
                 PROVE  LET w == obraCa'[p]  d == discoCa[w.op.arq] IN
                        /\ w.pc \in {"abrir", "escrever", "renomear"} =>
                             w.linhas = Aplicar(d.ini, w.op)
                        /\ w.pc = "escrever" => w.fd = "tmp" /\ d.tmp.estado = "vazio"
                        /\ w.pc = "renomear" => d.tmp = w.linhas
      BY Zenon DEF ObraCerta
    <3>1. CASE p = q
      BY <1>1, <3>1, ParadoTipo
    <3>2. CASE p # q
      <4>1. obraCa'[p] = obraCa[p]
        BY <1>1, <3>2
      <4> QED
        BY <2>1, <4>1 DEF CertoCa, ObraCerta
    <3> QED
      BY <3>1, <3>2
  <2>4. DiscoCerto' /\ Desfazivel'
    BY <2>1, Zenon DEF CertoCa, DiscoCerto, Desfazivel
  <2>5. EscolhaFirme'
    <3>1. NoCaminho("laco")' = NoCaminho("laco")
      <4>1. "laco" \in Escritores
        BY DEF Escritores
      <4>2. CASE q = "laco"
        BY <1>1, <4>2 DEF NoCaminho
      <4>3. CASE q # "laco"
        BY <1>1, <4>1, <4>3 DEF NoCaminho
      <4> QED
        BY <4>2, <4>3
    <3>2. NoCaminho("laco") => obraCa'["laco"] = obraCa["laco"]
      <4>1. "laco" \in Escritores
        BY DEF Escritores
      <4> QED
        BY <1>1, <4>1 DEF NoCaminho
    <3>3. CaminhoINIPadrao' = CaminhoINIPadrao
      BY Zenon DEF CaminhoINIPadrao, LerCaminhoGeral
    <3> QED
      BY <2>1, <3>1, <3>2, <3>3, Zenon DEF CertoCa, EscolhaFirme
  <2> QED
    BY <2>2, <2>3, <2>4, <2>5 DEF CertoCa
<1> QED
  BY <1>3, <1>4 DEF IndCa

\* A step of an operation that touches no more than the .tmp of its file.
LEMMA SegueMantem ==
  ASSUME IndCa, NEW q \in Escritores, Ocupado(q),
         NEW o \in Obras, o.pc # "fora", o.op = obraCa[q].op,
         obraCa' = [obraCa EXCEPT ![q] = o],
         discoCa' \in [ArquivosCa -> [ini : Inis, tmp : Tmps, hist : Seq(Inis)]],
         LimpoCa => \A f \in ArquivosCa :
           /\ discoCa'[f].ini = discoCa[f].ini /\ discoCa'[f].hist = discoCa[f].hist
           /\ f # o.op.arq => discoCa'[f].tmp = discoCa[f].tmp,
         LimpoCa =>
           LET d == discoCa'[o.op.arq] IN
           /\ o.pc \in {"abrir", "escrever", "renomear"} => o.linhas = Aplicar(d.ini, o.op)
           /\ o.pc = "escrever" => o.fd = "tmp" /\ d.tmp.estado = "vazio"
           /\ o.pc = "renomear" => d.tmp = o.linhas,
         UNCHANGED <<loteCa, memCa, dlgCa, abasCa, obsCa>>
  PROVE  IndCa'
<1>0. FormaCa /\ LoteCerto
  BY DEF IndCa
<1>1. /\ FormaCa' /\ LoteCerto'
      /\ \A p \in Escritores : obraCa'[p].op = obraCa[p].op /\ Ocupado(p)' = Ocupado(p)
  <2>1. /\ loteCa' = loteCa /\ obsCa' = obsCa
        /\ loteCa.ativo => (loteCa'.copiado <=> ~obsCa'.primeira)
    BY <1>0 DEF LoteCerto
  <2> QED
    BY <1>0, <2>1, PartesCa, SegueForma
<1>2. ASSUME LimpoCa' PROVE CertoCa'
  <2>0. LimpoCa
    BY <1>2 DEF LimpoCa
  <2>1. CertoCa
    BY <2>0 DEF IndCa
  <2>2. Sozinho' /\ ObraCerta'
    BY <1>0, <2>0, <2>1, UmSo DEF CertoCa
  <2>3. DiscoCerto' /\ Desfazivel'
    BY <2>0, <2>1 DEF CertoCa, DiscoCerto, Desfazivel
  <2>4. EscolhaFirme'
    <3>1. "laco" \in Escritores /\ Padrao \in ArquivosCa
      BY CadastroAssumption DEF Escritores
    <3> QED
      BY <1>1, <2>0, <2>1, <3>1, EscolhaIgual DEF CertoCa
  <2> QED
    BY <2>2, <2>3, <2>4 DEF CertoCa
<1> QED
  BY <1>1, <1>2 DEF IndCa

LEMMA LerRecusa ==
  ASSUME IndCa, NEW q \in Escritores, Ler(q)
  PROVE  IndCa'
<1> DEFINE op == obraCa[q].op
           c == discoCa[op.arq].ini
           a == Aplicar(c, op)
           o == [obraCa[q] EXCEPT !.pc = "abrir", !.linhas = a]
<1>0. FormaCa
  BY DEF IndCa
<1>1. /\ obraCa[q].pc = "ler" /\ UNCHANGED <<discoCa, loteCa, memCa, dlgCa, abasCa, obsCa>>
      /\ IF Pode(c, op) THEN obraCa' = [obraCa EXCEPT ![q].pc = "abrir", ![q].linhas = a]
         ELSE Fim(q)
  BY DEF Ler
<1>2. Ocupado(q) /\ obraCa[q] \in Obras /\ op \in Ops /\ Legal(q, op) /\ op.tipo # "nenhuma"
      /\ op.arq \in ArquivosCa
  BY <1>0, <1>1, ObraDe DEF Ocupado
<1>3. CASE ~Pode(c, op)
  <2>1. op.tipo # "caminho"
    BY <1>3, Zenon DEF Pode
  <2>2. ~NoCaminho(q) /\ Fim(q)
    BY <1>1, <1>3, <2>1 DEF NoCaminho
  <2> QED
    BY <1>1, <2>2, FimMantem
<1>4. CASE Pode(c, op)
  <2>1. c \in Inis
    BY <1>0, <1>2, DiscoDe
  <2>2. a \in Inis
    BY <1>2, <2>1, AplicarTipo
  <2> HIDE DEF a
  <2>3. obraCa' = [obraCa EXCEPT ![q] = o]
    BY <1>0, <1>1, <1>4 DEF FormaCa
  <2>4. o \in Obras /\ o.pc = "abrir" /\ o.op = op /\ o.linhas = a
    BY <1>2, <2>2 DEF Obras
  <2> HIDE DEF o
  <2>5. discoCa' = discoCa /\ discoCa \in [ArquivosCa -> [ini : Inis, tmp : Tmps, hist : Seq(Inis)]]
    BY <1>0, <1>1 DEF FormaCa
  <2>6. o.linhas = Aplicar(discoCa'[o.op.arq].ini, o.op)
    BY <2>4, <2>5 DEF a
  <2>7. UNCHANGED <<loteCa, memCa, dlgCa, abasCa, obsCa>> /\ o.pc # "fora" /\ o.op = obraCa[q].op
    BY <1>1, <2>4
  <2>8. /\ o.pc \in {"abrir", "escrever", "renomear"} =>
             o.linhas = Aplicar(discoCa'[o.op.arq].ini, o.op)
        /\ o.pc # "escrever" /\ o.pc # "renomear"
    BY <2>4, <2>6
  <2> HIDE DEF op, c
  <2> QED
    BY <1>2, <2>3, <2>4, <2>5, <2>7, <2>8, SegueMantem
<1> QED
  BY <1>3, <1>4

LEMMA AbrirRecusa ==
  ASSUME IndCa, NEW q \in Escritores, AbrirTmp(q)
  PROVE  IndCa'
<1> DEFINE f == obraCa[q].op.arq
           o == [obraCa[q] EXCEPT !.pc = "escrever", !.fd = "tmp"]
<1>0. FormaCa
  BY DEF IndCa
<1>1. /\ obraCa[q].pc = "abrir" /\ UNCHANGED <<loteCa, memCa, dlgCa, abasCa, obsCa>>
      /\ discoCa' = [discoCa EXCEPT ![f].tmp = Vazio]
      /\ obraCa' = [obraCa EXCEPT ![q].pc = "escrever", ![q].fd = "tmp"]
  BY DEF AbrirTmp
<1>2. Ocupado(q) /\ obraCa[q] \in Obras /\ f \in ArquivosCa
  BY <1>0, <1>1, ObraDe DEF Ocupado
<1>3. obraCa' = [obraCa EXCEPT ![q] = o]
  BY <1>0, <1>1 DEF FormaCa
<1>4. /\ o \in Obras /\ o.pc = "escrever" /\ o.op = obraCa[q].op /\ o.fd = "tmp"
      /\ o.linhas = obraCa[q].linhas /\ o.op.arq = f
  BY <1>2 DEF Obras
<1> HIDE DEF o
<1>5. /\ discoCa' \in [ArquivosCa -> [ini : Inis, tmp : Tmps, hist : Seq(Inis)]]
      /\ discoCa'[f].tmp = Vazio
      /\ \A g \in ArquivosCa :
           /\ discoCa'[g].ini = discoCa[g].ini /\ discoCa'[g].hist = discoCa[g].hist
           /\ g # f => discoCa'[g].tmp = discoCa[g].tmp
  <2>1. discoCa \in [ArquivosCa -> [ini : Inis, tmp : Tmps, hist : Seq(Inis)]]
    BY <1>0 DEF FormaCa
  <2>2. Vazio \in Tmps
    BY Constantes
  <2> QED
    BY <1>1, <1>2, <2>1, <2>2
<1>6. ASSUME LimpoCa PROVE o.linhas = Aplicar(discoCa'[o.op.arq].ini, o.op)
  <2>1. obraCa[q].linhas = Aplicar(discoCa[f].ini, obraCa[q].op)
    BY <1>1, <1>6 DEF IndCa, CertoCa, ObraCerta
  <2> QED
    BY <1>2, <1>4, <1>5, <2>1
<1>7. /\ UNCHANGED <<loteCa, memCa, dlgCa, abasCa, obsCa>> /\ o.pc # "fora"
      /\ discoCa'[o.op.arq].tmp.estado = "vazio" /\ o.pc # "renomear"
  BY <1>1, <1>4, <1>5, Constantes
<1> HIDE DEF f
<1> QED
  BY <1>2, <1>3, <1>4, <1>5, <1>6, <1>7, SegueMantem

LEMMA EscreverRecusa ==
  ASSUME IndCa, NEW q \in Escritores, EscreverTmp(q)
  PROVE  IndCa'
<1> DEFINE f == obraCa[q].op.arq
           linhas == obraCa[q].linhas
           o == [obraCa[q] EXCEPT !.pc = "renomear"]
<1>0. FormaCa
  BY DEF IndCa
<1>1. /\ obraCa[q].pc = "escrever" /\ UNCHANGED <<loteCa, memCa, dlgCa, abasCa, obsCa>>
      /\ obraCa' = [obraCa EXCEPT ![q].pc = "renomear"]
  BY DEF EscreverTmp
<1>2. Ocupado(q) /\ obraCa[q] \in Obras /\ f \in ArquivosCa /\ linhas \in Inis
  BY <1>0, <1>1, ObraDe DEF Ocupado
<1>3. obraCa' = [obraCa EXCEPT ![q] = o]
  BY <1>0, <1>1 DEF FormaCa
<1>4. /\ o \in Obras /\ o.pc = "renomear" /\ o.op = obraCa[q].op
      /\ o.linhas = linhas /\ o.op.arq = f
  BY <1>2 DEF Obras
<1>5. discoCa \in [ArquivosCa -> [ini : Inis, tmp : Tmps, hist : Seq(Inis)]]
  BY <1>0 DEF FormaCa
<1>6. \A velho : Por(velho, linhas) \subseteq Inis
  BY <1>2, Constantes DEF Por
<1> HIDE DEF o
<1>7. discoCa' \in [ArquivosCa -> [ini : Inis, tmp : Tmps, hist : Seq(Inis)]]
  <2>1. CASE obraCa[q].fd = "tmp"
    <3>1. PICK c \in Por(discoCa[f].tmp, linhas) : discoCa' = [discoCa EXCEPT ![f].tmp = c]
      BY <2>1, Zenon DEF EscreverTmp
    <3>2. c \in Tmps
      BY <1>6, Constantes
    <3> QED
      BY <1>2, <1>5, <3>1, <3>2
  <2>2. CASE obraCa[q].fd = "ini"
    <3>1. PICK c \in Por(discoCa[f].ini, linhas) : discoCa' = [discoCa EXCEPT ![f].ini = c]
      BY <2>2 DEF EscreverTmp
    <3>2. c \in Inis
      BY <1>6
    <3> QED
      BY <1>2, <1>5, <3>1, <3>2
  <2>3. CASE obraCa[q].fd \notin {"tmp", "ini"}
    <3>1. discoCa' = discoCa
      BY <2>3 DEF EscreverTmp
    <3> QED
      BY <1>5, <3>1
  <2> QED
    BY <2>1, <2>2, <2>3
<1>8. ASSUME LimpoCa
      PROVE  /\ discoCa'[f].tmp = linhas /\ linhas = Aplicar(discoCa[f].ini, obraCa[q].op)
             /\ \A g \in ArquivosCa :
                  /\ discoCa'[g].ini = discoCa[g].ini /\ discoCa'[g].hist = discoCa[g].hist
                  /\ g # f => discoCa'[g].tmp = discoCa[g].tmp
  <2>1. /\ obraCa[q].fd = "tmp" /\ discoCa[f].tmp.estado = "vazio"
        /\ linhas = Aplicar(discoCa[f].ini, obraCa[q].op)
    BY <1>1, <1>8 DEF IndCa, CertoCa, ObraCerta
  <2>2. PICK c \in Por(discoCa[f].tmp, linhas) : discoCa' = [discoCa EXCEPT ![f].tmp = c]
    BY <2>1, Zenon DEF EscreverTmp
  <2>3. c = linhas
    BY <2>1 DEF Por
  <2> HIDE DEF linhas
  <2> QED
    BY <1>2, <1>5, <2>1, <2>2, <2>3
<1>9. ASSUME LimpoCa
      PROVE  o.linhas = Aplicar(discoCa'[o.op.arq].ini, o.op) /\ discoCa'[o.op.arq].tmp = o.linhas
  BY <1>2, <1>4, <1>8, <1>9
<1>10. UNCHANGED <<loteCa, memCa, dlgCa, abasCa, obsCa>> /\ o.pc # "fora" /\ o.pc # "escrever"
  BY <1>1, <1>4
<1> HIDE DEF f, linhas
<1> QED
  BY <1>2, <1>3, <1>4, <1>7, <1>8, <1>9, <1>10, SegueMantem

\* A write that fails, and a crash.
LEMMA FalharEscritaRecusa ==
  ASSUME IndCa, NEW q \in Escritores, FalharEscrita(q)
  PROVE  IndCa'
<1>0. FormaCa /\ LoteCerto
  BY DEF IndCa
<1>1. /\ obsCa' = [obsCa EXCEPT !.quedas = @ + 1, !.falhou = TRUE]
      /\ obraCa' = [obraCa EXCEPT ![q] = Parado]
      /\ UNCHANGED <<discoCa, loteCa, memCa, dlgCa, abasCa>>
  BY DEF FalharEscrita, Fim
<1>2. obsCa' \in HistoriasCa /\ obsCa'.primeira = obsCa.primeira /\ obsCa'.falhou
  <2> DEFINE n == obsCa.quedas + 1
  <2>1. obsCa' = [obsCa EXCEPT !.quedas = n, !.falhou = TRUE] /\ obsCa \in HistoriasCa
    BY <1>0, <1>1, PartesCa
  <2>2. n \in Int
    BY <2>1 DEF HistoriasCa
  <2> HIDE DEF n
  <2> QED
    BY <2>1, <2>2 DEF HistoriasCa
<1>3. /\ obraCa' \in [Escritores -> Obras]
      /\ \A p \in Escritores : \/ obraCa'[p].op = obraCa[p].op /\ Ocupado(p)' = Ocupado(p)
                               \/ obraCa'[p] = Parado
  <2>1. /\ obraCa' \in [Escritores -> Obras] /\ obraCa'[q] = Parado
        /\ \A p \in Escritores : p # q => obraCa'[p] = obraCa[p] /\ Ocupado(p)' = Ocupado(p)
    BY <1>0, <1>1, UmPara
  <2> QED
    BY <2>1
<1>4. discoCa' \in [ArquivosCa -> [ini : Inis, tmp : Tmps, hist : Seq(Inis)]]
  BY <1>0, <1>1 DEF FormaCa
<1>5. FormaCa' /\ LoteCerto'
  BY <1>0, <1>1, <1>2, <1>3, <1>4, PartesCa, AcabaForma
<1> QED
  BY <1>2, <1>5 DEF IndCa, LimpoCa

LEMMA ReiniciarRecusa ==
  ASSUME IndCa, Reiniciar
  PROVE  IndCa'
<1> DEFINE u == CaminhoINIPadrao
           inv == Carregar(discoCa[u].ini)
<1>0. FormaCa
  BY DEF IndCa
<1>1. /\ obsCa' = [obsCa EXCEPT !.quedas = @ + 1]
      /\ obraCa' = [q \in Escritores |-> Parado]
      /\ loteCa' = [loteCa EXCEPT !.ativo = FALSE]
      /\ memCa' = [usado |-> u, inv |-> inv, portal |-> "nenhum"]
      /\ dlgCa' = SemDlg /\ abasCa' = {} /\ discoCa' = discoCa
  BY DEF Reiniciar
<1>2. u \in ArquivosCa
  BY CadastroAssumption DEF CaminhoINIPadrao
<1>3. inv \in [Nomes -> Secao]
  BY <1>0, <1>2, DiscoDe, CarregarTipo
<1>4. CaminhoINIPadrao' = u
  BY <1>1, Zenon DEF CaminhoINIPadrao, LerCaminhoGeral
<1> HIDE DEF u, inv
<1>5. /\ obsCa' \in HistoriasCa /\ obsCa'.primeira = obsCa.primeira
      /\ obsCa'.cruzou = obsCa.cruzou /\ obsCa'.falhou = obsCa.falhou
      /\ obsCa'.devido = obsCa.devido /\ obsCa'.antes = obsCa.antes
  <2> DEFINE n == obsCa.quedas + 1
  <2>1. obsCa' = [obsCa EXCEPT !.quedas = n] /\ obsCa \in HistoriasCa
    BY <1>0, <1>1, PartesCa
  <2>2. n \in Int
    BY <2>1 DEF HistoriasCa
  <2> HIDE DEF n
  <2> QED
    BY <2>1, <2>2 DEF HistoriasCa
<1>6. /\ obraCa' \in [Escritores -> Obras]
      /\ \A q \in Escritores : obraCa'[q] = Parado /\ ~Ocupado(q)' /\ Legal(q, obraCa'[q].op)
  <2>1. obraCa' \in [Escritores -> Obras] /\ \A q \in Escritores : obraCa'[q] = Parado
    BY <1>1, ParadoTipo
  <2>2. \A q : Legal(q, OpNula)
    BY ParadoTipo DEF Legal, DeSecao
  <2> QED
    BY <2>1, <2>2, ParadoTipo DEF Ocupado
<1>7. /\ loteCa' \in [ativo : BOOLEAN, arq : ArquivosCa, copiado : BOOLEAN] /\ ~loteCa'.ativo
  BY <1>0, <1>1, PartesCa
<1>8. memCa' \in [usado : ArquivosCa, inv : [Nomes -> Secao], portal : Caminhos] /\ memCa'.usado = u
  BY <1>1, <1>2, <1>3 DEF Caminhos
<1>9. FormaCa'
  BY <1>0, <1>1, <1>5, <1>6, <1>7, <1>8, SemDlgTipo DEF FormaCa
<1>10. LoteCerto'
  BY <1>6, <1>7 DEF LoteCerto
<1>11. ASSUME LimpoCa' PROVE CertoCa'
  <2>1. CertoCa
    BY <1>5, <1>11 DEF IndCa, LimpoCa
  <2>2. Sozinho'
    BY <1>6 DEF Sozinho
  <2>3. ObraCerta'
    <3> SUFFICES ASSUME NEW p \in Escritores
                 PROVE  LET w == obraCa'[p]  d == discoCa'[w.op.arq] IN
                        /\ w.pc \in {"abrir", "escrever", "renomear"} =>
                             w.linhas = Aplicar(d.ini, w.op)
                        /\ w.pc = "escrever" => w.fd = "tmp" /\ d.tmp.estado = "vazio"
                        /\ w.pc = "renomear" => d.tmp = w.linhas
      BY Zenon DEF ObraCerta
    <3>1. obraCa'[p].pc = "fora"
      BY <1>6, ParadoTipo
    <3> QED
      BY <3>1
  <2>4. DiscoCerto' /\ Desfazivel'
    BY <1>1, <1>5, <2>1, Zenon DEF CertoCa, DiscoCerto, Desfazivel
  <2>5. EscolhaFirme'
    <3>1. ~NoCaminho("laco")'
      BY <1>6 DEF NoCaminho, Escritores
    <3> QED
      BY <1>4, <1>8, <3>1 DEF EscolhaFirme
  <2> QED
    BY <2>2, <2>3, <2>4, <2>5 DEF CertoCa
<1> QED
  BY <1>9, <1>10, <1>11 DEF IndCa

\* A rename changes of the others no more than what their descriptor points to.
LEMMA OutroFdMantem ==
  ASSUME NEW o \in Obras, NEW f
  PROVE  /\ OutroFd(o, f) \in Obras /\ OutroFd(o, f).pc = o.pc /\ OutroFd(o, f).op = o.op
         /\ OutroFd(o, f).linhas = o.linhas
         /\ o.op.arq # f => OutroFd(o, f) = o
<1> DEFINE d == IF o.fd = "tmp" THEN "ini" ELSE IF o.fd = "ini" THEN "solto" ELSE o.fd
<1>1. d \in {"sem", "tmp", "ini", "solto"}
  BY DEF Obras
<1>2. OutroFd(o, f) = IF o.op.arq # f THEN o ELSE [o EXCEPT !.fd = d]
  BY DEF OutroFd
<1> HIDE DEF d
<1> QED
  BY <1>1, <1>2 DEF Obras

LEMMA RenomearSemTmp ==
  ASSUME IndCa, NEW q \in Escritores, Renomear(q), discoCa[obraCa[q].op.arq].tmp.estado = "sem"
  PROVE  IndCa'
<1>0. FormaCa /\ LoteCerto
  BY DEF IndCa
<1>1. /\ obsCa' = [obsCa EXCEPT !.falhou = TRUE]
      /\ obraCa' = [obraCa EXCEPT ![q] = Parado]
      /\ UNCHANGED <<discoCa, loteCa, memCa, dlgCa, abasCa>>
  BY DEF Renomear, Fim
<1>2. obsCa' \in HistoriasCa /\ obsCa'.primeira = obsCa.primeira /\ obsCa'.falhou
  BY <1>0, <1>1, PartesCa DEF HistoriasCa
<1>3. /\ obraCa' \in [Escritores -> Obras]
      /\ \A p \in Escritores : \/ obraCa'[p].op = obraCa[p].op /\ Ocupado(p)' = Ocupado(p)
                               \/ obraCa'[p] = Parado
  <2>1. /\ obraCa' \in [Escritores -> Obras] /\ obraCa'[q] = Parado
        /\ \A p \in Escritores : p # q => obraCa'[p] = obraCa[p] /\ Ocupado(p)' = Ocupado(p)
    BY <1>0, <1>1, UmPara
  <2> QED
    BY <2>1
<1>4. discoCa' \in [ArquivosCa -> [ini : Inis, tmp : Tmps, hist : Seq(Inis)]]
  BY <1>0, <1>1 DEF FormaCa
<1>5. FormaCa' /\ LoteCerto'
  BY <1>0, <1>1, <1>2, <1>3, <1>4, PartesCa, AcabaForma
<1> QED
  BY <1>2, <1>5 DEF IndCa, LimpoCa

\* The rename, of a .tmp that is there: what the file holds is what was asked for,
\* and what is due is what the file holds; or it is the [geral] that was missing, and
\* the operation goes on.
LEMMA RenomearPega ==
  ASSUME IndCa, NEW q \in Escritores, Renomear(q), discoCa[obraCa[q].op.arq].tmp.estado # "sem"
  PROVE  IndCa'
<1> DEFINE op == obraCa[q].op
           f == op.arq
           t == discoCa[f].tmp
           d == [discoCa EXCEPT ![f].ini = t, ![f].tmp = SemTmp]
           resta == op.tipo \in DeGeral /\ obraCa[q].linhas.geral /\ ~discoCa[f].ini.geral
           o == IF resta THEN [Parado EXCEPT !.pc = "ler", !.op = op] ELSE Parado
           feito == Feito(obsCa.devido[f], op)
           outra == [obsCa EXCEPT !.devido[f] = feito]
<1>0. FormaCa /\ LoteCerto
  BY DEF IndCa
<1>1. /\ obraCa[q].pc = "renomear" /\ discoCa' = d
      /\ obraCa' = [p \in Escritores |-> IF p # q THEN OutroFd(obraCa[p], f) ELSE o]
      /\ obsCa' = IF resta THEN obsCa ELSE outra
      /\ memCa' = Recarregado(q, d)
      /\ dlgCa' = SemDlg \/ dlgCa' = dlgCa
      /\ UNCHANGED <<loteCa, abasCa>>
  BY DEF Renomear
<1>2. /\ Ocupado(q) /\ obraCa[q] \in Obras /\ op \in Ops /\ Legal(q, op) /\ op.tipo # "nenhuma"
      /\ f \in ArquivosCa /\ obsCa \in HistoriasCa
  BY <1>0, <1>1, ObraDe, PartesCa DEF Ocupado
<1>3. t \in Inis
  BY <1>0, <1>2, DiscoDe, Constantes
<1>4. discoCa \in [ArquivosCa -> [ini : Inis, tmp : Tmps, hist : Seq(Inis)]]
  BY <1>0 DEF FormaCa
<1>5. feito \in Inis
  BY <1>0, <1>2, DiscoDe, AplicarTipo
<1>6. /\ o \in Obras
      /\ resta => o.pc = "ler" /\ o.op = op
      /\ ~resta => o = Parado
      /\ o.pc \in {"ler", "fora"}
  BY <1>2, ParadoTipo DEF Obras
<1> HIDE DEF t, o, feito, resta, d, outra
<1>7. /\ d \in [ArquivosCa -> [ini : Inis, tmp : Tmps, hist : Seq(Inis)]]
      /\ d[f].ini = t
      /\ \A g \in ArquivosCa : /\ d[g].hist = discoCa[g].hist
                               /\ g # f => d[g] = discoCa[g]
  <2>1. SemTmp \in Tmps
    BY Constantes
  <2>2. d = [discoCa EXCEPT ![f].ini = t, ![f].tmp = SemTmp]
    BY DEF d
  <2> HIDE DEF op
  <2> QED
    BY <1>2, <1>3, <1>4, <2>1, <2>2
<1>8. memCa' \in [usado : ArquivosCa, inv : [Nomes -> Secao], portal : Caminhos]
      /\ memCa'.usado = memCa.usado
  <2> DEFINE inv == Carregar(d[memCa.usado].ini)
  <2>1. memCa' = memCa \/ memCa' = [memCa EXCEPT !.inv = inv]
    BY <1>1 DEF Recarregado
  <2>2. inv \in [Nomes -> Secao]
    <3>1. d[memCa.usado].ini \in Inis
      BY <1>0, <1>7, PartesCa
    <3> QED
      BY <3>1, CarregarTipo
  <2> HIDE DEF inv
  <2> QED
    BY <1>0, <2>1, <2>2, PartesCa
<1>9. dlgCa' \in DialogosCa /\ (dlgCa'.tipo = "conexao" => dlgCa'.nome \in Nomes)
  BY <1>0, <1>1, PartesCa, SemDlgTipo
<1>10. /\ obraCa' \in [Escritores -> Obras] /\ obraCa'[q] = o
       /\ \A p \in Escritores : p # q =>
            /\ obraCa'[p].op = obraCa[p].op /\ obraCa'[p].pc = obraCa[p].pc
            /\ Ocupado(p)' = Ocupado(p)
            /\ obraCa[p].op.arq # f => obraCa'[p] = obraCa[p]
  <2>1. ASSUME NEW p \in Escritores
        PROVE  obraCa'[p] = IF p # q THEN OutroFd(obraCa[p], f) ELSE o
    BY <1>1
  <2>2. ASSUME NEW p \in Escritores, p # q
        PROVE  /\ obraCa'[p] \in Obras
               /\ obraCa'[p].op = obraCa[p].op /\ obraCa'[p].pc = obraCa[p].pc
               /\ Ocupado(p)' = Ocupado(p)
               /\ obraCa[p].op.arq # f => obraCa'[p] = obraCa[p]
    <3>1. obraCa[p] \in Obras
      BY <1>0, ObraDe
    <3>2. obraCa'[p] = OutroFd(obraCa[p], f)
      BY <2>1, <2>2
    <3> QED
      BY <3>1, <3>2, OutroFdMantem DEF Ocupado
  <2>3. obraCa'[q] = o /\ \A p \in Escritores : obraCa'[p] \in Obras
    <3>1. obraCa'[q] = o
      BY <2>1
    <3>2. o \in Obras
      BY <1>6
    <3>3. ASSUME NEW p \in Escritores PROVE obraCa'[p] \in Obras
      <4>1. CASE p = q
        BY <3>1, <3>2, <4>1, Zenon
      <4>2. CASE p # q
        BY <2>2, <4>2, Zenon
      <4> QED
        BY <4>1, <4>2, Zenon
    <3> QED
      BY <3>1, <3>3, Zenon
  <2>4. obraCa' \in [Escritores -> Obras]
    <3>1. obraCa' = [p \in Escritores |-> IF p # q THEN OutroFd(obraCa[p], f) ELSE o]
      BY <1>1
    <3>2. DOMAIN obraCa' = Escritores /\ obraCa' = [p \in Escritores |-> obraCa'[p]]
      BY <3>1, Zenon
    <3> QED
      BY <2>3, <3>2, Zenon
  <2> QED
    BY <2>2, <2>3, <2>4
<1>11. ASSUME NEW p \in Escritores
       PROVE  \/ obraCa'[p].op = obraCa[p].op /\ Ocupado(p)' = Ocupado(p)
              \/ obraCa'[p] = Parado
  <2>1. CASE p # q
    BY <1>10, <2>1
  <2>2. CASE p = q /\ resta
    <3>1. obraCa'[p] = o /\ o.op = op /\ o.pc = "ler"
      BY <1>6, <1>10, <2>2
    <3>2. Ocupado(p) = TRUE /\ Ocupado(p)' = TRUE
      BY <1>1, <2>2, <3>1 DEF Ocupado
    <3> QED
      BY <2>2, <3>1, <3>2
  <2>3. CASE p = q /\ ~resta
    BY <1>6, <1>10, <2>3
  <2> QED
    BY <2>1, <2>2, <2>3
<1>12. /\ obsCa' \in HistoriasCa /\ obsCa'.primeira = obsCa.primeira
       /\ obsCa'.cruzou = obsCa.cruzou /\ obsCa'.falhou = obsCa.falhou
       /\ obsCa'.antes = obsCa.antes
       /\ \A g \in ArquivosCa :
            obsCa'.devido[g] = IF g = f /\ ~resta THEN feito ELSE obsCa.devido[g]
  <2>1. /\ outra \in HistoriasCa /\ outra.primeira = obsCa.primeira
        /\ outra.cruzou = obsCa.cruzou /\ outra.falhou = obsCa.falhou
        /\ outra.antes = obsCa.antes
        /\ \A g \in ArquivosCa : outra.devido[g] = IF g = f THEN feito ELSE obsCa.devido[g]
    <3>1. outra = [obsCa EXCEPT !.devido[f] = feito]
      BY DEF outra
    <3> HIDE DEF op
    <3> QED
      BY <1>2, <1>5, <3>1 DEF HistoriasCa
  <2>2. CASE resta
    BY <1>1, <1>2, <2>2
  <2>3. CASE ~resta
    BY <1>1, <2>1, <2>3
  <2> QED
    BY <2>2, <2>3
<1>13. FormaCa' /\ LoteCerto'
  <2>1. /\ discoCa' \in [ArquivosCa -> [ini : Inis, tmp : Tmps, hist : Seq(Inis)]]
        /\ UNCHANGED <<loteCa, abasCa>>
    BY <1>1, <1>7
  <2> QED
    BY <1>0, <1>8, <1>9, <1>10, <1>11, <1>12, <2>1, AcabaForma
<1>14. ASSUME LimpoCa' PROVE CertoCa'
  <2> DEFINE c == discoCa[f].ini
             devido == obsCa.devido[f]
  <2>1. CertoCa
    BY <1>12, <1>14 DEF IndCa, LimpoCa
  <2>2. c \in Inis /\ devido \in Inis
    BY <1>0, <1>2, DiscoDe
  <2>3. /\ c.estado = "inteiro" /\ devido.estado = "inteiro"
        /\ Util(c) = Util(devido) /\ (devido.geral => c.geral)
    <3>1. DiscoCerto
      BY <2>1 DEF CertoCa
    <3> HIDE DEF op
    <3> QED
      BY <1>2, <3>1 DEF DiscoCerto
  <2>4. t = obraCa[q].linhas /\ t = Aplicar(c, op)
    <3>1. ObraCerta
      BY <2>1 DEF CertoCa
    <3> QED
      BY <1>1, <3>1 DEF ObraCerta, t
  <2>5. resta <=> op.tipo \in DeGeral /\ t.geral /\ ~c.geral
    BY <2>4 DEF resta
  <2>6. feito = Feito(devido, op)
    BY DEF feito
  <2> HIDE DEF op, c, devido
  <2>7. /\ t.estado = "inteiro"
        /\ op.tipo \in DeGeral => t.geral
        /\ op.tipo # "caminho" => t.caminho = c.caminho
        /\ op.tipo \in DeGeral /\ ~c.geral => Util(t) = Util(devido) /\ t.caminho = c.caminho
        /\ ~(op.tipo \in DeGeral /\ ~c.geral) =>
             /\ Util(t) = Util(feito) /\ feito.estado = "inteiro" /\ (feito.geral => t.geral)
             /\ op.tipo = "caminho" => t.caminho = op.novo
    <3> DEFINE a == Aplicar(c, op)
               b == Feito(devido, op)
    <3>1. /\ a.estado = "inteiro"
          /\ op.tipo \in DeGeral => a.geral
          /\ op.tipo \in DeGeral /\ ~c.geral => Util(a) = Util(devido) /\ a.caminho = c.caminho
          /\ ~(op.tipo \in DeGeral /\ ~c.geral) =>
               /\ Util(a) = Util(b) /\ b.estado = "inteiro" /\ (b.geral => a.geral)
               /\ op.tipo = "caminho" => a.caminho = op.novo
          /\ op.tipo # "caminho" => a.caminho = c.caminho
      BY <1>2, <2>2, <2>3, FeitoIgual
    <3>2. t = a /\ feito = b
      BY <2>4, <2>6
    <3> QED
      BY <3>1, <3>2, Zenon
  <2>8. /\ resta => Util(t) = Util(devido) /\ t.caminho = c.caminho /\ t.geral
        /\ ~resta => /\ Util(t) = Util(feito) /\ feito.estado = "inteiro" /\ (feito.geral => t.geral)
                     /\ op.tipo = "caminho" => t.caminho = op.novo
    BY <2>5, <2>7, Zenon
  <2>9. /\ Sozinho /\ ObraCerta /\ DiscoCerto /\ Desfazivel /\ EscolhaFirme
        /\ discoCa' = d
    BY <1>1, <2>1 DEF CertoCa
  <2>10. Sozinho'
    <3>1. \A p \in Escritores : Ocupado(p)' => Ocupado(p) /\ obraCa'[p].op = obraCa[p].op
      BY <1>11, ParadoTipo DEF Ocupado
    <3> QED
      BY <2>9, <3>1, Zenon DEF Sozinho
  <2>11. ObraCerta'
    <3> SUFFICES ASSUME NEW p \in Escritores
                 PROVE  LET w == obraCa'[p]  e == discoCa'[w.op.arq] IN
                        /\ w.pc \in {"abrir", "escrever", "renomear"} =>
                             w.linhas = Aplicar(e.ini, w.op)
                        /\ w.pc = "escrever" => w.fd = "tmp" /\ e.tmp.estado = "vazio"
                        /\ w.pc = "renomear" => e.tmp = w.linhas
      BY Zenon DEF ObraCerta
    <3>1. CASE obraCa'[p].pc \notin {"abrir", "escrever", "renomear"}
      BY <3>1
    <3>2. CASE obraCa'[p].pc \in {"abrir", "escrever", "renomear"}
      <4>1. p # q
        BY <1>6, <1>10, <3>2
      <4>2. Ocupado(p)
        BY <1>10, <3>2, <4>1 DEF Ocupado
      <4>3. obraCa[p].op.arq # f /\ obraCa[p].op.arq \in ArquivosCa
        BY <1>0, <1>2, <2>9, <4>1, <4>2, ObraDe DEF Sozinho, op
      <4>4. obraCa'[p] = obraCa[p] /\ discoCa'[obraCa[p].op.arq] = discoCa[obraCa[p].op.arq]
        BY <1>7, <1>10, <2>9, <4>1, <4>3
      <4> QED
        BY <2>9, <4>4 DEF ObraCerta
    <3> QED
      BY <3>1, <3>2
  <2>12. DiscoCerto'
    <3> SUFFICES ASSUME NEW g \in ArquivosCa
                 PROVE  /\ discoCa'[g].ini.estado = "inteiro" /\ obsCa'.devido[g].estado = "inteiro"
                        /\ Util(discoCa'[g].ini) = Util(obsCa'.devido[g])
                        /\ obsCa'.devido[g].geral => discoCa'[g].ini.geral
      BY Zenon DEF DiscoCerto
    <3>1. CASE g # f
      <4>1. discoCa'[g] = discoCa[g] /\ obsCa'.devido[g] = obsCa.devido[g]
        BY <1>7, <1>12, <2>9, <3>1
      <4> QED
        BY <2>9, <4>1 DEF DiscoCerto
    <3>2. CASE g = f /\ resta
      <4>1. discoCa'[g].ini = t /\ obsCa'.devido[g] = devido
        BY <1>7, <1>12, <2>9, <3>2 DEF devido
      <4> QED
        BY <2>3, <2>7, <2>8, <3>2, <4>1
    <3>3. CASE g = f /\ ~resta
      <4>1. discoCa'[g].ini = t /\ obsCa'.devido[g] = feito
        BY <1>7, <1>12, <2>9, <3>3
      <4> QED
        BY <2>7, <2>8, <3>3, <4>1
    <3> QED
      BY <3>1, <3>2, <3>3
  <2>13. Desfazivel'
    <3> SUFFICES ASSUME NEW g \in ArquivosCa
                 PROVE  discoCa'[g].hist # <<>> => Last(discoCa'[g].hist).secs = obsCa'.antes[g].secs
      BY Zenon DEF Desfazivel
    <3>1. discoCa'[g].hist = discoCa[g].hist /\ obsCa'.antes[g] = obsCa.antes[g]
      BY <1>7, <1>12, <2>9
    <3> QED
      BY <2>9, <3>1 DEF Desfazivel
  <2>14. EscolhaFirme'
    <3>1. Padrao \in ArquivosCa /\ "laco" \in Escritores
      BY CadastroAssumption DEF Escritores
    <3>2. CASE /\ discoCa'[Padrao].ini.caminho = discoCa[Padrao].ini.caminho
               /\ obraCa'["laco"].op = obraCa["laco"].op
               /\ Ocupado("laco")' = Ocupado("laco")
      BY <1>8, <2>9, <3>2, EscolhaIgual
    <3>3. CASE op.tipo = "caminho"
      <4>1. q = "laco" /\ f = Padrao
        BY <1>2, <3>3 DEF Legal, op
      <4>2. CASE resta
        <5>1. discoCa'[Padrao].ini.caminho = discoCa[Padrao].ini.caminho
          BY <1>7, <2>8, <2>9, <4>1, <4>2 DEF c
        <5>2. obraCa'["laco"].op = obraCa["laco"].op /\ Ocupado("laco")' = Ocupado("laco")
          <6>1. obraCa'["laco"].op = op /\ obraCa'["laco"].pc = "ler" /\ obraCa["laco"].op = op
            BY <1>6, <1>10, <4>1, <4>2 DEF op
          <6>2. Ocupado("laco") = TRUE /\ Ocupado("laco")' = TRUE
            BY <1>1, <4>1, <6>1 DEF Ocupado
          <6> QED
            BY <6>1, <6>2
        <5> QED
          BY <3>2, <5>1, <5>2
      <4>3. CASE ~resta
        <5>1. discoCa'[Padrao].ini.caminho = op.novo
          BY <1>7, <2>8, <2>9, <3>3, <4>1, <4>3
        <5>2. ~NoCaminho("laco")'
          BY <1>6, <1>10, <4>1, <4>3, ParadoTipo DEF NoCaminho
        <5>3. op.novo = IF memCa.usado = Padrao THEN "nenhum" ELSE memCa.usado
          BY <1>2, <2>9, <3>3, <4>1 DEF EscolhaFirme, NoCaminho, op
        <5>4. memCa'.usado = memCa.usado
          BY <1>8
        <5>5. CaminhoINIPadrao' = IF op.novo \in Apontaveis THEN op.novo ELSE Padrao
          BY <5>1 DEF CaminhoINIPadrao, LerCaminhoGeral
        <5> QED
          BY <5>2, <5>3, <5>4, <5>5, CadastroAssumption DEF EscolhaFirme
      <4> QED
        BY <4>2, <4>3
    <3>4. CASE op.tipo # "caminho"
      <4>1. discoCa'[Padrao].ini.caminho = discoCa[Padrao].ini.caminho
        <5>1. CASE f = Padrao
          BY <1>7, <2>7, <2>9, <3>4, <5>1 DEF c
        <5>2. CASE f # Padrao
          BY <1>7, <2>9, <3>1, <5>2
        <5> QED
          BY <5>1, <5>2
      <4>2. /\ NoCaminho("laco")' = NoCaminho("laco")
            /\ NoCaminho("laco") => obraCa'["laco"].op = obraCa["laco"].op
        <5>1. CASE q # "laco"
          BY <1>10, <3>1, <5>1 DEF NoCaminho
        <5>2. CASE q = "laco"
          <6>1. obraCa["laco"].op.tipo # "caminho" /\ obraCa'["laco"].op.tipo # "caminho"
            BY <1>6, <1>10, <3>4, <5>2, ParadoTipo DEF op
          <6> QED
            BY <6>1 DEF NoCaminho
        <5> QED
          BY <5>1, <5>2
      <4>3. memCa'.usado = memCa.usado
        BY <1>8
      <4>4. CaminhoINIPadrao' = CaminhoINIPadrao
        BY <4>1 DEF CaminhoINIPadrao, LerCaminhoGeral
      <4> QED
        BY <2>9, <4>2, <4>3, <4>4 DEF EscolhaFirme
    <3> QED
      BY <3>3, <3>4
  <2> QED
    BY <2>10, <2>11, <2>12, <2>13, <2>14 DEF CertoCa
<1> QED
  BY <1>13, <1>14 DEF IndCa

LEMMA RenomearRecusa ==
  ASSUME IndCa, NEW q \in Escritores, Renomear(q)
  PROVE  IndCa'
BY RenomearSemTmp, RenomearPega

(***************************************************************************)
(* The invariant.                                                          *)
(***************************************************************************)
LEMMA InicialTipo ==
  Inicial \in Inis /\ Inicial.estado = "inteiro" /\ Inicial.caminho = "nenhum"
<1> DEFINE exemplo == [ha |-> TRUE, ronly |-> 1, windows |-> 0, extras |-> 1]
           secs == [n \in Nomes |-> IF n = CHOOSE m \in Nomes : TRUE THEN exemplo ELSE Falta]
<1>1. secs \in [Nomes -> Secao]
  <2>1. exemplo \in Secao
    BY DEF Secao
  <2> HIDE DEF exemplo
  <2> QED
    BY <2>1, SecaoNova
<1>2. Inicial = [Vazio EXCEPT !.estado = "inteiro", !.geral = TRUE, !.secs = secs]
  BY DEF Inicial
<1>3. Vazio \in Inis /\ Vazio.caminho = "nenhum"
  BY Constantes DEF Vazio
<1> HIDE DEF secs
<1> QED
  BY <1>1, <1>2, <1>3 DEF Inis, Conteudo, Estados

LEMMA IndCaInicio ==
  ASSUME InitCa PROVE IndCa
<1> DEFINE sem == [Inicial EXCEPT !.geral = FALSE]
<1>1. /\ sem \in Inis /\ sem.estado = "inteiro" /\ Inicial \in Inis /\ Inicial.estado = "inteiro"
      /\ Inicial.caminho = "nenhum" /\ Vazio \in Inis /\ SemTmp \in Tmps
  BY InicialTipo, Constantes DEF Inis, Conteudo
<1> HIDE DEF sem
<1>2. discoCa = [f \in ArquivosCa |-> [ini |-> IF f = Padrao THEN Inicial ELSE sem,
                                       tmp |-> SemTmp, hist |-> <<>>]]
  BY DEF InitCa, sem
<1>3. /\ discoCa \in [ArquivosCa -> [ini : Inis, tmp : Tmps, hist : Seq(Inis)]]
      /\ \A f \in ArquivosCa : /\ discoCa[f].ini \in Inis /\ discoCa[f].ini.estado = "inteiro"
                               /\ discoCa[f].hist = <<>>
  BY <1>1, <1>2
<1>4. /\ obraCa \in [Escritores -> Obras]
      /\ \A q \in Escritores : obraCa[q] = Parado /\ ~Ocupado(q)
  BY ParadoTipo DEF InitCa, Ocupado
<1>5. Padrao \in ArquivosCa /\ "laco" \in Escritores
  BY CadastroAssumption DEF Escritores
<1>6. loteCa \in [ativo : BOOLEAN, arq : ArquivosCa, copiado : BOOLEAN] /\ ~loteCa.ativo
  BY <1>5 DEF InitCa
<1>7. /\ memCa \in [usado : ArquivosCa, inv : [Nomes -> Secao], portal : Caminhos]
      /\ memCa.usado = Padrao
  BY <1>1, <1>5, CarregarTipo DEF InitCa, Caminhos
<1>8. /\ obsCa \in HistoriasCa /\ ~obsCa.cruzou /\ ~obsCa.falhou
      /\ \A f \in ArquivosCa : obsCa.devido[f] = discoCa[f].ini
  <2> DEFINE devido == [f \in ArquivosCa |-> discoCa[f].ini]
             antes == [f \in ArquivosCa |-> Vazio]
  <2>1. /\ devido \in [ArquivosCa -> Inis] /\ antes \in [ArquivosCa -> Inis]
        /\ \A f \in ArquivosCa : devido[f] = discoCa[f].ini
    BY <1>1, <1>3
  <2>2. obsCa = [ops |-> 0, quedas |-> 0, cruzou |-> FALSE, falhou |-> FALSE, volta |-> FALSE,
                 primeira |-> FALSE, devido |-> devido, antes |-> antes]
    BY DEF InitCa
  <2> HIDE DEF devido, antes
  <2> QED
    BY <2>1, <2>2 DEF HistoriasCa
<1>9. FormaCa
  <2>1. \A q \in Escritores : Legal(q, obraCa[q].op)
    BY <1>4, ParadoTipo DEF Legal, DeSecao
  <2>2. dlgCa = SemDlg /\ abasCa = {}
    BY DEF InitCa
  <2> QED
    BY <1>3, <1>4, <1>6, <1>7, <1>8, <2>1, <2>2, SemDlgTipo DEF FormaCa
<1>10. LoteCerto
  BY <1>4, <1>6 DEF LoteCerto
<1>11. Sozinho /\ ObraCerta
  BY <1>4, ParadoTipo DEF Sozinho, ObraCerta
<1>12. DiscoCerto /\ Desfazivel
  BY <1>3, <1>8 DEF DiscoCerto, Desfazivel
<1>13. EscolhaFirme
  <2>1. ~NoCaminho("laco")
    BY <1>4, <1>5 DEF NoCaminho
  <2>2. discoCa[Padrao].ini.caminho = "nenhum"
    BY <1>1, <1>2, <1>5
  <2> QED
    BY <1>7, <2>1, <2>2, CadastroAssumption DEF EscolhaFirme, CaminhoINIPadrao, LerCaminhoGeral
<1> QED
  BY <1>9, <1>10, <1>11, <1>12, <1>13 DEF IndCa, CertoCa

LEMMA IndCaPasso ==
  ASSUME IndCa, [NextCa]_varsCa PROVE IndCa'
<1>1. ASSUME NEW q \in Escritores,
             \/ GuardarCopia(q) \/ Ler(q) \/ AbrirTmp(q) \/ EscreverTmp(q) \/ FalharEscrita(q)
             \/ Renomear(q)
             \/ \E t \in abasCa : Preferencia(q, t)
      PROVE  IndCa'
  BY <1>1, GuardarCopiaRecusa, LerRecusa, AbrirRecusa, EscreverRecusa, FalharEscritaRecusa,
     RenomearRecusa, PreferenciaRecusa, Zenon
<1>2. ASSUME NEW n \in Nomes,
             \/ RemoverConexao(n) \/ AbrirAba(n) \/ SalvarDialogo(n)
             \/ EditarConexao(n) \/ NovaConexao(n)
             \/ \E origem \in Nomes : DuplicarConexao(n, origem)
             \/ \E s \in Sondas, v \in 1..2 : GravarPlataforma(s, n, v)
      PROVE  IndCa'
  BY <1>2, RemoverRecusa, AbrirAbaRecusa, SalvarDialogoRecusa, DialogosRecusam, PlataformaRecusa,
     Zenon
<1>3. ASSUME \/ \E t \in abasCa : FecharAbaCa(t)
             \/ \E f \in ArquivosCa : TrocarArquivo(f)
             \/ LembrarGeral \/ AbrirAjustes \/ TrocarAtalho \/ TrocarAutostart
             \/ CancelarDialogo \/ DetectarPlataforma \/ FimDaDeteccao \/ Recarregar \/ Reiniciar
      PROVE  IndCa'
  BY <1>3, QuietosRecusam, TrocarArquivoRecusa, TemaRecusa, DeteccaoRecusa, ReiniciarRecusa, Zenon
<1>4. ASSUME NEW ok \in BOOLEAN, ResponderPortal(ok)
      PROVE  IndCa'
  <2>1. CASE ok = TRUE
    BY <1>4, <2>1, TemaRecusa
  <2>2. CASE ok = FALSE
    BY <1>4, <2>2, QuietosRecusam
  <2> QED
    BY <2>1, <2>2
<1>5. ASSUME UNCHANGED varsCa
      PROVE  IndCa'
  <2>1. UNCHANGED <<obraCa, discoCa, loteCa, obsCa, memCa, dlgCa, abasCa>>
    BY <1>5 DEF varsCa
  <2>2. FormaCa
    BY DEF IndCa
  <2> QED
    BY <2>1, <2>2, PartesCa, QuietoLaco
<1> QED
  BY <1>1, <1>2, <1>3, <1>4, <1>5, Zenon DEF NextCa

LEMMA IndCaDiz ==
  ASSUME IndCa PROVE TiposCa /\ CadastroInteiro
<1>0. FormaCa
  BY DEF IndCa
<1>1. TiposCa
  <2>1. \A f \in ArquivosCa : /\ discoCa[f].ini.estado \in {"inteiro", "vazio", "misto"}
                              /\ discoCa[f].tmp.estado \in {"inteiro", "vazio", "misto", "sem"}
    <3> SUFFICES ASSUME NEW f \in ArquivosCa
                 PROVE  /\ discoCa[f].ini.estado \in {"inteiro", "vazio", "misto"}
                        /\ discoCa[f].tmp.estado \in {"inteiro", "vazio", "misto", "sem"}
      OBVIOUS
    <3>1. discoCa[f].ini \in Inis /\ discoCa[f].tmp \in Tmps
      BY <1>0, DiscoDe
    <3> QED
      BY <3>1 DEF Inis, Tmps, Conteudo, Estados
  <2>2. \A q \in Escritores :
          obraCa[q].pc \in {"fora", "copia", "ler", "abrir", "escrever", "renomear"}
    BY <1>0, ObraDe DEF Obras
  <2> QED
    BY <1>0, <2>1, <2>2, PartesCa DEF TiposCa
<1>2. ASSUME LimpoCa PROVE IniInteiro /\ Guardado /\ Desfazivel
  <2>1. DiscoCerto /\ Desfazivel
    BY <1>2 DEF IndCa, CertoCa
  <2> QED
    BY <2>1 DEF DiscoCerto, IniInteiro, Guardado
<1>3. ASSUME LimpoCa, LacoLivre, memCa.usado \in Apontaveis
      PROVE  CaminhoINIPadrao = memCa.usado
  <2>1. EscolhaFirme /\ ~NoCaminho("laco")
    BY <1>3 DEF IndCa, CertoCa, LacoLivre, NoCaminho
  <2> QED
    BY <1>3, <2>1 DEF EscolhaFirme
<1> QED
  BY <1>1, <1>2, <1>3 DEF CadastroInteiro, CadastroCerto, EscolhaLembrada, LimpoCa

\* The invariant holds for every set of connections and of files, and every number of
\* operations, of copies kept and of crashes.
THEOREM CadastroInvariante == SpecCa => []IndCa
<1>1. InitCa => IndCa
  BY IndCaInicio
<1>2. IndCa /\ [NextCa]_varsCa => IndCa'
  BY IndCaPasso
<1> QED
  BY <1>1, <1>2, PTL DEF SpecCa

\* The state of the inventory keeps its types (internal/conexoes, internal/iniutil).
THEOREM CadastroTipos == SpecCa => []TiposCa
BY CadastroInvariante, IndCaDiz, PTL

\* While no two operations that share no lock cross and no write fails, and through any
\* number of crashes: the file is whole, has exactly what was acknowledged, the last copy
\* undoes the last operation, and the file chosen in the settings is that of the next
\* start (GravarAtomico, salvarSecao, guardarCopia, CaminhoINIPadrao).
THEOREM CadastroSempreInteiro == SpecCa => []CadastroInteiro
BY CadastroInvariante, IndCaDiz, PTL

-----------------------------------------------------------------------------
(* The secrets. *)

\* What a line of the two files may hold.
Valores == Textos \union {Nada}
GuardadoSe == [k : Int, v : Valores]
Inventarios == [cofre : Nat, seg : [ConexoesSe -> GuardadoSe]]
Chaveiros == [existe : BOOLEAN, cofre : Nat, cred : [Creds -> GuardadoSe]]
Memorias == [aberto : Nat, chav : Chaveiros, arq : Inventarios, inicio : Nat]
DialogosSe == [tipo : {"nenhum", "cofre", "chaveiro"},
               para : {"nada", "abrir", "criar", "trocar"}, cofre : Nat]
HistoriasSe == [trocou : BOOLEAN, importou : BOOLEAN, enviado : GuardadoSe, mudo : BOOLEAN, criou : Nat]

TiposDosSegredos ==
  /\ iniSe \in Inventarios /\ chSe \in Chaveiros /\ memSe \in Memorias
  /\ dlgSe \in DialogosSe /\ obsSe \in HistoriasSe

\* The key of the section that the next start will find; 0 is none.
Chave == ParamsCofre(chSe, iniSe)

\* The Panel's inventory is the one on disk.
InventarioEmDia == memSe.arq = iniSe

\* Where the start read a vault in conexoes.ini, there still is one.
InicioDiz == memSe.inicio > 0 => iniSe.cofre > 0

\* The vault that is open is the one in force, until obsSe.trocou.
CofreEmVigor == obsSe.trocou \/ memSe.aberto \in {0, Chave}

\* The dialog that creates a vault is there only while there is none; the others find
\* a key in the inventory they were given.
DialogoCabe ==
  dlgSe.tipo = "cofre" =>
    IF dlgSe.para = "criar" THEN Chave = 0 ELSE Chave > 0 /\ ChaveDoDialogo > 0

SemArquivo == ~chSe.existe => \A n \in Creds : chSe.cred[n] = Ausente

ClaroGuardado == obsSe.importou \/ \A n \in Creds : chSe.cred[n].k = 0 => chSe.cred[n].v = Nada

InvSe ==
  /\ TiposDosSegredos /\ InventarioEmDia /\ InicioDiz /\ ChaveiroEmDia /\ CofreEmVigor
  /\ DialogoCabe /\ SemArquivo /\ ClaroGuardado /\ SoTrocarPerde /\ AliasNuncaCifrado

-----------------------------------------------------------------------------
(* The operators. *)

LEMMA TiposDosTextos ==
  /\ VazioSe \in GuardadoSe /\ Ausente \in GuardadoSe
  /\ \A k \in Nat, v \in Valores : Cifrar(k, v) \in GuardadoSe /\ Claro(v) \in GuardadoSe
  /\ Senha \in Valores /\ Aliases \subseteq Valores /\ Nada \in Valores
  /\ Senha \notin Aliases
<1>1. Senha \in Valores /\ Aliases \subseteq Valores /\ Nada \in Valores
  BY DEF Valores, Textos
<1>2. Senha \notin Aliases
  BY DEF Aliases, Alias, Senha
<1>3. VazioSe \in GuardadoSe /\ Ausente \in GuardadoSe
  BY <1>1 DEF GuardadoSe, VazioSe, Ausente
<1>4. \A k \in Nat, v \in Valores : Cifrar(k, v) \in GuardadoSe /\ Claro(v) \in GuardadoSe
  BY DEF GuardadoSe, Cifrar, Claro
<1> QED
  BY <1>1, <1>2, <1>3, <1>4

LEMMA TipoDaChave ==
  ASSUME NEW c \in Chaveiros, NEW i \in Inventarios PROVE ParamsCofre(c, i) \in Nat
BY DEF ParamsCofre, Chaveiros, Inventarios

\* What is sent is something a line may hold.
LEMMA TipoDoResolvido ==
  ASSUME memSe \in Memorias, NEW s \in GuardadoSe PROVE Resolver(s) \in GuardadoSe
<1>1. CASE EhAlias(s)
  <2>1. PICK n \in Creds : s.v = Alias(n)
    BY <1>1 DEF EhAlias, Aliases
  <2>2. s.v.n = n
    BY <2>1 DEF Alias
  <2>3. memSe.chav.cred[n] \in GuardadoSe
    BY DEF Memorias, Chaveiros
  <2> QED
    BY <2>2, <2>3 DEF Resolver
<1>2. CASE ~EhAlias(s)
  BY <1>2 DEF Resolver
<1> QED
  BY <1>1, <1>2

LEMMA TipoDoEnviado ==
  ASSUME memSe \in Memorias, NEW s \in GuardadoSe PROVE Segredo(s) \in GuardadoSe
<1>1. ASSUME NEW r \in GuardadoSe PROVE Aberto(r) \in GuardadoSe
  BY DEF Aberto, GuardadoSe
<1>2. Resolver(s) \in GuardadoSe
  BY TipoDoResolvido
<1>3. Aberto(Resolver(s)) \in GuardadoSe
  BY <1>1, <1>2
<1>4. Resolver(Aberto(Resolver(s))) \in GuardadoSe
  BY <1>3, TipoDoResolvido
<1> QED
  BY <1>3, <1>4 DEF Segredo

\* With a key, migrarChaveiro leaves no clear password, and touches nothing else.
LEMMA Migrar ==
  ASSUME NEW c \in Chaveiros, NEW k \in Nat
  PROVE  /\ Migrado(c, k) \in Chaveiros
         /\ Migrado(c, k).cofre = c.cofre /\ Migrado(c, k).existe = c.existe
         /\ \A n \in Creds :
              LET s == Migrado(c, k).cred[n] IN
              /\ s = c.cred[n] \/ s.k = k
              /\ k > 0 /\ s.k = 0 => s.v = Nada
              /\ c.cred[n] = Ausente => s = Ausente
<1> DEFINE f == [n \in Creds |->
             IF c.cred[n] \in {Ausente, VazioSe} \/ Cifrado(c.cred[n]) THEN c.cred[n]
             ELSE Cifrar(k, c.cred[n].v)]
<1>1. ASSUME NEW n \in Creds
      PROVE  /\ f[n] \in GuardadoSe /\ (f[n] = c.cred[n] \/ f[n].k = k)
             /\ k > 0 /\ f[n].k = 0 => f[n].v = Nada
             /\ c.cred[n] = Ausente => f[n] = Ausente
  <2>1. c.cred[n] \in GuardadoSe /\ c.cred[n].v \in Valores
    BY DEF Chaveiros, GuardadoSe
  <2>2. CASE c.cred[n] \in {Ausente, VazioSe} \/ Cifrado(c.cred[n])
    BY <2>1, <2>2 DEF Ausente, VazioSe, Cifrado, GuardadoSe
  <2>3. CASE ~(c.cred[n] \in {Ausente, VazioSe} \/ Cifrado(c.cred[n]))
    BY <2>1, <2>3, TiposDosTextos DEF Cifrar
  <2> QED
    BY <2>2, <2>3
<1>2. Migrado(c, k) = [c EXCEPT !.cred = f]
  BY DEF Migrado
<1>3. f \in [Creds -> GuardadoSe]
  BY <1>1
<1> HIDE DEF f
<1>4. Migrado(c, k) \in Chaveiros /\ Migrado(c, k).cofre = c.cofre
      /\ Migrado(c, k).existe = c.existe /\ Migrado(c, k).cred = f
  BY <1>2, <1>3 DEF Chaveiros
<1> QED
  BY <1>1, <1>4

LEMMA SalvarCred ==
  ASSUME NEW c \in Chaveiros, NEW n \in Creds, NEW s \in GuardadoSe
  PROVE  /\ ComCred(c, n, s) \in Chaveiros
         /\ ComCred(c, n, s).cofre = c.cofre /\ ComCred(c, n, s).existe
         /\ \A m \in Creds : ComCred(c, n, s).cred[m] \in {c.cred[m], s, VazioSe}
<1> DEFINE novo == IF s # VazioSe THEN s ELSE IF c.cred[n] = Ausente THEN VazioSe ELSE c.cred[n]
<1>1. novo \in GuardadoSe /\ novo \in {c.cred[n], s, VazioSe}
  BY TiposDosTextos DEF Chaveiros
<1> DEFINE g == [c.cred EXCEPT ![n] = novo]
<1>2. ComCred(c, n, s) = [c EXCEPT !.existe = TRUE, !.cred = g]
  BY DEF ComCred, Chaveiros
<1> HIDE DEF novo
<1>3. /\ g \in [Creds -> GuardadoSe]
      /\ \A m \in Creds : g[m] \in {c.cred[m], s, VazioSe}
  <2>1. c.cred \in [Creds -> GuardadoSe]
    BY DEF Chaveiros
  <2> QED
    BY <1>1, <2>1
<1> HIDE DEF g
<1>4. /\ ComCred(c, n, s) \in Chaveiros /\ ComCred(c, n, s).cofre = c.cofre
      /\ ComCred(c, n, s).existe /\ ComCred(c, n, s).cred = g
  BY <1>2, <1>3 DEF Chaveiros
<1> QED
  BY <1>3, <1>4

-----------------------------------------------------------------------------
(* What an operation that keeps the key may do. *)

\* What it writes is in clear, or sealed with the vault that is open, or the loss is
\* remembered.
LEMMA ChaveFica ==
  ASSUME InvSe, TiposDosSegredos',
         memSe'.arq = iniSe', memSe'.chav = chSe',
         chSe'.cofre = chSe.cofre, iniSe'.cofre = iniSe.cofre,
         memSe'.inicio \in {memSe.inicio, iniSe.cofre},
         obsSe.trocou => obsSe'.trocou,
         obsSe'.trocou \/ memSe'.aberto \in {0, memSe.aberto, Chave},
         DialogoCabe', SemArquivo', ClaroGuardado',
         \A c \in ConexoesSe : \/ iniSe'.seg[c] = iniSe.seg[c]
                               \/ ~Cifrado(iniSe'.seg[c])
                               \/ /\ iniSe'.seg[c].k = memSe.aberto
                                  /\ iniSe'.seg[c].v \notin Aliases,
         \A n \in Creds : \/ chSe'.cred[n] = chSe.cred[n]
                          \/ ~Cifrado(chSe'.cred[n])
                          \/ chSe'.cred[n].k \in {memSe.aberto, Chave}
                          \/ obsSe'.trocou
  PROVE  InvSe'
<1> USE DEF InvSe
<1>1. Chave' = Chave
  BY DEF Chave, ParamsCofre
<1>2. InventarioEmDia' /\ ChaveiroEmDia' /\ InicioDiz'
  BY DEF InventarioEmDia, ChaveiroEmDia, InicioDiz
<1>3. CofreEmVigor'
  BY <1>1 DEF CofreEmVigor
<1>4. SoTrocarPerde'
  <2>1. SUFFICES ASSUME ~obsSe.trocou, ~obsSe'.trocou PROVE SegredoAbre'
    BY DEF SoTrocarPerde
  <2>2. \A c \in ConexoesSe : Cifrado(iniSe.seg[c]) => iniSe.seg[c].k = Chave
    BY <2>1 DEF SoTrocarPerde, SegredoAbre, Chave
  <2>3. \A n \in Creds : Cifrado(chSe.cred[n]) => chSe.cred[n].k = Chave
    BY <2>1 DEF SoTrocarPerde, SegredoAbre, Chave
  <2>4. memSe.aberto \in {0, Chave}
    BY <2>1 DEF CofreEmVigor
  <2>5. \A c \in ConexoesSe : Cifrado(iniSe'.seg[c]) => iniSe'.seg[c].k = Chave
    BY <2>2, <2>4 DEF Cifrado
  <2>6. \A n \in Creds : Cifrado(chSe'.cred[n]) => chSe'.cred[n].k = Chave
    BY <2>1, <2>3, <2>4 DEF Cifrado
  <2> QED
    BY <1>1, <2>5, <2>6 DEF SegredoAbre, Chave, Cifrado
<1>5. AliasNuncaCifrado'
  BY DEF AliasNuncaCifrado, Cifrado
<1> QED
  BY <1>2, <1>3, <1>4, <1>5

-----------------------------------------------------------------------------
(* Each operation. *)

LEMMA IniciarPreserva == ASSUME InvSe, NEW b \in BOOLEAN, Iniciar(b) PROVE InvSe'
<1> USE DEF InvSe
<1>1. iniSe \in Inventarios /\ chSe \in Chaveiros /\ iniSe' = iniSe /\ Chave \in Nat
  BY TipoDaChave DEF TiposDosSegredos, Iniciar, Chave
<1>2. /\ b => Chave > 0
      /\ chSe' = IF b /\ chSe.existe THEN Migrado(chSe, Chave) ELSE chSe
      /\ memSe' = [aberto |-> IF b THEN Chave ELSE 0, chav |-> chSe', arq |-> iniSe,
                   inicio |-> iniSe.cofre]
      /\ dlgSe' = [tipo |-> "nenhum", para |-> "nada", cofre |-> 0]
      /\ obsSe' = [obsSe EXCEPT !.enviado = VazioSe, !.importou = @ /\ ~b]
  BY <1>1 DEF Iniciar, Chave, Fecha
<1>3. /\ chSe' \in Chaveiros /\ chSe'.cofre = chSe.cofre /\ chSe'.existe = chSe.existe
      /\ \A n \in Creds : /\ chSe'.cred[n] = chSe.cred[n] \/ chSe'.cred[n].k = Chave
                          /\ b /\ chSe.existe /\ chSe'.cred[n].k = 0 => chSe'.cred[n].v = Nada
                          /\ chSe.cred[n] = Ausente => chSe'.cred[n] = Ausente
                          /\ ~b => chSe'.cred[n] = chSe.cred[n]
  <2>1. CASE b /\ chSe.existe
    BY <1>1, <1>2, <2>1, Migrar
  <2>2. CASE ~(b /\ chSe.existe)
    BY <1>1, <1>2, <2>2
  <2> QED
    BY <2>1, <2>2
<1>4. /\ memSe' \in Memorias /\ memSe'.aberto \in {0, Chave}
      /\ memSe'.chav = chSe' /\ memSe'.arq = iniSe /\ memSe'.inicio = iniSe.cofre
  <2>1. (IF b THEN Chave ELSE 0) \in Nat /\ iniSe.cofre \in Nat
    BY <1>1 DEF Inventarios
  <2> QED
    BY <1>1, <1>2, <1>3, <2>1 DEF Memorias
<1>5. /\ obsSe' \in HistoriasSe /\ obsSe'.trocou = obsSe.trocou
      /\ obsSe'.importou = (obsSe.importou /\ ~b)
  <2>1. obsSe \in HistoriasSe /\ (obsSe.importou /\ ~b) \in BOOLEAN
    BY DEF TiposDosSegredos
  <2> QED
    BY <1>2, <2>1, TiposDosTextos DEF HistoriasSe
<1>6. TiposDosSegredos' /\ DialogoCabe'
  BY <1>1, <1>2, <1>3, <1>4, <1>5 DEF TiposDosSegredos, DialogoCabe, DialogosSe
<1>7. SemArquivo'
  BY <1>3 DEF SemArquivo
<1>8. ClaroGuardado'
  <2>1. CASE b
    BY <1>3, <2>1 DEF SemArquivo, Ausente, ClaroGuardado
  <2>2. CASE ~b
    BY <1>3, <1>5, <2>2 DEF ClaroGuardado
  <2> QED
    BY <2>1, <2>2
<1> HIDE DEF InvSe
<1> QED
  BY <1>1, <1>3, <1>4, <1>5, <1>6, <1>7, <1>8, ChaveFica

\* The dialogs that come and go, the padlock, and what is sent.
LEMMA TelaPreserva ==
  ASSUME InvSe, \/ (\E c \in ConexoesSe : Usar(c)) \/ Cadeado \/ QuererTrocar
                \/ FecharDialogoSe \/ AbrirChaveiro
  PROVE  InvSe'
<1> USE DEF InvSe
<1>1. iniSe' = iniSe /\ chSe' = chSe
  BY DEF Usar, Cadeado, QuererTrocar, FecharDialogoSe, AbrirChaveiro
<1>2. /\ memSe' \in Memorias /\ memSe'.chav = chSe /\ memSe'.arq = iniSe
      /\ memSe'.aberto \in {0, memSe.aberto} /\ memSe'.inicio = memSe.inicio
  <2>1. memSe \in Memorias /\ memSe.chav = chSe /\ memSe.arq = iniSe
    BY DEF TiposDosSegredos, ChaveiroEmDia, InventarioEmDia
  <2>2. \/ memSe' = memSe \/ memSe' = [memSe EXCEPT !.aberto = 0]
        \/ memSe' = [memSe EXCEPT !.arq = iniSe] \/ memSe' = [memSe EXCEPT !.chav = chSe]
    BY DEF Usar, Cadeado, QuererTrocar, FecharDialogoSe, AbrirChaveiro
  <2>3. chSe \in Chaveiros /\ iniSe \in Inventarios
    BY DEF TiposDosSegredos
  <2> QED
    BY <2>1, <2>2, <2>3 DEF Memorias
<1>3. /\ obsSe' \in HistoriasSe /\ obsSe'.trocou = obsSe.trocou
      /\ obsSe'.importou = obsSe.importou
  <2>1. obsSe \in HistoriasSe /\ memSe \in Memorias
    BY DEF TiposDosSegredos
  <2>2. CASE obsSe' = obsSe
    BY <2>1, <2>2
  <2>3. CASE \E c \in ConexoesSe : obsSe' = [obsSe EXCEPT !.enviado = Segredo(memSe.arq.seg[c])]
    <3>1. PICK c \in ConexoesSe : obsSe' = [obsSe EXCEPT !.enviado = Segredo(memSe.arq.seg[c])]
      BY <2>3
    <3>2. memSe.arq.seg[c] \in GuardadoSe
      BY <2>1 DEF Memorias, Inventarios
    <3>3. Segredo(memSe.arq.seg[c]) \in GuardadoSe
      BY <2>1, <3>2, TipoDoEnviado
    <3> QED
      BY <2>1, <3>1, <3>3 DEF HistoriasSe
  <2>4. CASE \E m \in BOOLEAN : obsSe' = [obsSe EXCEPT !.mudo = m]
    BY <2>1, <2>4 DEF HistoriasSe
  <2>5. (obsSe.mudo \/ (memSe.aberto = 0)) \in BOOLEAN
    OBVIOUS
  <2> QED
    BY <2>2, <2>3, <2>4, <2>5 DEF Usar, Cadeado, QuererTrocar, FecharDialogoSe, AbrirChaveiro
<1>4. dlgSe' \in DialogosSe
  <2>1. \/ dlgSe' = dlgSe \/ dlgSe' = [dlgSe EXCEPT !.para = "trocar"]
        \/ \E t \in {"nenhum", "cofre", "chaveiro"}, q \in {"nada", "abrir", "criar"},
              k \in {0, memSe.inicio, memSe.arq.cofre} :
             dlgSe' = [tipo |-> t, para |-> q, cofre |-> k]
    BY DEF Usar, Cadeado, QuererTrocar, FecharDialogoSe, AbrirChaveiro, Fecha, PedirCofre
  <2>2. memSe.inicio \in Nat /\ memSe.arq.cofre \in Nat
    BY DEF TiposDosSegredos, Memorias, Inventarios
  <2> QED
    BY <2>1, <2>2 DEF TiposDosSegredos, DialogosSe
<1>5. DialogoCabe'
  <2>1. Chave' = Chave /\ Chave \in Nat
    BY <1>1, TipoDaChave DEF Chave, TiposDosSegredos
  <2>2. \/ dlgSe' = dlgSe
        \/ /\ dlgSe.tipo = "cofre" /\ dlgSe.para = "abrir" /\ dlgSe'.para = "trocar"
           /\ dlgSe'.cofre = dlgSe.cofre
        \/ dlgSe'.tipo # "cofre"
        \/ dlgSe'.para = "abrir" /\ Chave > 0 /\ dlgSe'.cofre = memSe.arq.cofre
        \/ dlgSe'.para = "criar" /\ ~(Chave > 0)
        \/ dlgSe'.para = "abrir" /\ memSe.inicio > 0 /\ dlgSe'.cofre = memSe.inicio
    BY DEF Usar, Cadeado, QuererTrocar, FecharDialogoSe, AbrirChaveiro, Fecha, PedirCofre, TemCofre,
           Chave, ChaveiroEmDia, InventarioEmDia, TiposDosSegredos, DialogosSe
  <2>3. memSe.inicio > 0 => Chave > 0
    BY <1>1 DEF Chave, ParamsCofre, InicioDiz, TiposDosSegredos, Chaveiros
  <2>4. memSe.chav = chSe /\ memSe'.chav = chSe /\ memSe.arq = iniSe /\ chSe.cofre \in Nat
    BY <1>2 DEF ChaveiroEmDia, InventarioEmDia, TiposDosSegredos, Chaveiros
  <2>5. dlgSe'.cofre = dlgSe.cofre => ChaveDoDialogo' = ChaveDoDialogo
    BY <2>4 DEF ChaveDoDialogo, ParamsCofre
  <2>6. dlgSe'.cofre = memSe.arq.cofre => ChaveDoDialogo' = Chave
    BY <2>4 DEF ChaveDoDialogo, ParamsCofre, Chave
  <2>7. dlgSe'.cofre = memSe.inicio /\ memSe.inicio > 0 => ChaveDoDialogo' > 0
    BY <2>4 DEF ChaveDoDialogo, ParamsCofre
  <2> QED
    BY <2>1, <2>2, <2>3, <2>5, <2>6, <2>7 DEF DialogoCabe
<1>6. TiposDosSegredos' /\ SemArquivo' /\ ClaroGuardado'
  BY <1>1, <1>2, <1>3, <1>4 DEF TiposDosSegredos, SemArquivo, ClaroGuardado
<1> HIDE DEF InvSe
<1> QED
  BY <1>1, <1>2, <1>3, <1>5, <1>6, ChaveFica

\* The key of the section the dialog was given; when it is not the one in force, the
\* loss is remembered.
LEMMA DestrancarPreserva == ASSUME InvSe, Destrancar PROVE InvSe'
<1> DEFINE k == ChaveDoDialogo
<1>1. /\ iniSe \in Inventarios /\ chSe \in Chaveiros /\ iniSe' = iniSe
      /\ memSe \in Memorias /\ dlgSe \in DialogosSe /\ obsSe \in HistoriasSe
      /\ memSe.arq = iniSe /\ memSe.chav = chSe /\ DialogoCabe
  BY DEF InvSe, TiposDosSegredos, Destrancar, InventarioEmDia, ChaveiroEmDia
<1>2. /\ dlgSe.tipo = "cofre" /\ dlgSe.para = "abrir"
      /\ chSe' = IF chSe.existe THEN Migrado(chSe, k) ELSE chSe
      /\ memSe' = [memSe EXCEPT !.aberto = k, !.chav = chSe']
      /\ dlgSe' = [tipo |-> "nenhum", para |-> "nada", cofre |-> 0]
      /\ obsSe' = [obsSe EXCEPT !.importou = FALSE, !.trocou = @ \/ k # Chave]
  BY <1>1 DEF Destrancar, Chave, Fecha
<1>3. k > 0 /\ k \in Nat
  <2>1. k > 0
    BY <1>1, <1>2 DEF DialogoCabe
  <2>2. k \in Nat
    BY <1>1 DEF ChaveDoDialogo, ParamsCofre, Chaveiros, DialogosSe
  <2> QED
    BY <2>1, <2>2
<1> HIDE DEF k
<1>4. /\ chSe' \in Chaveiros /\ chSe'.cofre = chSe.cofre /\ chSe'.existe = chSe.existe
      /\ \A n \in Creds : /\ chSe'.cred[n] = chSe.cred[n] \/ chSe'.cred[n].k = k
                          /\ chSe.existe /\ chSe'.cred[n].k = 0 => chSe'.cred[n].v = Nada
                          /\ chSe.cred[n] = Ausente => chSe'.cred[n] = Ausente
  <2>1. CASE chSe.existe
    <3>1. chSe' = Migrado(chSe, k)
      BY <1>2, <2>1
    <3>2. /\ Migrado(chSe, k) \in Chaveiros
          /\ Migrado(chSe, k).cofre = chSe.cofre /\ Migrado(chSe, k).existe = chSe.existe
          /\ \A n \in Creds :
               /\ Migrado(chSe, k).cred[n] = chSe.cred[n] \/ Migrado(chSe, k).cred[n].k = k
               /\ Migrado(chSe, k).cred[n].k = 0 => Migrado(chSe, k).cred[n].v = Nada
               /\ chSe.cred[n] = Ausente => Migrado(chSe, k).cred[n] = Ausente
      BY <1>1, <1>3, Migrar
    <3> QED
      BY <3>1, <3>2
  <2>2. CASE ~chSe.existe
    BY <1>1, <1>2, <2>2
  <2> QED
    BY <2>1, <2>2
<1>5. /\ memSe' \in Memorias /\ memSe'.aberto = k /\ memSe'.chav = chSe' /\ memSe'.arq = iniSe
      /\ memSe'.inicio = memSe.inicio
  BY <1>1, <1>2, <1>3, <1>4 DEF Memorias
<1>6. obsSe' \in HistoriasSe /\ obsSe'.trocou = (obsSe.trocou \/ k # Chave)
  <2>1. (obsSe.trocou \/ k # Chave) \in BOOLEAN /\ obsSe.trocou \in BOOLEAN
    BY <1>1 DEF HistoriasSe
  <2> QED
    BY <1>1, <1>2, <2>1 DEF HistoriasSe
<1>7. TiposDosSegredos' /\ DialogoCabe'
  BY <1>1, <1>2, <1>4, <1>5, <1>6 DEF TiposDosSegredos, DialogoCabe, DialogosSe
<1>8. SemArquivo' /\ ClaroGuardado'
  BY <1>4 DEF InvSe, SemArquivo, ClaroGuardado, Ausente
<1> QED
  BY <1>1, <1>4, <1>5, <1>6, <1>7, <1>8, ChaveFica

\* The dialog of the keyring: it is on screen, and the files keep their keys.
LEMMA NoChaveiroPreserva ==
  ASSUME InvSe, NEW ch \in Chaveiros, NoChaveiro(ch), ch.cofre = chSe.cofre,
         obsSe' \in HistoriasSe, obsSe'.trocou = obsSe.trocou,
         ch.existe \/ \A n \in Creds : ch.cred[n] = Ausente,
         obsSe'.importou \/ obsSe'.importou = obsSe.importou,
         \A n \in Creds : \/ ch.cred[n] = chSe.cred[n]
                          \/ ch.cred[n] \in {Ausente, VazioSe}
                          \/ ~Cifrado(ch.cred[n]) /\ obsSe'.importou
                          \/ ch.cred[n].k = memSe.aberto /\ memSe.aberto > 0
  PROVE  InvSe'
<1> USE DEF InvSe
<1>1. /\ chSe' = ch /\ memSe' = [memSe EXCEPT !.chav = ch] /\ iniSe' = iniSe /\ dlgSe' = dlgSe
      /\ dlgSe.tipo = "chaveiro"
  BY DEF NoChaveiro
<1>2. memSe \in Memorias /\ iniSe \in Inventarios /\ dlgSe \in DialogosSe
  BY DEF TiposDosSegredos
<1>3. /\ memSe' \in Memorias /\ memSe'.aberto = memSe.aberto /\ memSe'.chav = ch
      /\ memSe'.arq = iniSe /\ memSe'.inicio = memSe.inicio
  BY <1>1, <1>2 DEF Memorias, InventarioEmDia
<1>4. TiposDosSegredos' /\ DialogoCabe' /\ SemArquivo'
  BY <1>1, <1>2, <1>3 DEF TiposDosSegredos, DialogoCabe, SemArquivo
<1>5. ClaroGuardado'
  BY <1>1 DEF ClaroGuardado, Ausente, VazioSe
<1>6. \A n \in Creds : \/ chSe'.cred[n] = chSe.cred[n] \/ ~Cifrado(chSe'.cred[n])
                       \/ chSe'.cred[n].k \in {memSe.aberto, Chave}
  BY <1>1 DEF Ausente, VazioSe, Cifrado
<1> HIDE DEF InvSe
<1> QED
  BY <1>1, <1>3, <1>4, <1>5, <1>6, ChaveFica

LEMMA CredencialPreserva ==
  ASSUME InvSe, NEW n \in Creds, RemoverCredencial(n) \/ \E d \in BOOLEAN : SalvarCredencial(n, d)
  PROVE  InvSe'
<1>1. chSe \in Chaveiros /\ obsSe' = obsSe /\ obsSe \in HistoriasSe /\ memSe \in Memorias
  BY DEF InvSe, TiposDosSegredos, RemoverCredencial, SalvarCredencial
<1>2. CASE RemoverCredencial(n)
  <2> DEFINE ch == SemCred(chSe, n)
  <2>1. NoChaveiro(ch)
    BY <1>2 DEF RemoverCredencial
  <2>2. /\ ch \in Chaveiros /\ ch.cofre = chSe.cofre /\ ch.existe = chSe.existe
        /\ \A m \in Creds : ch.cred[m] \in {chSe.cred[m], Ausente}
    BY <1>1, TiposDosTextos DEF SemCred, Chaveiros
  <2>3. ch.existe \/ \A m \in Creds : ch.cred[m] = Ausente
    BY <2>2 DEF InvSe, SemArquivo
  <2> HIDE DEF ch
  <2> QED
    BY <1>1, <2>1, <2>2, <2>3, NoChaveiroPreserva
<1>3. CASE \E d \in BOOLEAN : SalvarCredencial(n, d)
  <2>1. PICK d \in BOOLEAN : SalvarCredencial(n, d)
    BY <1>3
  <2> DEFINE s == IF d THEN Cifrar(memSe.aberto, Senha) ELSE VazioSe
             ch == ComCred(chSe, n, s)
  <2>2. NoChaveiro(ch) /\ (d => memSe.aberto > 0)
    BY <2>1 DEF SalvarCredencial
  <2>3. s \in GuardadoSe /\ (s = VazioSe \/ (s.k = memSe.aberto /\ memSe.aberto > 0))
    <3>1. memSe.aberto \in Nat
      BY <1>1 DEF Memorias
    <3>2. CASE d
      <4>1. s = Cifrar(memSe.aberto, Senha) /\ memSe.aberto > 0
        BY <2>2, <3>2
      <4>2. s \in GuardadoSe
        BY <3>1, <4>1, TiposDosTextos
      <4>3. s.k = memSe.aberto
        BY <4>1 DEF Cifrar
      <4> QED
        BY <4>1, <4>2, <4>3
    <3>3. CASE ~d
      <4>1. s = VazioSe
        BY <3>3
      <4> HIDE DEF s
      <4> QED
        BY <4>1, TiposDosTextos
    <3> QED
      BY <3>2, <3>3
  <2> HIDE DEF s
  <2>4. /\ ch \in Chaveiros /\ ch.cofre = chSe.cofre /\ ch.existe
        /\ \A m \in Creds : ch.cred[m] \in {chSe.cred[m], s, VazioSe}
    BY <1>1, <2>3, SalvarCred
  <2> HIDE DEF ch
  <2> QED
    BY <1>1, <2>2, <2>3, <2>4, NoChaveiroPreserva
<1> QED
  BY <1>2, <1>3

\* What is imported goes in clear, and is remembered.
LEMMA ImportarPreserva == ASSUME InvSe, Importar PROVE InvSe'
<1>1. /\ chSe \in Chaveiros /\ iniSe \in Inventarios /\ obsSe \in HistoriasSe
      /\ obsSe' = [obsSe EXCEPT !.importou = TRUE]
  BY DEF InvSe, TiposDosSegredos, Importar
<1>2. obsSe' \in HistoriasSe /\ obsSe'.trocou = obsSe.trocou /\ obsSe'.importou
  BY <1>1 DEF HistoriasSe
<1>3. PICK s \in Repetidas : NoChaveiro(ComCred(chSe, Usuario, s))
  BY DEF Importar
<1>4. s \in GuardadoSe /\ ~Cifrado(s)
  BY <1>1 DEF Repetidas, Inventarios
<1> DEFINE ch == ComCred(chSe, Usuario, s)
<1>5. /\ ch \in Chaveiros /\ ch.cofre = chSe.cofre /\ ch.existe
      /\ \A m \in Creds : ch.cred[m] \in {chSe.cred[m], s, VazioSe}
  BY <1>1, <1>4, SegredosAssumption, SalvarCred
<1>6. NoChaveiro(ch)
  BY <1>3
<1> HIDE DEF ch
<1> QED
  BY <1>2, <1>4, <1>5, <1>6, NoChaveiroPreserva

\* A line of the inventory: an alias, a clear password, or one sealed with the open vault.
LEMMA ConexaoPreserva ==
  ASSUME InvSe, NEW c \in ConexoesSe, NEW v \in Textos, SalvarConexao(c, v) PROVE InvSe'
<1> USE DEF InvSe
<1> DEFINE s == SenhaASalvar(v)
<1>1. /\ iniSe \in Inventarios /\ memSe \in Memorias /\ chSe' = chSe /\ dlgSe' = dlgSe
      /\ obsSe' = obsSe /\ memSe' = [memSe EXCEPT !.arq = iniSe'] /\ dlgSe.tipo = "nenhum"
      /\ iniSe' = [iniSe EXCEPT !.seg = [iniSe.seg EXCEPT ![c] = s]]
  BY DEF TiposDosSegredos, SalvarConexao, SemDialogoSe, Inventarios
<1>2. s \in GuardadoSe /\ (~Cifrado(s) \/ (s.k = memSe.aberto /\ s.v \notin Aliases))
  <2>1. v \in Valores /\ memSe.aberto \in Nat
    BY <1>1 DEF Valores, Memorias
  <2>2. CASE v \in Aliases \/ memSe.aberto = 0
    <3>1. s = Claro(v)
      BY <2>2 DEF SenhaASalvar
    <3>2. s \in GuardadoSe
      BY <2>1, <3>1, TiposDosTextos
    <3> HIDE DEF s
    <3>3. ~Cifrado(s)
      BY <3>1 DEF Claro, Cifrado
    <3> QED
      BY <3>2, <3>3
  <2>3. CASE ~(v \in Aliases \/ memSe.aberto = 0)
    BY <2>1, <2>3, TiposDosTextos DEF SenhaASalvar, Cifrar
  <2> QED
    BY <2>2, <2>3
<1> HIDE DEF s
<1>3. /\ iniSe' \in Inventarios /\ iniSe'.cofre = iniSe.cofre
      /\ \A d \in ConexoesSe : iniSe'.seg[d] \in {iniSe.seg[d], s}
  BY <1>1, <1>2 DEF Inventarios
<1>4. /\ memSe' \in Memorias /\ memSe'.aberto = memSe.aberto /\ memSe'.inicio = memSe.inicio
      /\ memSe'.chav = chSe /\ memSe'.arq = iniSe'
  BY <1>1, <1>3 DEF Memorias, ChaveiroEmDia
<1>5. TiposDosSegredos' /\ DialogoCabe' /\ SemArquivo' /\ ClaroGuardado'
  BY <1>1, <1>3, <1>4 DEF TiposDosSegredos, DialogoCabe, SemArquivo, ClaroGuardado
<1> HIDE DEF InvSe
<1> QED
  BY <1>1, <1>2, <1>3, <1>4, <1>5, ChaveFica

\* A vault is created where there is none: nothing is sealed yet.
LEMMA CriarPreserva == ASSUME InvSe, Criar PROVE InvSe'
<1> USE DEF InvSe
<1> DEFINE k == ChaveNova
<1>1. /\ iniSe' = iniSe /\ chSe' = [chSe EXCEPT !.existe = TRUE, !.cofre = k]
      /\ memSe' = [memSe EXCEPT !.chav = chSe', !.aberto = k]
      /\ obsSe' = [obsSe EXCEPT !.criou = k]
      /\ dlgSe' = [tipo |-> "nenhum", para |-> "nada", cofre |-> 0]
      /\ dlgSe.tipo = "cofre" /\ dlgSe.para = "criar"
  BY DEF Criar, GravarCofre, Fecha
<1>2. /\ iniSe \in Inventarios /\ chSe \in Chaveiros /\ memSe \in Memorias /\ obsSe \in HistoriasSe
      /\ memSe.arq = iniSe
  BY DEF TiposDosSegredos, InventarioEmDia
<1>3. k \in Nat /\ k > 0
  BY <1>2 DEF ChaveNova, HistoriasSe
<1> HIDE DEF k
<1>4. chSe' \in Chaveiros /\ chSe'.cofre = k /\ chSe'.existe /\ chSe'.cred = chSe.cred
  BY <1>1, <1>2, <1>3 DEF Chaveiros
<1>5. /\ memSe' \in Memorias /\ memSe'.aberto = k /\ memSe'.chav = chSe' /\ memSe'.arq = iniSe
      /\ memSe'.inicio = memSe.inicio
  BY <1>1, <1>2, <1>3, <1>4 DEF Memorias
<1>6. obsSe' \in HistoriasSe /\ obsSe'.trocou = obsSe.trocou /\ obsSe'.importou = obsSe.importou
  BY <1>1, <1>2, <1>3 DEF HistoriasSe
<1>7. TiposDosSegredos' /\ InventarioEmDia' /\ InicioDiz' /\ ChaveiroEmDia' /\ DialogoCabe'
  BY <1>1, <1>2, <1>4, <1>5, <1>6
  DEF TiposDosSegredos, InventarioEmDia, InicioDiz, ChaveiroEmDia, DialogoCabe, DialogosSe
<1>8. Chave' = k
  BY <1>3, <1>4 DEF Chave, ParamsCofre
<1>9. CofreEmVigor' /\ SemArquivo' /\ ClaroGuardado'
  BY <1>4, <1>5, <1>6, <1>8 DEF CofreEmVigor, SemArquivo, ClaroGuardado
<1>10. SoTrocarPerde'
  <2>1. SUFFICES ASSUME ~obsSe.trocou PROVE SegredoAbre'
    BY <1>6 DEF SoTrocarPerde
  <2>2. Chave = 0
    BY <1>1 DEF DialogoCabe
  <2>3. /\ \A c \in ConexoesSe : ~Cifrado(iniSe.seg[c])
        /\ \A n \in Creds : ~Cifrado(chSe.cred[n])
    BY <2>1, <2>2 DEF SoTrocarPerde, SegredoAbre, Chave, Cifrado
  <2> QED
    BY <1>1, <1>4, <2>3 DEF SegredoAbre, Cifrado
<1>11. AliasNuncaCifrado'
  BY <1>1 DEF AliasNuncaCifrado, Cifrado
<1> QED
  BY <1>7, <1>9, <1>10, <1>11

\* The change of the master password seals every line of conexoes.ini again; when it
\* leaves something in the keyring, it is remembered.
LEMMA TrocarPreserva == ASSUME InvSe, TrocarSe PROVE InvSe'
<1> USE DEF InvSe
<1> DEFINE velha == ChaveDoDialogo
           k == ChaveNova
           novo == RecifraTudo(velha, k)
<1>1. CASE UNCHANGED <<iniSe, memSe, dlgSe, obsSe>>
  <2>1. UNCHANGED varsSe
    BY <1>1 DEF TrocarSe, varsSe
  <2> QED
    BY <2>1 DEF varsSe, TiposDosSegredos, InventarioEmDia, InicioDiz, ChaveiroEmDia, ChaveDoDialogo, CofreEmVigor, DialogoCabe,
                SemArquivo, ClaroGuardado, SoTrocarPerde, SegredoAbre, AliasNuncaCifrado, Chave, Cifrado
<1>2. CASE ~UNCHANGED <<iniSe, memSe, dlgSe, obsSe>>
  <2>1. /\ chSe' = chSe /\ iniSe' = novo
        /\ memSe' = [memSe EXCEPT !.aberto = k, !.arq = iniSe']
        /\ obsSe' = [obsSe EXCEPT !.criou = k, !.trocou = @ \/ DeixaNoChaveiro]
        /\ dlgSe' = [tipo |-> "nenhum", para |-> "nada", cofre |-> 0]
        /\ dlgSe.tipo = "cofre" /\ dlgSe.para = "trocar"
    BY <1>2 DEF TrocarSe, Fecha
  <2>2. /\ iniSe \in Inventarios /\ chSe \in Chaveiros /\ memSe \in Memorias /\ obsSe \in HistoriasSe
        /\ memSe.chav = chSe
    BY DEF TiposDosSegredos, ChaveiroEmDia
  <2>3. k \in Nat /\ k > 0
    BY <2>2 DEF ChaveNova, HistoriasSe
  <2> HIDE DEF k, velha
  <2>4. /\ novo \in Inventarios
        /\ \A c \in ConexoesSe : \/ novo.seg[c] = iniSe.seg[c]
                                 \/ Cifrado(iniSe.seg[c]) /\ novo.seg[c].v = iniSe.seg[c].v
        /\ \A c \in ConexoesSe : Cifrado(novo.seg[c]) => novo.seg[c].k = k
        /\ iniSe.cofre > 0 => novo.cofre = k
    <3>1. \A c \in ConexoesSe : iniSe.seg[c] \in GuardadoSe /\ iniSe.seg[c].v \in Valores
      BY <2>2 DEF Inventarios, GuardadoSe
    <3> DEFINE de(c) == IF Cifrado(iniSe.seg[c]) THEN Cifrar(k, iniSe.seg[c].v) ELSE iniSe.seg[c]
               seg == [c \in ConexoesSe |-> de(c)]
    <3>2. \A c \in ConexoesSe : de(c) \in GuardadoSe
      BY <2>3, <3>1, TiposDosTextos
    <3>3. \A c \in ConexoesSe : \/ de(c) = iniSe.seg[c]
                                \/ Cifrado(iniSe.seg[c]) /\ de(c).v = iniSe.seg[c].v
      BY DEF Cifrar
    <3>4. \A c \in ConexoesSe : Cifrado(de(c)) => de(c).k = k
      BY DEF Cifrar
    <3>5. novo = [cofre |-> IF iniSe.cofre > 0 THEN k ELSE 0, seg |-> seg]
      BY DEF RecifraTudo
    <3>6. (IF iniSe.cofre > 0 THEN k ELSE 0) \in Nat
      BY <2>3
    <3> HIDE DEF novo, de
    <3>7. seg \in [ConexoesSe -> GuardadoSe] /\ \A c \in ConexoesSe : seg[c] = de(c)
      BY <3>2
    <3> HIDE DEF seg
    <3>8. novo \in Inventarios /\ novo.seg = seg /\ (iniSe.cofre > 0 => novo.cofre = k)
      BY <3>5, <3>6, <3>7 DEF Inventarios
    <3> QED
      BY <3>3, <3>4, <3>7, <3>8
  <2> HIDE DEF novo
  <2>5. /\ memSe' \in Memorias /\ memSe'.chav = chSe /\ memSe'.arq = iniSe'
        /\ memSe'.aberto = k /\ memSe'.inicio = memSe.inicio
    BY <2>1, <2>2, <2>3, <2>4 DEF Memorias
  <2>6. /\ obsSe' \in HistoriasSe /\ obsSe'.importou = obsSe.importou
        /\ obsSe'.trocou = (obsSe.trocou \/ DeixaNoChaveiro)
    <3>1. (obsSe.trocou \/ DeixaNoChaveiro) \in BOOLEAN /\ obsSe.trocou \in BOOLEAN
      BY <2>2 DEF HistoriasSe
    <3> QED
      BY <2>1, <2>2, <2>3, <3>1 DEF HistoriasSe
  <2>7. TiposDosSegredos' /\ InventarioEmDia' /\ InicioDiz' /\ ChaveiroEmDia' /\ DialogoCabe'
    <3>1. InicioDiz'
      BY <2>1, <2>3, <2>4, <2>5 DEF InicioDiz
    <3> QED
      BY <2>1, <2>2, <2>4, <2>5, <2>6, <3>1
      DEF TiposDosSegredos, InventarioEmDia, ChaveiroEmDia, DialogoCabe, DialogosSe
  <2>8. SemArquivo' /\ ClaroGuardado'
    BY <2>1, <2>6 DEF SemArquivo, ClaroGuardado
  <2>10. CofreEmVigor' /\ SoTrocarPerde'
    <3>1. SUFFICES ASSUME ~obsSe'.trocou PROVE memSe'.aberto = Chave' /\ SegredoAbre'
      BY DEF CofreEmVigor, SoTrocarPerde
    <3>2. chSe.cofre = 0 /\ \A n \in Creds : ~Cifrado(chSe.cred[n])
      <4>1. ~DeixaNoChaveiro
        BY <2>6, <3>1, Zenon
      <4> QED
        BY <2>2, <4>1 DEF DeixaNoChaveiro, Chaveiros
    <3>3. iniSe.cofre > 0
      BY <2>1, <3>2 DEF DialogoCabe, Chave, ParamsCofre
    <3>4. Chave' = k
      BY <2>1, <2>4, <3>2, <3>3 DEF Chave, ParamsCofre
    <3> QED
      BY <2>1, <2>4, <2>5, <3>2, <3>4 DEF SegredoAbre, Chave, Cifrado
  <2>9. AliasNuncaCifrado'
    BY <2>1, <2>4 DEF AliasNuncaCifrado, Cifrado
  <2> QED
    BY <2>7, <2>8, <2>9, <2>10
<1> QED
  BY <1>1, <1>2

-----------------------------------------------------------------------------
LEMMA IniciaInvSe == InitSe => InvSe
<1> SUFFICES ASSUME InitSe PROVE InvSe
  OBVIOUS
<1>1. PICK inst \in Instalacoes :
        /\ iniSe = [cofre |-> IF inst = "antiga" THEN 1 ELSE 0,
                    seg |-> [c \in ConexoesSe |->
                               IF inst = "nova" THEN Claro(Senha)
                               ELSE Cifrar(1, IF Dano THEN Alias(Usuario) ELSE Senha)]]
        /\ chSe = [existe |-> inst = "atual", cofre |-> IF inst = "atual" THEN 1 ELSE 0,
                   cred |-> [n \in Creds |-> Ausente]]
  BY DEF InitSe
<1>2. /\ memSe = [aberto |-> 0, chav |-> chSe, arq |-> iniSe, inicio |-> iniSe.cofre]
      /\ dlgSe = [tipo |-> "nenhum", para |-> "nada", cofre |-> 0]
      /\ obsSe = [trocou |-> FALSE, importou |-> FALSE, enviado |-> VazioSe, mudo |-> FALSE,
                  criou |-> 1]
  BY DEF InitSe, Fecha
<1> DEFINE v == IF Dano THEN Alias(Usuario) ELSE Senha
           s == IF inst = "nova" THEN Claro(Senha) ELSE Cifrar(1, v)
<1>3. v \in Valores /\ (Dano \/ v \notin Aliases)
  BY TiposDosTextos, SegredosAssumption DEF Aliases
<1> HIDE DEF v
<1>4. s \in GuardadoSe /\ (s.k = IF inst = "nova" THEN 0 ELSE 1) /\ (Cifrado(s) => s.v = v)
  <2>1. CASE inst = "nova"
    <3>1. Claro(Senha) \in GuardadoSe
      BY TiposDosTextos
    <3> QED
      BY <2>1, <3>1 DEF Claro, Cifrado
  <2>2. CASE inst # "nova"
    <3>1. Cifrar(1, v) \in GuardadoSe
      BY <1>3, TiposDosTextos
    <3> QED
      BY <2>2, <3>1 DEF Cifrar
  <2> QED
    BY <2>1, <2>2
<1>5. iniSe = [cofre |-> IF inst = "antiga" THEN 1 ELSE 0, seg |-> [c \in ConexoesSe |-> s]]
  BY <1>1 DEF v
<1> HIDE DEF s
<1>6. iniSe \in Inventarios /\ \A c \in ConexoesSe : iniSe.seg[c] = s
  BY <1>4, <1>5 DEF Inventarios
<1>7. chSe \in Chaveiros /\ \A n \in Creds : chSe.cred[n] = Ausente
  BY <1>1, TiposDosTextos DEF Chaveiros
<1>8. Chave = IF inst = "nova" THEN 0 ELSE 1
  BY <1>1, <1>5 DEF Chave, ParamsCofre, Instalacoes
<1>9. TiposDosSegredos
  <2>1. iniSe.cofre \in Nat
    BY <1>6 DEF Inventarios
  <2> QED
    BY <1>2, <1>6, <1>7, <2>1, TiposDosTextos
    DEF TiposDosSegredos, Memorias, DialogosSe, HistoriasSe
<1>10. InventarioEmDia /\ InicioDiz /\ ChaveiroEmDia /\ CofreEmVigor /\ DialogoCabe /\ SemArquivo /\ ClaroGuardado
  BY <1>2, <1>7 DEF InventarioEmDia, InicioDiz, ChaveiroEmDia, CofreEmVigor, DialogoCabe, SemArquivo,
                    ClaroGuardado, Ausente
<1>11. SoTrocarPerde
  BY <1>4, <1>6, <1>7, <1>8 DEF SoTrocarPerde, SegredoAbre, Chave, Cifrado, Ausente
<1>12. AliasNuncaCifrado
  BY <1>3, <1>4, <1>6 DEF AliasNuncaCifrado
<1> QED
  BY <1>9, <1>10, <1>11, <1>12 DEF InvSe

LEMMA PassoSe == InvSe /\ [NextSe]_varsSe => InvSe'
<1> SUFFICES ASSUME InvSe, [NextSe]_varsSe PROVE InvSe'
  OBVIOUS
<1>1. CASE UNCHANGED varsSe
  BY <1>1 DEF varsSe, InvSe, TiposDosSegredos, InventarioEmDia, InicioDiz, ChaveDoDialogo, ChaveiroEmDia, CofreEmVigor, DialogoCabe,
              SemArquivo, ClaroGuardado, SoTrocarPerde, SegredoAbre, AliasNuncaCifrado, Chave, Cifrado
<1>2. CASE \E b \in BOOLEAN : Iniciar(b)
  BY <1>2, IniciarPreserva
<1>3. CASE \E c \in ConexoesSe : Usar(c) \/ \E v \in Textos : SalvarConexao(c, v)
  BY <1>3, TelaPreserva, ConexaoPreserva
<1>4. CASE Cadeado \/ QuererTrocar \/ FecharDialogoSe \/ AbrirChaveiro
  BY <1>4, TelaPreserva
<1>5. CASE Criar \/ Destrancar \/ TrocarSe \/ Importar
  BY <1>5, CriarPreserva, DestrancarPreserva, TrocarPreserva, ImportarPreserva
<1>6. CASE \E n \in Creds : RemoverCredencial(n) \/ \E d \in BOOLEAN : SalvarCredencial(n, d)
  BY <1>6, CredencialPreserva
<1> QED
  BY <1>1, <1>2, <1>3, <1>4, <1>5, <1>6 DEF NextSe

LEMMA InvSeBasta == InvSe => SegredosCertos
BY DEF InvSe, SegredosCertos, ClaroGuardado, ClaroSoImportado

-----------------------------------------------------------------------------
(* The types, with no key beyond the ones created. *)

LEMMA Lacrados ==
  /\ VazioSe \in Segs /\ Ausente \in Segs
  /\ \A k \in 0..MaxChaves, v \in Valores : Cifrar(k, v) \in Segs
  /\ \A v \in Valores : Claro(v) \in Segs
  /\ \A s \in Segs : s # Ausente => s.v \in Valores
<1>1. 0 \in 0..MaxChaves
  BY SegredosAssumption
<1>2. Nada \in Valores
  BY DEF Valores
<1>3. \A k \in 0..MaxChaves, v \in Valores : [k |-> k, v |-> v] \in Segs
  BY DEF Segs, Valores
<1>4. VazioSe \in Segs /\ Ausente \in Segs
  BY <1>1, <1>2, <1>3 DEF VazioSe, Segs
<1>5. \A s \in Segs : s # Ausente => s.v \in Valores
  BY DEF Segs, Valores
<1> QED
  BY <1>1, <1>3, <1>4, <1>5 DEF Cifrar, Claro

LEMMA MigrarLacra ==
  ASSUME NEW c \in Chaveiros, c.cred \in [Creds -> Segs], NEW k \in 0..MaxChaves
  PROVE  Migrado(c, k).cred \in [Creds -> Segs] /\ Migrado(c, k).cofre = c.cofre
<1> DEFINE g == [n \in Creds |-> IF c.cred[n] \in {Ausente, VazioSe} \/ Cifrado(c.cred[n])
                               THEN c.cred[n] ELSE Cifrar(k, c.cred[n].v)]
<1>1. Migrado(c, k) = [c EXCEPT !.cred = g]
  BY DEF Migrado, Chaveiros
<1>2. ASSUME NEW n \in Creds PROVE g[n] \in Segs
  <2>1. c.cred[n] \in Segs
    OBVIOUS
  <2>2. c.cred[n] # Ausente => Cifrar(k, c.cred[n].v) \in Segs
    BY <2>1, Lacrados
  <2> QED
    BY <2>1, <2>2
<1>3. g \in [Creds -> Segs]
  BY <1>2
<1> HIDE DEF g
<1> QED
  BY <1>1, <1>3 DEF Chaveiros

\* What a step writes in the two files.
LEMMA EscritaLacra ==
  ASSUME InvSe, TiposSe, InvSe',
         \/ chSe' = chSe
         \/ \E k \in 0..MaxChaves : chSe' = Migrado(chSe, k)
         \/ chSe' = GravarCofre(chSe, ChaveNova) /\ ChaveNova <= MaxChaves
         \/ \E n \in Creds, s \in Segs : chSe' = ComCred(chSe, n, s)
         \/ \E n \in Creds : chSe' = SemCred(chSe, n),
         \/ iniSe' = iniSe
         \/ \E v \in Nat : iniSe' = RecifraTudo(v, ChaveNova) /\ ChaveNova <= MaxChaves
         \/ \E c \in ConexoesSe, s \in Segs : iniSe' = [iniSe EXCEPT !.seg[c] = s],
         memSe'.aberto \in {0, memSe.aberto, Chave} \/ memSe'.aberto <= MaxChaves,
         memSe'.inicio \in {memSe.inicio, iniSe.cofre},
         dlgSe'.cofre \in {0, dlgSe.cofre, memSe.inicio, iniSe.cofre}
  PROVE  TiposSe'
<1>1. /\ iniSe \in Inventarios /\ chSe \in Chaveiros /\ memSe' \in Memorias /\ dlgSe' \in DialogosSe
      /\ obsSe \in HistoriasSe /\ MaxChaves \in Nat
  BY SegredosAssumption DEF InvSe, TiposDosSegredos
<1>2. /\ iniSe.cofre \in 0..MaxChaves /\ iniSe.seg \in [ConexoesSe -> Segs]
      /\ chSe.cofre \in 0..MaxChaves /\ chSe.cred \in [Creds -> Segs]
      /\ memSe.aberto \in 0..MaxChaves /\ memSe.inicio \in 0..MaxChaves
      /\ dlgSe.cofre \in 0..MaxChaves
  BY DEF TiposSe
<1>3. Chave \in 0..MaxChaves /\ 0 \in 0..MaxChaves
  BY <1>1, <1>2 DEF Chave, ParamsCofre
<1>4. ChaveNova \in Nat
  BY <1>1 DEF ChaveNova, HistoriasSe
<1>5. chSe'.cofre \in 0..MaxChaves /\ chSe'.cred \in [Creds -> Segs]
  <2>1. CASE \E k \in 0..MaxChaves : chSe' = Migrado(chSe, k)
    BY <1>1, <1>2, <2>1, MigrarLacra
  <2>2. CASE chSe' = GravarCofre(chSe, ChaveNova) /\ ChaveNova <= MaxChaves
    <3>1. chSe'.cofre = ChaveNova /\ chSe'.cred = chSe.cred
      BY <1>1, <2>2 DEF GravarCofre, Chaveiros
    <3> QED
      BY <1>1, <1>2, <1>4, <2>2, <3>1
  <2>3. ASSUME NEW n \in Creds, NEW s \in Segs, chSe' = ComCred(chSe, n, s)
        PROVE  chSe'.cofre \in 0..MaxChaves /\ chSe'.cred \in [Creds -> Segs]
    <3> DEFINE o == IF s # VazioSe THEN s ELSE IF chSe.cred[n] = Ausente THEN VazioSe ELSE chSe.cred[n]
               g == [chSe.cred EXCEPT ![n] = o]
    <3>1. o \in Segs
      BY <1>2, Lacrados
    <3>2. chSe' = [chSe EXCEPT !.existe = TRUE, !.cred = g]
      BY <1>1, <2>3 DEF ComCred, Chaveiros
    <3> HIDE DEF o
    <3>3. g \in [Creds -> Segs]
      BY <1>2, <3>1
    <3> HIDE DEF g
    <3>4. chSe'.cofre = chSe.cofre /\ chSe'.cred = g
      BY <1>1, <3>2 DEF Chaveiros
    <3> QED
      BY <1>2, <3>3, <3>4
  <2>4. ASSUME NEW n \in Creds, chSe' = SemCred(chSe, n)
        PROVE  chSe'.cofre \in 0..MaxChaves /\ chSe'.cred \in [Creds -> Segs]
    <3>1. chSe'.cofre = chSe.cofre /\ chSe'.cred = [chSe.cred EXCEPT ![n] = Ausente]
      BY <1>1, <2>4 DEF SemCred, Chaveiros
    <3> QED
      BY <1>2, <3>1, Lacrados
  <2>5. CASE chSe' = chSe
    BY <1>2, <2>5
  <2> QED
    BY <2>1, <2>2, <2>3, <2>4, <2>5
<1>6. iniSe'.cofre \in 0..MaxChaves /\ iniSe'.seg \in [ConexoesSe -> Segs]
  <2>1. ASSUME NEW v \in Nat, iniSe' = RecifraTudo(v, ChaveNova), ChaveNova <= MaxChaves
        PROVE  iniSe'.cofre \in 0..MaxChaves /\ iniSe'.seg \in [ConexoesSe -> Segs]
    <3>1. ChaveNova \in 0..MaxChaves
      BY <1>1, <1>4, <2>1
    <3>2. iniSe'.cofre = IF iniSe.cofre > 0 THEN ChaveNova ELSE 0
      BY <2>1 DEF RecifraTudo
    <3>3. ASSUME NEW c \in ConexoesSe
          PROVE  (IF Cifrado(iniSe.seg[c]) THEN Cifrar(ChaveNova, iniSe.seg[c].v) ELSE iniSe.seg[c]) \in Segs
      <4>1. iniSe.seg[c] \in Segs
        BY <1>2
      <4>2. Cifrado(iniSe.seg[c]) => iniSe.seg[c] # Ausente
        BY DEF Cifrado, Ausente
      <4>3. Cifrado(iniSe.seg[c]) => iniSe.seg[c].v \in Valores
        BY <4>1, <4>2, Lacrados
      <4> QED
        BY <3>1, <4>1, <4>3, Lacrados
    <3>4. iniSe'.seg \in [ConexoesSe -> Segs]
      BY <2>1, <3>3 DEF RecifraTudo
    <3> QED
      BY <1>3, <3>1, <3>2, <3>4
  <2>2. ASSUME NEW c \in ConexoesSe, NEW s \in Segs, iniSe' = [iniSe EXCEPT !.seg[c] = s]
        PROVE  iniSe'.cofre \in 0..MaxChaves /\ iniSe'.seg \in [ConexoesSe -> Segs]
    <3>1. iniSe'.cofre = iniSe.cofre /\ iniSe'.seg = [iniSe.seg EXCEPT ![c] = s]
      BY <1>1, <2>2 DEF Inventarios
    <3> QED
      BY <1>2, <3>1
  <2>3. CASE iniSe' = iniSe
    BY <1>2, <2>3
  <2> QED
    BY <2>1, <2>2, <2>3
<1>7. /\ memSe'.aberto \in 0..MaxChaves /\ memSe'.inicio \in 0..MaxChaves
      /\ dlgSe'.cofre \in 0..MaxChaves
  BY <1>1, <1>2, <1>3 DEF Memorias
<1>8. dlgSe'.para \in {"nada", "abrir", "criar", "trocar"}
  BY <1>1 DEF DialogosSe
<1> QED
  BY <1>5, <1>6, <1>7, <1>8 DEF TiposSe

LEMMA PassoTiposSe == InvSe /\ InvSe' /\ TiposSe /\ [NextSe]_varsSe => TiposSe'
<1> SUFFICES ASSUME InvSe, InvSe', TiposSe, [NextSe]_varsSe PROVE TiposSe'
  OBVIOUS
<1>1. memSe.chav = chSe /\ memSe.arq = iniSe /\ Chave = ParamsCofre(memSe.chav, memSe.arq)
  BY DEF InvSe, ChaveiroEmDia, InventarioEmDia, Chave
<1>2. /\ memSe.aberto \in 0..MaxChaves /\ memSe \in Memorias /\ Chave \in 0..MaxChaves
      /\ ChaveDoDialogo \in 0..MaxChaves
  BY <1>1 DEF ChaveDoDialogo, ParamsCofre, TiposSe, InvSe, TiposDosSegredos, Chave
<1>3. CASE UNCHANGED varsSe
  BY <1>3 DEF varsSe, TiposSe
<1>4. CASE \E b \in BOOLEAN : Iniciar(b)
  <2>1. /\ chSe' = chSe \/ chSe' = Migrado(chSe, Chave)
        /\ iniSe' = iniSe /\ memSe'.aberto \in {0, Chave}
        /\ memSe'.inicio = iniSe.cofre /\ dlgSe'.cofre = 0
    BY <1>4 DEF Iniciar, Chave, Fecha
  <2> QED
    BY <1>2, <2>1, EscritaLacra
<1>5. CASE (\E c \in ConexoesSe : Usar(c)) \/ Cadeado \/ QuererTrocar \/ FecharDialogoSe \/ AbrirChaveiro
  <2>1. chSe' = chSe /\ iniSe' = iniSe
    BY <1>5 DEF Usar, Cadeado, QuererTrocar, FecharDialogoSe, AbrirChaveiro
  <2>2. memSe' = memSe \/ memSe' = [memSe EXCEPT !.aberto = 0]
        \/ memSe' = [memSe EXCEPT !.arq = iniSe] \/ memSe' = [memSe EXCEPT !.chav = chSe]
    BY <1>5 DEF Usar, Cadeado, QuererTrocar, FecharDialogoSe, AbrirChaveiro
  <2>3. memSe'.aberto \in {0, memSe.aberto} /\ memSe'.inicio = memSe.inicio
    BY <1>2, <2>2 DEF Memorias
  <2>4. dlgSe'.cofre \in {0, dlgSe.cofre, memSe.inicio, iniSe.cofre}
    <3>1. dlgSe \in DialogosSe
      BY DEF InvSe, TiposDosSegredos
    <3> QED
      BY <1>1, <1>5, <3>1 DEF Usar, Cadeado, QuererTrocar, FecharDialogoSe, AbrirChaveiro, Fecha,
                              PedirCofre, DialogosSe
  <2> QED
    BY <2>1, <2>3, <2>4, EscritaLacra
<1>6. CASE Criar
  <2>1. /\ chSe' = GravarCofre(chSe, ChaveNova) /\ ChaveNova <= MaxChaves
        /\ iniSe' = iniSe /\ memSe'.aberto = ChaveNova
        /\ memSe'.inicio = memSe.inicio /\ dlgSe'.cofre = 0
    BY <1>2, <1>6 DEF Criar, Memorias, Fecha
  <2> QED
    BY <2>1, EscritaLacra
<1>7. CASE Destrancar
  <2>1. /\ chSe' = chSe \/ chSe' = Migrado(chSe, ChaveDoDialogo)
        /\ iniSe' = iniSe /\ memSe'.aberto = ChaveDoDialogo
        /\ memSe'.inicio = memSe.inicio /\ dlgSe'.cofre = 0
    BY <1>2, <1>7 DEF Destrancar, Memorias, Fecha
  <2>2. memSe'.aberto <= MaxChaves
    BY <1>2, <2>1, SegredosAssumption
  <2> QED
    BY <1>2, <2>1, <2>2, EscritaLacra
<1>8. CASE TrocarSe
  <2>1. chSe' = chSe /\ ChaveNova <= MaxChaves
    BY <1>8 DEF TrocarSe
  <2>2. \/ iniSe' = iniSe /\ memSe' = memSe /\ dlgSe' = dlgSe
        \/ /\ iniSe' = RecifraTudo(ChaveDoDialogo, ChaveNova)
           /\ memSe' = [memSe EXCEPT !.aberto = ChaveNova, !.arq = iniSe']
           /\ dlgSe'.cofre = 0
    BY <1>8 DEF TrocarSe, Fecha
  <2>3. CASE iniSe' = iniSe /\ memSe' = memSe /\ dlgSe' = dlgSe
    BY <2>1, <2>3, EscritaLacra
  <2>4. CASE /\ iniSe' = RecifraTudo(ChaveDoDialogo, ChaveNova)
             /\ memSe' = [memSe EXCEPT !.aberto = ChaveNova, !.arq = iniSe']
             /\ dlgSe'.cofre = 0
    <3>1. memSe'.aberto = ChaveNova /\ memSe'.inicio = memSe.inicio
      BY <1>2, <2>4 DEF Memorias
    <3> QED
      BY <1>2, <2>1, <2>4, <3>1, EscritaLacra
  <2> QED
    BY <2>2, <2>3, <2>4
<1>9. CASE Importar
  <2>1. PICK s \in Repetidas : NoChaveiro(ComCred(chSe, Usuario, s))
    BY <1>9 DEF Importar
  <2>2. s \in Segs /\ Usuario \in Creds
    BY SegredosAssumption DEF Repetidas, TiposSe
  <2>3. /\ chSe' = ComCred(chSe, Usuario, s) /\ iniSe' = iniSe
        /\ memSe'.aberto = memSe.aberto /\ memSe'.inicio = memSe.inicio /\ dlgSe' = dlgSe
    BY <1>2, <2>1 DEF NoChaveiro, Memorias
  <2> QED
    BY <2>2, <2>3, EscritaLacra
<1>10. ASSUME NEW n \in Creds, RemoverCredencial(n) PROVE TiposSe'
  <2>1. /\ chSe' = SemCred(chSe, n) /\ iniSe' = iniSe
        /\ memSe'.aberto = memSe.aberto /\ memSe'.inicio = memSe.inicio /\ dlgSe' = dlgSe
    BY <1>2, <1>10 DEF RemoverCredencial, NoChaveiro, Memorias
  <2> QED
    BY <2>1, EscritaLacra
<1>11. ASSUME NEW n \in Creds, NEW d \in BOOLEAN, SalvarCredencial(n, d) PROVE TiposSe'
  <2> DEFINE s == IF d THEN Cifrar(memSe.aberto, Senha) ELSE VazioSe
  <2>1. s \in Segs
    BY <1>2, Lacrados, TiposDosTextos
  <2>2. /\ chSe' = ComCred(chSe, n, s) /\ iniSe' = iniSe
        /\ memSe'.aberto = memSe.aberto /\ memSe'.inicio = memSe.inicio /\ dlgSe' = dlgSe
    BY <1>2, <1>11 DEF SalvarCredencial, NoChaveiro, Memorias
  <2> HIDE DEF s
  <2> QED
    BY <2>1, <2>2, EscritaLacra
<1>12. ASSUME NEW c \in ConexoesSe, NEW v \in Textos, SalvarConexao(c, v) PROVE TiposSe'
  <2> DEFINE s == SenhaASalvar(v)
  <2>1. s \in Segs
    <3>1. v \in Valores
      BY DEF Valores
    <3> QED
      BY <1>2, <3>1, Lacrados DEF SenhaASalvar
  <2>2. /\ chSe' = chSe /\ iniSe' = [iniSe EXCEPT !.seg[c] = s]
        /\ memSe'.aberto = memSe.aberto /\ memSe'.inicio = memSe.inicio /\ dlgSe' = dlgSe
    BY <1>2, <1>12 DEF SalvarConexao, Memorias
  <2> HIDE DEF s
  <2> QED
    BY <2>1, <2>2, EscritaLacra
<1> QED
  BY <1>3, <1>4, <1>5, <1>6, <1>7, <1>8, <1>9, <1>10, <1>11, <1>12 DEF NextSe

LEMMA InicioTiposSe == InitSe => TiposSe
<1> SUFFICES ASSUME InitSe PROVE TiposSe
  OBVIOUS
<1>1. PICK inst \in Instalacoes :
      /\ iniSe = [cofre |-> IF inst = "antiga" THEN 1 ELSE 0,
                  seg |-> [c \in ConexoesSe |->
                             IF inst = "nova" THEN Claro(Senha)
                             ELSE Cifrar(1, IF Dano THEN Alias(Usuario) ELSE Senha)]]
      /\ chSe = [existe |-> inst = "atual", cofre |-> IF inst = "atual" THEN 1 ELSE 0,
                 cred |-> [n \in Creds |-> Ausente]]
      /\ memSe = [aberto |-> 0, chav |-> chSe, arq |-> iniSe, inicio |-> iniSe.cofre]
      /\ dlgSe = [tipo |-> "nenhum", para |-> "nada", cofre |-> 0]
  BY DEF InitSe, Fecha
<1>2. 0 \in 0..MaxChaves /\ 1 \in 0..MaxChaves
  BY SegredosAssumption
<1>3. (IF Dano THEN Alias(Usuario) ELSE Senha) \in Valores /\ Senha \in Valores
  BY TiposDosTextos, SegredosAssumption DEF Aliases
<1>4. Claro(Senha) \in Segs /\ Cifrar(1, IF Dano THEN Alias(Usuario) ELSE Senha) \in Segs
      /\ Ausente \in Segs
  BY <1>2, <1>3, Lacrados
<1>5. /\ iniSe.cofre \in 0..MaxChaves /\ chSe.cofre \in 0..MaxChaves /\ memSe.aberto \in 0..MaxChaves
      /\ memSe.inicio \in 0..MaxChaves /\ dlgSe.cofre \in 0..MaxChaves
  BY <1>1, <1>2
<1>6. iniSe.seg \in [ConexoesSe -> Segs]
  BY <1>1, <1>4
<1>7. chSe.cred \in [Creds -> Segs]
  BY <1>1, <1>4
<1> QED
  BY <1>1, <1>5, <1>6, <1>7 DEF TiposSe

LEMMA SegredosInvariante == SpecSe => []InvSe
BY IniciaInvSe, PassoSe, PTL DEF SpecSe

\* Every line of the two files is a secret in clear, one sealed with a key that was
\* created, or nothing at all, and the vault that is open is one of those
\* (internal/chaveiro, cofredlg.go 259-299).
THEOREM SegredosTipos == SpecSe => []TiposSe
BY InicioTiposSe, PassoTiposSe, SegredosInvariante, PTL DEF SpecSe

\* Whatever the dialogs, the padlock and the restarts interleave, a secret is orphaned
\* by the change of the master password, where the keyring has a vault or a sealed
\* password, or by a vault opened by a click after it; an alias is never sealed, the
\* keyring has no clear password but an imported one, and the memory of it is what is
\* on disk (cofredlg.go 297-299, conexaodlg.go 407-410, chaveirodlg.go 376-384).
THEOREM SegredosSempreCertos == SpecSe => []SegredosCertos
BY SegredosInvariante, InvSeBasta, PTL

-----------------------------------------------------------------------------
(* The keys of the servers: induction, and the lines of a file. *)

\* A set of numbers that is not empty has a least one.
LEMMA MenorDeTodos ==
  ASSUME NEW T \in SUBSET Nat, T # {}
  PROVE  \E m \in T : \A k \in T : m <= k
<1> DEFINE R == OpToRel(<, Nat)
<1>1. IsWellFoundedOn(R, Nat)
  BY NatLessThanWellFounded
<1>2. \A x, y \in Nat : x < y => <<x, y>> \in R
  BY DEF OpToRel
<1> HIDE DEF R
<1>3. PICK x \in T : \A y \in T : ~(<<y, x>> \in R)
  BY <1>1, WFMin, Zenon
<1>4. \A y \in T : ~(y < x)
  BY <1>2, <1>3
<1> QED
  BY <1>4

\* Induction, said of a set: the library's rule takes an operator, which no
\* installed prover instantiates.
LEMMA Inducao ==
  ASSUME NEW T \in SUBSET Nat, 0 \in T, \A n \in T : n + 1 \in T
  PROVE  T = Nat
<1>1. SUFFICES ASSUME Nat \ T # {} PROVE FALSE
  OBVIOUS
<1>2. PICK m \in Nat \ T : \A k \in Nat \ T : m <= k
  BY <1>1, MenorDeTodos
<1>3. m - 1 \in T
  BY <1>2
<1> QED
  BY <1>2, <1>3

\* Induction up to a bound.
LEMMA Passos ==
  ASSUME NEW n \in Nat, NEW T \in SUBSET Nat, 0 \in T,
         \A i \in 1..n : i - 1 \in T => i \in T
  PROVE  0..n \subseteq T
<1> DEFINE U == {i \in Nat : i <= n => i \in T}
<1>1. 0 \in U
  OBVIOUS
<1>2. \A i \in U : i + 1 \in U
  OBVIOUS
<1>3. U \in SUBSET Nat
  OBVIOUS
<1> HIDE DEF U
<1>4. U = Nat
  BY <1>1, <1>2, <1>3, Inducao
<1> QED
  BY <1>4 DEF U

\* One line more at the end.
LEMMA ComMais ==
  ASSUME NEW S, NEW s \in Seq(S), NEW e \in S
  PROVE  Append(s, e) \in Seq(S) /\ ToSet(Append(s, e)) = ToSet(s) \union {e}
<1>1. /\ Append(s, e) \in Seq(S) /\ Len(Append(s, e)) = Len(s) + 1
      /\ \A i \in 1..Len(s) : Append(s, e)[i] = s[i]
      /\ Append(s, e)[Len(s) + 1] = e
  BY AppendProperties
<1>2. Len(s) \in Nat /\ DOMAIN s = 1..Len(s) /\ DOMAIN Append(s, e) = 1..Len(s) + 1
  BY <1>1
<1>3. ToSet(Append(s, e)) \subseteq ToSet(s) \union {e}
  <2> SUFFICES ASSUME NEW i \in 1..Len(s) + 1 PROVE Append(s, e)[i] \in ToSet(s) \union {e}
    BY <1>2 DEF ToSet
  <2> QED
    BY <1>1, <1>2 DEF ToSet
<1>4. ToSet(s) \subseteq ToSet(Append(s, e))
  <2> SUFFICES ASSUME NEW i \in 1..Len(s) PROVE s[i] \in ToSet(Append(s, e))
    BY <1>2 DEF ToSet
  <2>1. i \in 1..Len(s) + 1
    BY <1>2
  <2> QED
    BY <1>1, <1>2, <2>1 DEF ToSet
<1>5. e \in ToSet(Append(s, e))
  <2>1. Len(s) + 1 \in 1..Len(s) + 1
    BY <1>2
  <2> QED
    BY <1>1, <1>2, <2>1 DEF ToSet
<1> QED
  BY <1>1, <1>3, <1>4, <1>5

\* What Ficam builds: f[i] has the lines among the first i that are in quais.
Ate(s, quais, n, f) ==
  f = [i \in 0..n |-> IF i = 0 THEN <<>>
                      ELSE IF s[i] \in quais THEN Append(f[i - 1], s[i]) ELSE f[i - 1]]

\* Such an f exists for every length (the recursive definition is not empty).
LEMMA AteExiste ==
  ASSUME NEW s, NEW quais, NEW n \in Nat
  PROVE  \E f : Ate(s, quais, n, f)
<1> DEFINE T == {k \in Nat : \E f : Ate(s, quais, k, f)}
<1>1. 0 \in T
  <2> DEFINE f == [i \in 0..0 |-> <<>>]
             f2 == [i \in 0..0 |-> IF i = 0 THEN <<>>
                      ELSE IF s[i] \in quais THEN Append(f[i - 1], s[i]) ELSE f[i - 1]]
  <2>1. f = f2
    <3>1. \A i \in 0..0 : i = 0
      OBVIOUS
    <3> QED
      BY <3>1, Zenon
  <2> HIDE DEF f
  <2>2. Ate(s, quais, 0, f)
    BY <2>1 DEF Ate
  <2> QED
    BY <2>2
<1>2. ASSUME NEW k \in T PROVE k + 1 \in T
  <2>0. k \in Nat
    OBVIOUS
  <2> PICK f : Ate(s, quais, k, f)
    OBVIOUS
  <2> DEFINE ult == IF s[k + 1] \in quais THEN Append(f[k], s[k + 1]) ELSE f[k]
             g == [i \in 0..k + 1 |-> IF i <= k THEN f[i] ELSE ult]
             g2 == [i \in 0..k + 1 |-> IF i = 0 THEN <<>>
                      ELSE IF s[i] \in quais THEN Append(g[i - 1], s[i]) ELSE g[i - 1]]
  <2>1. \A i \in 0..k : f[i] = IF i = 0 THEN <<>>
                      ELSE IF s[i] \in quais THEN Append(f[i - 1], s[i]) ELSE f[i - 1]
    BY Zenon DEF Ate
  <2>2. (\A i \in 0..k : g[i] = f[i]) /\ g[k + 1] = ult
    <3> HIDE DEF ult
    <3> QED
      BY <2>0
  <2>3. \A i \in 0..k + 1 : g[i] = IF i = 0 THEN <<>>
                      ELSE IF s[i] \in quais THEN Append(g[i - 1], s[i]) ELSE g[i - 1]
    <3> SUFFICES ASSUME NEW i \in 0..k + 1
                 PROVE  g[i] = IF i = 0 THEN <<>>
                      ELSE IF s[i] \in quais THEN Append(g[i - 1], s[i]) ELSE g[i - 1]
      OBVIOUS
    <3>1. CASE i \in 0..k
      <4>1. i # 0 => g[i - 1] = f[i - 1]
        BY <3>1, <2>0
      <4> HIDE DEF g
      <4> QED
        BY <4>1, <3>1, <2>1, <2>2, Zenon
    <3>2. CASE i = k + 1
      <4>1. g[i - 1] = f[k] /\ i # 0
        BY <3>2, <2>0
      <4> HIDE DEF g
      <4> QED
        BY <4>1, <3>2, <2>2, Zenon
    <3> QED
      BY <3>1, <3>2, <2>0
  <2>4. g = g2
    <3>1. DOMAIN g = 0..k + 1 /\ DOMAIN g2 = 0..k + 1
      OBVIOUS
    <3>2. \A i \in 0..k + 1 : g[i] = g2[i]
      <4>1. \A i \in 0..k + 1 : g2[i] = IF i = 0 THEN <<>>
                      ELSE IF s[i] \in quais THEN Append(g[i - 1], s[i]) ELSE g[i - 1]
        <5> HIDE DEF g
        <5> QED
          BY Zenon
      <4> HIDE DEF g, g2
      <4> QED
        BY <2>3, <4>1, Zenon
    <3>3. g = [i \in DOMAIN g |-> g[i]] /\ g2 = [i \in DOMAIN g2 |-> g2[i]]
      OBVIOUS
    <3> HIDE DEF g, g2
    <3> QED
      BY <3>1, <3>2, <3>3
  <2>5. Ate(s, quais, k + 1, g)
    <3> HIDE DEF g
    <3> QED
      BY <2>4 DEF Ate
  <2> QED
    BY <2>5, <2>0
<1>3. T \in SUBSET Nat
  OBVIOUS
<1> HIDE DEF T
<1>4. T = Nat
  BY <1>1, <1>2, <1>3, Inducao
<1> QED
  BY <1>4 DEF T

\* The lines that stay are lines of the file, and they are those of quais.
LEMMA FicamQuais ==
  ASSUME NEW S, NEW s \in Seq(S), NEW quais
  PROVE  Ficam(s, quais) \in Seq(S) /\ ToSet(Ficam(s, quais)) = ToSet(s) \cap quais
<1> DEFINE f == CHOOSE x : x = [i \in 0..Len(s) |-> IF i = 0 THEN <<>>
                      ELSE IF s[i] \in quais THEN Append(x[i - 1], s[i]) ELSE x[i - 1]]
<1>1. Ficam(s, quais) = f[Len(s)]
  BY Zenon DEF Ficam
<1>2. Len(s) \in Nat /\ DOMAIN s = 1..Len(s) /\ \A i \in 1..Len(s) : s[i] \in S
  OBVIOUS
<1>3. \E x : x = [i \in 0..Len(s) |-> IF i = 0 THEN <<>>
                      ELSE IF s[i] \in quais THEN Append(x[i - 1], s[i]) ELSE x[i - 1]]
  <2>1. \E x : Ate(s, quais, Len(s), x)
    BY <1>2, AteExiste
  <2> QED
    BY <2>1, Zenon DEF Ate
<1>4. f = [i \in 0..Len(s) |-> IF i = 0 THEN <<>>
                      ELSE IF s[i] \in quais THEN Append(f[i - 1], s[i]) ELSE f[i - 1]]
  BY <1>3, Zenon
<1> HIDE DEF f
<1>5. \A i \in 0..Len(s) : f[i] = IF i = 0 THEN <<>>
                      ELSE IF s[i] \in quais THEN Append(f[i - 1], s[i]) ELSE f[i - 1]
  BY <1>4, Zenon
<1> DEFINE T == {i \in 0..Len(s) : /\ f[i] \in Seq(S)
                                   /\ ToSet(f[i]) = {s[j] : j \in 1..i} \cap quais}
<1>6. 0 \in T
  <2>1. f[0] = <<>>
    BY <1>2, <1>5
  <2>2. ToSet(<<>>) = {}
    BY DEF ToSet
  <2>3. <<>> \in Seq(S) /\ 0 \in 0..Len(s) /\ {s[j] : j \in 1..0} = {}
    BY <1>2
  <2> QED
    BY <2>1, <2>2, <2>3
<1>7. ASSUME NEW i \in 1..Len(s), i - 1 \in T PROVE i \in T
  <2>1. f[i - 1] \in Seq(S) /\ ToSet(f[i - 1]) = {s[j] : j \in 1..i - 1} \cap quais
    BY <1>7
  <2>2. f[i] = IF s[i] \in quais THEN Append(f[i - 1], s[i]) ELSE f[i - 1]
    BY <1>2, <1>5
  <2>3. s[i] \in S /\ i \in 0..Len(s)
    BY <1>2
  <2>4. {s[j] : j \in 1..i} = {s[j] : j \in 1..i - 1} \union {s[i]}
    <3>1. 1..i = 1..(i - 1) \union {i}
      BY <1>2
    <3> QED
      BY <3>1
  <2> HIDE DEF T
  <2>5. CASE s[i] \in quais
    <3>1. f[i] = Append(f[i - 1], s[i])
      BY <2>2, <2>5
    <3>2. f[i] \in Seq(S) /\ ToSet(f[i]) = ToSet(f[i - 1]) \union {s[i]}
      BY <3>1, <2>1, <2>3, ComMais
    <3> QED
      BY <3>2, <2>1, <2>3, <2>4, <2>5 DEF T
  <2>6. CASE s[i] \notin quais
    BY <2>1, <2>2, <2>3, <2>4, <2>6 DEF T
  <2> QED
    BY <2>5, <2>6
<1>8. T \in SUBSET Nat
  BY <1>2
<1> HIDE DEF T
<1>9. 0..Len(s) \subseteq T
  BY <1>2, <1>6, <1>7, <1>8, Passos
<1>10. Len(s) \in T
  BY <1>2, <1>9
<1>11. {s[j] : j \in 1..Len(s)} = ToSet(s)
  BY <1>2 DEF ToSet
<1> QED
  BY <1>1, <1>10, <1>11 DEF T

-----------------------------------------------------------------------------
(* The invariant of the keys. *)

\* The tabs whose question is about a key of SSH.
Perguntas == AbasSsh \union AbasSftp
\* What the variables hold.
ComNenhuma == ChavesCh \union {"nenhuma"}
AbasDeChave == [fase : FasesCh, fechada : BOOLEAN, banco : Seq(LinhasCh), tinha : BOOLEAN, noMeio : BOOLEAN,
         chave : ComNenhuma, achou : {"ok", "desconhecida", "mudou"},
         resposta : {"nenhuma", "sim", "recusar", "salvo", "uma"},
         confirmada : ComNenhuma, repetiu : BOOLEAN]
Modais == [aba : AbasCh \union {"nenhuma"}, chave : ComNenhuma, mudou : BOOLEAN, pronto : BOOLEAN]
Gravas == [fase : {"livre", "remove", "troca", "acrescenta", "fecha"}, aba : AbasCh \union {"nenhuma"},
           chave : ComNenhuma, linhas : Seq(LinhasCh)]
Limites == [tent : [AbasCh -> Nat], novas : Nat, outros : Nat, falhas : Nat,
            confiadas : [HostsCh -> SUBSET ChavesCh]]

\* The types, all of them.
TipadoCh ==
  /\ arqCh.linhas \in Seq(LinhasCh) /\ arqCh.existe \in BOOLEAN
  /\ certCh \in [HostsCh -> SUBSET ChavesCh] /\ servCh \in [HostsCh -> ChavesCh]
  /\ abaCh \in [AbasCh -> AbasDeChave] /\ modalCh \in Modais /\ gravaCh \in Gravas /\ limCh \in Limites

\* The lines name, of each server, only keys that were trusted for it.
Confiada(linhas) == \A h \in HostsCh : ChavesNo(linhas, h) \subseteq limCh.confiadas[h]
\* Nothing that is kept, read or about to be written is a key that nobody trusted.
GuardadoConfiado ==
  /\ Confiada(arqCh.linhas) /\ Confiada(gravaCh.linhas)
  /\ \A h \in HostsCh : certCh[h] \subseteq limCh.confiadas[h]
  /\ \A a \in AbasCh : Confiada(abaCh[a].banco) /\ \A l \in ToSet(abaCh[a].banco) : Legivel(l)
  /\ gravaCh.fase # "livre" => /\ gravaCh.aba \in Perguntas
                               /\ gravaCh.chave \in limCh.confiadas[HostDe[gravaCh.aba]]
\* The answer a child waits for is about the key it asked about.
RespostaCerta ==
  /\ modalCh.aba # "nenhuma" => modalCh.chave \in ChavesCh
  /\ \A a \in AbasRdp :
       /\ abaCh[a].resposta # "sim" /\ (abaCh[a].fase = "disca" => abaCh[a].resposta = "nenhuma")
       /\ abaCh[a].fase = "espera" /\ modalCh.aba = a => modalCh.chave = abaCh[a].chave
       /\ abaCh[a].fase = "espera" /\ abaCh[a].resposta \notin {"nenhuma", "recusar"} =>
            abaCh[a].chave \in limCh.confiadas[HostDe[a]]
\* Confiar is under way for the tab.
Gravando(a) == gravaCh.fase # "livre" /\ gravaCh.aba = a
\* A tab whose question is on the screen or being written is not dialing.
UmaPorVez ==
  \A a \in Perguntas :
    /\ modalCh.aba = a \/ Gravando(a) => abaCh[a].fase # "disca" /\ abaCh[a].resposta # "sim"
    /\ abaCh[a].fase = "disca" => abaCh[a].resposta # "sim"
    /\ limCh.tent[a] = 0 => /\ abaCh[a].fase \in {"parada", "fim"} /\ abaCh[a].resposta # "sim"
                            /\ modalCh.aba # a /\ ~Gravando(a)
\* A server that was in the file when it was read is in the lines of the connection.
ChaveVista ==
  /\ ~arqCh.existe => arqCh.linhas = <<>>
  /\ \A a \in Perguntas :
    /\ abaCh[a].tinha /\ abaCh[a].fase = "disca" => \E l \in ToSet(abaCh[a].banco) : Nomeia(l, HostDe[a])
    /\ abaCh[a].tinha /\ modalCh.aba = a => abaCh[a].achou # "desconhecida"

\* The disk did not fail and nobody else wrote.
Sereno == limCh.falhas = 0 /\ limCh.outros = 0
\* No line of the server has its name hashed.
SemHash(linhas, h) == \A l \in ToSet(linhas) : Nomeia(l, h) => l.forma # "hash"
\* The line Confiar writes.
Nova(h, k) == [hosts |-> {h}, chave |-> k, forma |-> "clara"]
\* The line that Confiar wrote is there, and no other of that server.
SoTem(linhas, h, k) ==
  Nova(h, k) \in ToSet(linhas) /\ \A l \in ToSet(linhas) : Nomeia(l, h) => l = Nova(h, k)

\* Confiar is under way for a tab of the same server.
DoMesmo(a) == gravaCh.fase # "livre" /\ HostDe[gravaCh.aba] = HostDe[a]
\* Where the key that was confirmed for the tab is: in the file, or on its way there.
Lembra(a) ==
  IF DoMesmo(a) /\ gravaCh.fase \in {"remove", "troca"}
  THEN gravaCh.aba = a \/ SoTem(arqCh.linhas, HostDe[a], abaCh[a].confirmada)
  ELSE IF DoMesmo(a) /\ gravaCh.fase = "acrescenta"
  THEN \A l \in ToSet(arqCh.linhas) : ~Nomeia(l, HostDe[a])
  ELSE SoTem(arqCh.linhas, HostDe[a], abaCh[a].confirmada)
\* With the disk quiet, what was confirmed is in the file, and in what a connection read.
Lembrada ==
  /\ \A a \in Perguntas :
    /\ DoMesmo(a) => abaCh[a].confirmada \in {"nenhuma", gravaCh.chave}
    /\ (Sereno /\ SemHash(arqCh.linhas, HostDe[a]) /\ abaCh[a].confirmada # "nenhuma") =>
       /\ Lembra(a)
       /\ abaCh[a].fase = "disca" /\ ~abaCh[a].noMeio =>
            SoTem(abaCh[a].banco, HostDe[a], abaCh[a].confirmada)
  /\ Sereno /\ gravaCh.fase = "troca" =>
       gravaCh.linhas = Mantidas(arqCh.linhas, HostDe[gravaCh.aba])
\* A key is asked again only when one of those does not hold.
RepetiuSo ==
  \A a \in AbasCh : abaCh[a].repetiu => ~Sereno \/ abaCh[a].noMeio \/ ~SemHash(arqCh.linhas, HostDe[a])

\* The inductive invariant.
InvCh ==
  /\ TipadoCh /\ GuardadoConfiado /\ RespostaCerta /\ UmaPorVez /\ ChaveVista /\ Lembrada /\ RepetiuSo /\ SoConfiada

-----------------------------------------------------------------------------
(* The operators of the keys. *)

\* The keys of fewer lines are fewer keys.
LEMMA ChavesDeLinhas ==
  ASSUME NEW linhas, NEW h
  PROVE  /\ ToSet(linhas) \subseteq LinhasCh => ChavesNo(linhas, h) \subseteq ChavesCh
         /\ \A outras : ToSet(outras) \subseteq ToSet(linhas) =>
              ChavesNo(outras, h) \subseteq ChavesNo(linhas, h)
<1>1. \A outras : ToSet(outras) \subseteq ToSet(linhas) =>
              ChavesNo(outras, h) \subseteq ChavesNo(linhas, h)
  BY DEF ChavesNo
<1>2. ToSet(linhas) \subseteq LinhasCh => ChavesNo(linhas, h) \subseteq ChavesCh
  BY DEF ChavesNo, LinhasCh
<1> QED
  BY <1>1, <1>2

\* The lines of a file are lines.
LEMMA LinhasDeSeq ==
  ASSUME NEW linhas \in Seq(LinhasCh)
  PROVE  ToSet(linhas) \subseteq LinhasCh
BY DEF ToSet

\* An empty file knows nobody.
LEMMA SemLinhas ==
  /\ <<>> \in Seq(LinhasCh) /\ ToSet(<<>>) = {} /\ \A h : ChavesNo(<<>>, h) = {}
<1>1. <<>> \in Seq(LinhasCh) /\ ToSet(<<>>) = {}
  BY DEF ToSet
<1> QED
  BY <1>1 DEF ChavesNo

\* A connection checks readable lines of the file, and all of them when it could.
LEMMA BancoDeArquivo ==
  ASSUME NEW arq, arq.linhas \in Seq(LinhasCh), NEW ok \in BOOLEAN
  PROVE  /\ Banco(arq, ok) \in Seq(LinhasCh)
         /\ ToSet(Banco(arq, ok)) \subseteq ToSet(arq.linhas)
         /\ \A l \in ToSet(Banco(arq, ok)) : Legivel(l)
         /\ ok /\ arq.existe => \A l \in ToSet(arq.linhas) : Legivel(l) => l \in ToSet(Banco(arq, ok))
<1> DEFINE boas == {l \in LinhasCh : Legivel(l)}
<1>1. ToSet(arq.linhas) \subseteq LinhasCh
  BY LinhasDeSeq
<1>2. Sanear(arq) \in Seq(LinhasCh) /\ ToSet(Sanear(arq)) = ToSet(arq.linhas) \cap boas
  <2> HIDE DEF boas
  <2>1. Ficam(arq.linhas, boas) \in Seq(LinhasCh)
        /\ ToSet(Ficam(arq.linhas, boas)) = ToSet(arq.linhas) \cap boas
    BY FicamQuais
  <2>2. Sanear(arq) = Ficam(arq.linhas, boas)
    BY DEF Sanear, boas
  <2> QED
    BY <2>1, <2>2
<1>3. (\A i \in DOMAIN arq.linhas : Legivel(arq.linhas[i])) <=> \A l \in ToSet(arq.linhas) : Legivel(l)
  BY DEF ToSet
<1>4. \A l \in ToSet(Sanear(arq)) : Legivel(l)
  BY <1>2
<1>5. \A l \in ToSet(arq.linhas) : Legivel(l) => l \in ToSet(Sanear(arq))
  BY <1>1, <1>2
<1>6. ToSet(Sanear(arq)) \subseteq ToSet(arq.linhas)
  BY <1>2
<1> HIDE DEF boas
<1>7. CASE ~arq.existe
  BY <1>7, SemLinhas DEF Banco
<1>8. CASE arq.existe /\ \A i \in DOMAIN arq.linhas : Legivel(arq.linhas[i])
  BY <1>8, <1>3 DEF Banco
<1>9. CASE arq.existe /\ ~\A i \in DOMAIN arq.linhas : Legivel(arq.linhas[i])
  <2>1. Banco(arq, ok) = IF ok THEN Sanear(arq) ELSE <<>>
    BY <1>9 DEF Banco
  <2> QED
    BY <2>1, <1>2, <1>4, <1>5, <1>6, SemLinhas
<1> QED
  BY <1>7, <1>8, <1>9

\* The first line decides: of a server that is named, no key is new; of one with one line, that key is right.
LEMMA Verificacao ==
  ASSUME NEW banco \in Seq(LinhasCh), NEW h, NEW k
  PROVE  /\ Verificar(banco, h, k) \in {"ok", "desconhecida", "mudou"}
         /\ Verificar(banco, h, k) = "ok" => \E l \in ToSet(banco) : Nomeia(l, h) /\ l.chave = k
         /\ (\E l \in ToSet(banco) : Nomeia(l, h)) => Verificar(banco, h, k) # "desconhecida"
         /\ SoTem(banco, h, k) => Verificar(banco, h, k) = "ok"
<1> DEFINE doHost == {i \in DOMAIN banco : Nomeia(banco[i], h)}
<1>1. DOMAIN banco \in SUBSET Nat
  OBVIOUS
<1>2. Verificar(banco, h, k) =
        IF doHost = {} THEN "desconhecida"
        ELSE IF \E i \in doHost : banco[i].chave = k /\ \A j \in doHost : i <= j THEN "ok"
        ELSE "mudou"
  BY DEF Verificar
<1>3. \A i \in doHost : banco[i] \in ToSet(banco) /\ Nomeia(banco[i], h)
  BY DEF ToSet
<1>4. \A l \in ToSet(banco) : Nomeia(l, h) => doHost # {}
  BY DEF ToSet
<1>5. ASSUME SoTem(banco, h, k) PROVE Verificar(banco, h, k) = "ok"
  <2>1. doHost # {}
    <3>1. Nova(h, k) \in ToSet(banco) /\ Nomeia(Nova(h, k), h)
      BY <1>5 DEF SoTem, Nova, Nomeia
    <3> QED
      BY <3>1, <1>4
  <2>2. PICK i \in doHost : \A j \in doHost : i <= j
    <3>1. doHost \in SUBSET Nat
      BY <1>1
    <3> HIDE DEF doHost
    <3> QED
      BY <2>1, <3>1, MenorDeTodos
  <2>3. banco[i].chave = k
    <3>1. banco[i] = Nova(h, k)
      BY <1>3, <1>5 DEF SoTem
    <3> QED
      BY <3>1 DEF Nova
  <2> QED
    BY <1>2, <2>1, <2>2, <2>3
<1> HIDE DEF doHost
<1> QED
  BY <1>2, <1>3, <1>4, <1>5

\* Remover keeps the lines that are not, in the clear, of the server.
LEMMA LinhasMantidas ==
  ASSUME NEW linhas \in Seq(LinhasCh), NEW h
  PROVE  /\ Mantidas(linhas, h) \in Seq(LinhasCh)
         /\ \A l : l \in ToSet(Mantidas(linhas, h)) <=> l \in ToSet(linhas) /\ ~CasaHost(l, h)
<1> DEFINE quais == {l \in LinhasCh : ~CasaHost(l, h)}
<1>1. ToSet(linhas) \subseteq LinhasCh
  BY LinhasDeSeq
<1>2. Mantidas(linhas, h) = Ficam(linhas, quais)
  BY DEF Mantidas
<1>3. \A l \in LinhasCh : l \in quais <=> ~CasaHost(l, h)
  OBVIOUS
<1> HIDE DEF quais
<1>4. Ficam(linhas, quais) \in Seq(LinhasCh) /\ ToSet(Ficam(linhas, quais)) = ToSet(linhas) \cap quais
  BY FicamQuais
<1> QED
  BY <1>1, <1>2, <1>3, <1>4

\* A line that is written is a line.
LEMMA LinhaNova ==
  ASSUME NEW h \in HostsCh, NEW k \in ChavesCh, NEW f \in {"clara", "hash"}
  PROVE  [hosts |-> {h}, chave |-> k, forma |-> f] \in LinhasCh
BY DEF LinhasCh

\* The line of a server that is written at the end of the file.
Escrita(e, h, k, f) == e = [hosts |-> {h}, chave |-> k, forma |-> f]

\* It is of that server only, with that key.
LEMMA ComLinha ==
  ASSUME NEW linhas \in Seq(LinhasCh), NEW h \in HostsCh, NEW k \in ChavesCh, NEW f \in {"clara", "hash"},
         NEW e, Escrita(e, h, k, f)
  PROVE  /\ Append(linhas, e) \in Seq(LinhasCh)
         /\ ToSet(Append(linhas, e)) = ToSet(linhas) \union {e}
         /\ \A x : Nomeia(e, x) <=> x = h
         /\ \A x : ChavesNo(Append(linhas, e), x) \subseteq
                     ChavesNo(linhas, x) \union (IF x = h THEN {k} ELSE {})
<1>1. e \in LinhasCh
  BY LinhaNova DEF Escrita
<1>2. Append(linhas, e) \in Seq(LinhasCh) /\ ToSet(Append(linhas, e)) = ToSet(linhas) \union {e}
  BY <1>1, ComMais
<1>3. \A x : Nomeia(e, x) <=> x = h
  BY DEF Nomeia, Escrita
<1>4. e.chave = k
  BY DEF Escrita
<1>5. \A x : ChavesNo(Append(linhas, e), x) \subseteq
                     ChavesNo(linhas, x) \union (IF x = h THEN {k} ELSE {})
  BY <1>2, <1>3, <1>4 DEF ChavesNo
<1> QED
  BY <1>2, <1>3, <1>5

\* The server of a tab is one of the servers; no tab and no key is "nenhuma".
LEMMA Fixos ==
  /\ \A a \in AbasCh : HostDe[a] \in HostsCh
  /\ \A a \in Perguntas : a \in AbasCh /\ a \notin AbasRdp /\ a # "nenhuma"
  /\ \A a \in AbasRdp : a \in AbasCh /\ a \notin Perguntas /\ a # "nenhuma"
  /\ \A a \in AbasCh : (a \in Perguntas \/ a \in AbasRdp) /\ a # "nenhuma"
  /\ "nenhuma" \notin ChavesCh
  /\ AbasSsh \subseteq Perguntas /\ AbasSftp \subseteq Perguntas
BY ChaveAssumption DEF AbasCh, HostsCh, Perguntas

\* What changes of one tab.
LEMMA UmaAba ==
  ASSUME abaCh \in [AbasCh -> AbasDeChave], NEW a \in AbasCh, NEW r \in AbasDeChave,
         abaCh' = [abaCh EXCEPT ![a] = r]
  PROVE  /\ abaCh' \in [AbasCh -> AbasDeChave] /\ abaCh'[a] = r
         /\ \A x \in AbasCh : x # a => abaCh'[x] = abaCh[x]
OBVIOUS

\* A step on the disk.
LEMMA TiposDoDisco ==
  ASSUME limCh \in Limites, NEW ok \in BOOLEAN, Disco(ok)
  PROVE  /\ limCh' \in Limites
         /\ limCh'.tent = limCh.tent /\ limCh'.outros = limCh.outros
         /\ limCh'.novas = limCh.novas /\ limCh'.confiadas = limCh.confiadas
         /\ limCh'.falhas \in Nat /\ limCh.falhas \in Nat
         /\ limCh'.falhas = IF ok THEN limCh.falhas ELSE limCh.falhas + 1
BY DEF Disco, Limites

\* A connection begins.
LEMMA TiposDeCarregar ==
  ASSUME TipadoCh, NEW a \in AbasCh, NEW ok \in BOOLEAN, CarregarCh(a, ok)
  PROVE  /\ abaCh' \in [AbasCh -> AbasDeChave]
         /\ \A x \in AbasCh : x # a => abaCh'[x] = abaCh[x]
         /\ abaCh'[a].fase = "disca" /\ abaCh'[a].banco = Banco(arqCh, ok)
         /\ abaCh'[a].tinha = (ok /\ ChavesNo(arqCh.linhas, HostDe[a]) # {})
         /\ abaCh'[a].noMeio = (gravaCh.fase = "acrescenta" /\ HostDe[gravaCh.aba] = HostDe[a])
         /\ abaCh'[a].resposta = "nenhuma" /\ abaCh'[a].repetiu = FALSE
         /\ abaCh'[a].confirmada = abaCh[a].confirmada
         /\ UNCHANGED <<arqCh, certCh, servCh, modalCh, gravaCh>>
<1> DEFINE bc == Banco(arqCh, ok)
           ti == ok /\ ChavesNo(arqCh.linhas, HostDe[a]) # {}
           nm == gravaCh.fase = "acrescenta" /\ HostDe[gravaCh.aba] = HostDe[a]
           r == [abaCh[a] EXCEPT !.fase = "disca", !.banco = bc, !.tinha = ti, !.noMeio = nm,
                                 !.resposta = "nenhuma", !.repetiu = FALSE]
<1>1. bc \in Seq(LinhasCh) /\ ti \in BOOLEAN /\ nm \in BOOLEAN
  BY BancoDeArquivo DEF TipadoCh
<1>2. abaCh[a] \in AbasDeChave /\ abaCh \in [AbasCh -> AbasDeChave]
  BY DEF TipadoCh
<1>3. abaCh' = [abaCh EXCEPT ![a] = r] /\ UNCHANGED <<arqCh, certCh, servCh, modalCh, gravaCh>>
  BY <1>2 DEF CarregarCh
<1> HIDE DEF bc, ti, nm
<1>4. /\ r \in AbasDeChave
      /\ r.fase = "disca" /\ r.banco = bc /\ r.tinha = ti /\ r.noMeio = nm
      /\ r.resposta = "nenhuma" /\ r.repetiu = FALSE /\ r.confirmada = abaCh[a].confirmada
  BY <1>1, <1>2 DEF AbasDeChave, FasesCh
<1> HIDE DEF r
<1>5. abaCh' \in [AbasCh -> AbasDeChave] /\ abaCh'[a] = r /\ \A x \in AbasCh : x # a => abaCh'[x] = abaCh[x]
  BY <1>2, <1>3, <1>4, UmaAba
<1> QED
  BY <1>3, <1>4, <1>5, Zenon DEF bc, ti, nm

-----------------------------------------------------------------------------
(* The tabs. *)

\* A step that, of a tab, only ends what it was doing.
LEMMA PararGuarda ==
  ASSUME InvCh, NEW a \in AbasCh, NEW r \in AbasDeChave, abaCh' = [abaCh EXCEPT ![a] = r],
         r.fase \in {"parada", "fim", abaCh[a].fase},
         r.banco = abaCh[a].banco, r.tinha = abaCh[a].tinha, r.noMeio = abaCh[a].noMeio,
         r.chave = abaCh[a].chave, r.achou = abaCh[a].achou, r.resposta = abaCh[a].resposta,
         r.confirmada = abaCh[a].confirmada, r.repetiu = abaCh[a].repetiu,
         UNCHANGED <<arqCh, certCh, servCh, modalCh, gravaCh, limCh>>
  PROVE  InvCh'
<1>0. /\ TipadoCh /\ GuardadoConfiado /\ RespostaCerta /\ UmaPorVez /\ ChaveVista /\ Lembrada
      /\ RepetiuSo /\ SoConfiada
  BY DEF InvCh
<1>1. abaCh' \in [AbasCh -> AbasDeChave] /\ abaCh'[a] = r /\ \A x \in AbasCh : x # a => abaCh'[x] = abaCh[x]
  BY <1>0, UmaAba DEF TipadoCh
<1>2. \A x \in AbasCh :
        /\ abaCh'[x].fase \in {"parada", "fim", abaCh[x].fase}
        /\ abaCh'[x].banco = abaCh[x].banco /\ abaCh'[x].tinha = abaCh[x].tinha
        /\ abaCh'[x].noMeio = abaCh[x].noMeio /\ abaCh'[x].chave = abaCh[x].chave
        /\ abaCh'[x].achou = abaCh[x].achou /\ abaCh'[x].resposta = abaCh[x].resposta
        /\ abaCh'[x].confirmada = abaCh[x].confirmada /\ abaCh'[x].repetiu = abaCh[x].repetiu
  BY <1>1
<1>3. TipadoCh'
  BY <1>0, <1>1 DEF TipadoCh
<1>4. GuardadoConfiado'
  BY <1>0, <1>2 DEF GuardadoConfiado, Confiada, ChavesNo
<1>5. RespostaCerta'
  BY <1>0, <1>2, Fixos DEF RespostaCerta
<1>6. UmaPorVez'
  BY <1>0, <1>2, Fixos DEF UmaPorVez, Gravando
<1>7. ChaveVista'
  BY <1>0, <1>2, Fixos DEF ChaveVista
<1>8. Lembrada'
  <2>1. \A x \in Perguntas : Lembra(x) => Lembra(x)'
    BY <1>2, Fixos DEF Lembra, DoMesmo
  <2>2. \A x \in Perguntas : DoMesmo(x)' => DoMesmo(x)
    BY DEF DoMesmo
  <2>3. Sereno' => Sereno
    BY DEF Sereno
  <2> QED
    BY <1>0, <1>2, <2>1, <2>2, <2>3, Fixos DEF Lembrada
<1>9. RepetiuSo'
  BY <1>0, <1>2 DEF RepetiuSo, Sereno
<1>10. SoConfiada'
  BY <1>0, <1>2 DEF SoConfiada
<1> QED
  BY <1>3, <1>4, <1>5, <1>6, <1>7, <1>8, <1>9, <1>10 DEF InvCh

\* A connection that ends, or a tab that is closed.
LEMMA FalharGuarda ==
  ASSUME InvCh, NEW a \in AbasCh, FalharDiscarCh(a) \/ CairCh(a) \/ FecharAbaCh(a)
  PROVE  InvCh'
<1>1. abaCh \in [AbasCh -> AbasDeChave] /\ abaCh[a] \in AbasDeChave
  BY DEF InvCh, TipadoCh
<1> DEFINE f == IF FalharDiscarCh(a) THEN IF abaCh[a].fechada THEN "fim" ELSE "parada"
                ELSE IF CairCh(a) THEN "parada"
                ELSE IF abaCh[a].fase = "disca" /\ a \notin AbasRdp THEN "disca" ELSE "fim"
           g == IF FalharDiscarCh(a) \/ CairCh(a) THEN abaCh[a].fechada ELSE TRUE
           r == [abaCh[a] EXCEPT !.fase = f, !.fechada = g]
<1>2. f \in {"parada", "fim", abaCh[a].fase} /\ f \in FasesCh /\ g \in BOOLEAN
  BY <1>1 DEF AbasDeChave, FasesCh
<1>3. abaCh' = [abaCh EXCEPT ![a] = r] /\ UNCHANGED <<arqCh, certCh, servCh, modalCh, gravaCh, limCh>>
  <2>1. CASE FalharDiscarCh(a)
    BY <1>1, <2>1 DEF FalharDiscarCh, AbasDeChave
  <2>2. CASE ~FalharDiscarCh(a) /\ CairCh(a)
    BY <1>1, <2>2 DEF CairCh, AbasDeChave
  <2>3. CASE ~FalharDiscarCh(a) /\ ~CairCh(a) /\ FecharAbaCh(a)
    BY <1>1, <2>3 DEF FecharAbaCh, AbasDeChave
  <2> QED
    BY <2>1, <2>2, <2>3
<1> HIDE DEF f, g
<1>4. /\ r \in AbasDeChave /\ r.fase = f
      /\ r.banco = abaCh[a].banco /\ r.tinha = abaCh[a].tinha /\ r.noMeio = abaCh[a].noMeio
      /\ r.chave = abaCh[a].chave /\ r.achou = abaCh[a].achou /\ r.resposta = abaCh[a].resposta
      /\ r.confirmada = abaCh[a].confirmada /\ r.repetiu = abaCh[a].repetiu
  BY <1>1, <1>2 DEF AbasDeChave
<1> HIDE DEF r
<1> QED
  BY <1>2, <1>3, <1>4, PararGuarda

\* What a connection finds when it begins: the file, if it is quiet, has what was
\* confirmed for the tab.
LEMMA BancoDaAba ==
  ASSUME InvCh, NEW a \in Perguntas, ~Gravando(a), Sereno, SemHash(arqCh.linhas, HostDe[a]),
         abaCh[a].confirmada # "nenhuma", ~(gravaCh.fase = "acrescenta" /\ HostDe[gravaCh.aba] = HostDe[a])
  PROVE  SoTem(Banco(arqCh, TRUE), HostDe[a], abaCh[a].confirmada)
<1> DEFINE h == HostDe[a]
           k == abaCh[a].confirmada
<1>1. Lembra(a) /\ arqCh.linhas \in Seq(LinhasCh) /\ (~arqCh.existe => arqCh.linhas = <<>>)
  BY DEF InvCh, Lembrada, TipadoCh, ChaveVista
<1>2. SoTem(arqCh.linhas, h, k)
  BY <1>1 DEF Lembra, DoMesmo, Gravando
<1>3. arqCh.existe
  BY <1>1, <1>2, SemLinhas DEF SoTem
<1> HIDE DEF h, k
<1>4. /\ ToSet(Banco(arqCh, TRUE)) \subseteq ToSet(arqCh.linhas)
      /\ \A l \in ToSet(arqCh.linhas) : Legivel(l) => l \in ToSet(Banco(arqCh, TRUE))
  BY <1>1, <1>3, BancoDeArquivo
<1>5. Legivel(Nova(h, k))
  BY DEF Legivel, Nova
<1>6. SoTem(Banco(arqCh, TRUE), h, k)
  BY <1>2, <1>4, <1>5 DEF SoTem
<1> QED
  BY <1>6 DEF h, k

\* The file is read for a connection.
LEMMA CarregarGuarda ==
  ASSUME InvCh, NEW a \in AbasCh, NEW ok \in BOOLEAN, CarregarCh(a, ok),
         limCh' \in Limites, limCh'.confiadas = limCh.confiadas, limCh'.outros = limCh.outros,
         limCh'.falhas = IF ok THEN limCh.falhas ELSE limCh.falhas + 1,
         \A x \in AbasCh : x # a => limCh'.tent[x] = limCh.tent[x], limCh'.tent[a] # 0,
         a \in Perguntas => modalCh.aba # a /\ ~Gravando(a)
  PROVE  InvCh'
<1>0. /\ TipadoCh /\ GuardadoConfiado /\ RespostaCerta /\ UmaPorVez /\ ChaveVista /\ Lembrada
      /\ RepetiuSo /\ SoConfiada
  BY DEF InvCh
<1>1. /\ abaCh' \in [AbasCh -> AbasDeChave]
      /\ \A x \in AbasCh : x # a => abaCh'[x] = abaCh[x]
      /\ abaCh'[a].fase = "disca" /\ abaCh'[a].banco = Banco(arqCh, ok)
      /\ abaCh'[a].tinha = (ok /\ ChavesNo(arqCh.linhas, HostDe[a]) # {})
      /\ abaCh'[a].noMeio = (gravaCh.fase = "acrescenta" /\ HostDe[gravaCh.aba] = HostDe[a])
      /\ abaCh'[a].resposta = "nenhuma" /\ abaCh'[a].repetiu = FALSE
      /\ abaCh'[a].confirmada = abaCh[a].confirmada
      /\ UNCHANGED <<arqCh, certCh, servCh, modalCh, gravaCh>>
  BY <1>0, TiposDeCarregar
<1>2. /\ ToSet(Banco(arqCh, ok)) \subseteq ToSet(arqCh.linhas)
      /\ \A l \in ToSet(Banco(arqCh, ok)) : Legivel(l)
      /\ ok /\ arqCh.existe => \A l \in ToSet(arqCh.linhas) : Legivel(l) => l \in ToSet(Banco(arqCh, ok))
  BY <1>0, BancoDeArquivo DEF TipadoCh
<1>3. /\ Sereno' => Sereno /\ ok
      /\ limCh.falhas \in Nat
  BY <1>0 DEF Sereno, TipadoCh, Limites
<1>4. TipadoCh'
  BY <1>0, <1>1 DEF TipadoCh
<1>5. GuardadoConfiado'
  <2>1. Confiada(Banco(arqCh, ok))
    BY <1>0, <1>2, ChavesDeLinhas DEF GuardadoConfiado, Confiada
  <2>2. \A x \in AbasCh : Confiada(abaCh'[x].banco) /\ \A l \in ToSet(abaCh'[x].banco) : Legivel(l)
    BY <1>0, <1>1, <1>2, <2>1 DEF GuardadoConfiado
  <2>3. \A s : Confiada(s) => Confiada(s)'
    BY DEF Confiada
  <2> QED
    BY <1>0, <1>1, <2>2, <2>3 DEF GuardadoConfiado
<1>6. RespostaCerta'
  BY <1>0, <1>1, Fixos DEF RespostaCerta
<1>7. UmaPorVez'
  BY <1>0, <1>1, Fixos DEF UmaPorVez, Gravando
<1>8. ChaveVista'
  <2>1. ASSUME a \in Perguntas, abaCh'[a].tinha
        PROVE  \E l \in ToSet(abaCh'[a].banco) : Nomeia(l, HostDe[a])
    <3>1. ok /\ \E l \in ToSet(arqCh.linhas) : Legivel(l) /\ Nomeia(l, HostDe[a])
      BY <1>1, <2>1 DEF ChavesNo
    <3>2. arqCh.existe
      BY <1>0, <3>1, SemLinhas DEF ChaveVista, TipadoCh
    <3> QED
      BY <1>1, <1>2, <3>1, <3>2
  <2> QED
    BY <1>0, <1>1, <2>1, Fixos DEF ChaveVista
<1>9. Lembrada'
  <2>1. \A x \in Perguntas : Lembra(x) => Lembra(x)'
    BY <1>1, Fixos DEF Lembra, DoMesmo
  <2>2. \A x \in Perguntas : DoMesmo(x)' => DoMesmo(x)
    BY <1>1 DEF DoMesmo
  <2>3. \A x \in AbasCh : abaCh'[x].confirmada = abaCh[x].confirmada
    BY <1>1
  <2>4. ASSUME NEW x \in Perguntas, Sereno', SemHash(arqCh.linhas, HostDe[x]),
               abaCh[x].confirmada # "nenhuma", abaCh'[x].fase = "disca", ~abaCh'[x].noMeio
        PROVE  SoTem(abaCh'[x].banco, HostDe[x], abaCh[x].confirmada)
    <3>1. CASE x = a
      <4>1. ok = TRUE /\ Sereno /\ abaCh'[a].banco = Banco(arqCh, TRUE)
        BY <1>1, <1>3, <2>4
      <4> QED
        BY <1>1, <2>4, <3>1, <4>1, BancoDaAba
    <3>2. CASE x # a
      BY <1>0, <1>1, <1>3, <2>4, <3>2, Fixos DEF Lembrada
    <3> QED
      BY <3>1, <3>2
  <2> QED
    BY <1>0, <1>1, <1>3, <2>1, <2>2, <2>3, <2>4, Fixos DEF Lembrada
<1>10. RepetiuSo'
  BY <1>0, <1>1, <1>3 DEF RepetiuSo
<1>11. SoConfiada'
  BY <1>0, <1>1 DEF SoConfiada
<1> QED
  BY <1>4, <1>5, <1>6, <1>7, <1>8, <1>9, <1>10, <1>11 DEF InvCh

\* A connection begins, by a gesture or by an answer.
LEMMA ComecarGuarda ==
  ASSUME InvCh, NEW a \in AbasCh, ComecarCh(a) \/ Retomar(a)
  PROVE  InvCh'
<1>0. limCh \in Limites /\ modalCh \in Modais /\ UmaPorVez
  BY DEF InvCh, TipadoCh
<1>1. CASE ComecarCh(a)
  <2>1. PICK ok \in BOOLEAN :
          /\ limCh' = [limCh EXCEPT !.tent[a] = @ + 1, !.falhas = IF ok THEN @ ELSE @ + 1]
          /\ CarregarCh(a, ok)
    BY <1>1 DEF ComecarCh
  <2>2. /\ limCh' \in Limites /\ limCh'.confiadas = limCh.confiadas /\ limCh'.outros = limCh.outros
        /\ limCh'.falhas = IF ok THEN limCh.falhas ELSE limCh.falhas + 1
        /\ \A x \in AbasCh : x # a => limCh'.tent[x] = limCh.tent[x]
        /\ limCh'.tent[a] # 0
    <3> DEFINE t == [limCh.tent EXCEPT ![a] = @ + 1]
               n == IF ok THEN limCh.falhas ELSE limCh.falhas + 1
    <3>1. /\ limCh.tent \in [AbasCh -> Nat] /\ limCh.falhas \in Nat
      BY <1>0 DEF Limites
    <3>2. t \in [AbasCh -> Nat] /\ (\A x \in AbasCh : x # a => t[x] = limCh.tent[x]) /\ t[a] # 0
          /\ n \in Nat
      BY <3>1
    <3>3. limCh' = [limCh EXCEPT !.tent = t, !.falhas = n]
      BY <1>0, <2>1 DEF Limites
    <3> HIDE DEF t, n
    <3>4. /\ limCh' \in Limites /\ limCh'.confiadas = limCh.confiadas
          /\ limCh'.outros = limCh.outros /\ limCh'.falhas = n /\ limCh'.tent = t
      BY <1>0, <3>2, <3>3 DEF Limites
    <3> QED
      BY <3>2, <3>4 DEF n
  <2>3. a \in Perguntas => modalCh.aba # a /\ ~Gravando(a)
    <3>1. limCh.tent[a] = 0 \/ (modalCh.aba = "nenhuma" /\ gravaCh.fase = "livre")
      <4>1. limCh.tent[a] = 0 \/ (modalCh = SemModal /\ gravaCh.fase = "livre")
        BY <1>1, Zenon DEF ComecarCh
      <4>2. SemModal.aba = "nenhuma"
        BY DEF SemModal
      <4> QED
        BY <4>1, <4>2
    <3> QED
      BY <1>0, <3>1, Fixos DEF UmaPorVez, Gravando
  <2> QED
    BY <2>1, <2>2, <2>3, CarregarGuarda
<1>2. CASE Retomar(a)
  <2>1. PICK ok \in BOOLEAN : Disco(ok) /\ CarregarCh(a, ok)
    BY <1>2 DEF Retomar
  <2>2. /\ limCh' \in Limites /\ limCh'.confiadas = limCh.confiadas /\ limCh'.outros = limCh.outros
        /\ limCh'.falhas = IF ok THEN limCh.falhas ELSE limCh.falhas + 1
        /\ limCh'.tent = limCh.tent
    BY <1>0, <2>1, TiposDoDisco
  <2>3. a \in Perguntas
    <3>1. a \notin AbasRdp
      BY <1>2 DEF Retomar, InvCh, RespostaCerta
    <3> QED
      BY <3>1, Fixos
  <2>4. modalCh.aba # a /\ ~Gravando(a) /\ limCh.tent[a] # 0
    BY <1>0, <1>2, <2>3 DEF Retomar, UmaPorVez
  <2> QED
    BY <2>1, <2>2, <2>4, CarregarGuarda
<1> QED
  BY <1>1, <1>2

\* The key of the server is checked, and asked about.
LEMMA ReceberChaveGuarda ==
  ASSUME InvCh, NEW a \in AbasCh, ReceberChave(a)
  PROVE  InvCh'
<1> DEFINE h == HostDe[a]
           k == servCh[h]
           v == IF a \in AbasRdp THEN VerificarCert(h, k) ELSE Verificar(abaCh[a].banco, h, k)
           f == IF abaCh[a].fechada THEN "fim" ELSE IF v = "ok" THEN "ligada"
                ELSE IF a \in AbasSftp THEN "parada" ELSE "espera"
           p == v # "ok" /\ a \notin AbasRdp /\ k = abaCh[a].confirmada
           r == [abaCh[a] EXCEPT !.chave = k, !.achou = v, !.fase = f, !.repetiu = p]
<1>0. /\ TipadoCh /\ GuardadoConfiado /\ RespostaCerta /\ UmaPorVez /\ ChaveVista /\ Lembrada
      /\ RepetiuSo /\ SoConfiada
  BY DEF InvCh
<1>1. abaCh \in [AbasCh -> AbasDeChave] /\ abaCh[a] \in AbasDeChave /\ modalCh \in Modais
  BY <1>0 DEF TipadoCh
<1>2. h \in HostsCh /\ k \in ChavesCh
  BY <1>0, Fixos DEF TipadoCh
<1>3. /\ abaCh[a].fase = "disca" /\ abaCh' = [abaCh EXCEPT ![a] = r]
      /\ IF v = "ok" THEN UNCHANGED modalCh
         ELSE modalCh' = [aba |-> a, chave |-> k, mudou |-> v = "mudou",
                          pronto |-> ~(a \in AbasRdp /\ v = "mudou")]
      /\ UNCHANGED <<arqCh, certCh, servCh, gravaCh, limCh>>
  BY <1>1 DEF ReceberChave, AbrirDialogo, AbasDeChave
<1>4. /\ v \in {"ok", "desconhecida", "mudou"}
      /\ a \notin AbasRdp =>
           /\ v = "ok" => \E l \in ToSet(abaCh[a].banco) : Nomeia(l, h) /\ l.chave = k
           /\ (\E l \in ToSet(abaCh[a].banco) : Nomeia(l, h)) => v # "desconhecida"
           /\ SoTem(abaCh[a].banco, h, k) => v = "ok"
      /\ a \in AbasRdp /\ v = "ok" => k \in certCh[h]
  <2>1. CASE a \in AbasRdp
    BY <2>1 DEF VerificarCert
  <2>2. CASE a \notin AbasRdp
    <3>1. abaCh[a].banco \in Seq(LinhasCh)
      BY <1>1 DEF AbasDeChave
    <3> QED
      BY <2>2, <3>1, Verificacao
  <2> QED
    BY <2>1, <2>2
<1>5. f \in {"fim", "ligada", "parada", "espera"} /\ (f = "ligada" => v = "ok") /\ p \in BOOLEAN
  OBVIOUS
<1>6. p => v # "ok" /\ a \in Perguntas /\ k = abaCh[a].confirmada
  BY Fixos
<1> HIDE DEF v, f, p
<1>7. /\ r \in AbasDeChave /\ r.fase = f /\ r.chave = k /\ r.achou = v /\ r.repetiu = p
      /\ r.banco = abaCh[a].banco /\ r.tinha = abaCh[a].tinha /\ r.noMeio = abaCh[a].noMeio
      /\ r.resposta = abaCh[a].resposta /\ r.confirmada = abaCh[a].confirmada
  <2>1. v \in {"ok", "desconhecida", "mudou"} /\ f \in FasesCh /\ p \in BOOLEAN /\ k \in ComNenhuma
    BY <1>2, <1>4, <1>5 DEF FasesCh, ComNenhuma
  <2> HIDE DEF h, k
  <2> QED
    BY <1>1, <2>1 DEF AbasDeChave
<1> HIDE DEF r
<1>8. abaCh' \in [AbasCh -> AbasDeChave] /\ abaCh'[a] = r /\ \A x \in AbasCh : x # a => abaCh'[x] = abaCh[x]
  BY <1>1, <1>3, <1>7, UmaAba
<1>9. /\ modalCh' \in Modais
      /\ modalCh' = modalCh \/ (modalCh'.aba = a /\ modalCh'.chave = k /\ v # "ok")
  <2> DEFINE m == v = "mudou"
             e == ~(a \in AbasRdp /\ v = "mudou")
             n == [aba |-> a, chave |-> k, mudou |-> m, pronto |-> e]
  <2>1. m \in BOOLEAN /\ e \in BOOLEAN
    OBVIOUS
  <2>2. IF v = "ok" THEN modalCh' = modalCh ELSE modalCh' = n
    BY <1>3
  <2> HIDE DEF m, e
  <2>3. n \in Modais /\ n.aba = a /\ n.chave = k
    BY <1>2, <2>1 DEF Modais, ComNenhuma
  <2> HIDE DEF n
  <2> QED
    BY <1>1, <2>2, <2>3
<1>10. UNCHANGED <<arqCh, certCh, servCh, gravaCh, limCh>> /\ abaCh[a].fase = "disca"
  BY <1>3
<1> HIDE DEF h, k
<1>11. \A x \in AbasCh :
         /\ abaCh'[x].banco = abaCh[x].banco /\ abaCh'[x].tinha = abaCh[x].tinha
         /\ abaCh'[x].noMeio = abaCh[x].noMeio /\ abaCh'[x].resposta = abaCh[x].resposta
         /\ abaCh'[x].confirmada = abaCh[x].confirmada
         /\ abaCh'[x].fase = "disca" => abaCh[x].fase = "disca"
  <2>1. f # "disca"
    BY <1>5
  <2> QED
    BY <1>7, <1>8, <2>1
<1>12. TipadoCh'
  BY <1>0, <1>8, <1>9, <1>10 DEF TipadoCh
<1>13. GuardadoConfiado'
  BY <1>0, <1>10, <1>11 DEF GuardadoConfiado, Confiada, ChavesNo
<1>14. RespostaCerta'
  <2>1. modalCh'.aba # "nenhuma" => modalCh'.chave \in ChavesCh
    BY <1>0, <1>2, <1>9 DEF RespostaCerta
  <2> SUFFICES ASSUME NEW x \in AbasRdp
               PROVE  /\ abaCh'[x].resposta # "sim" /\ (abaCh'[x].fase = "disca" => abaCh'[x].resposta = "nenhuma")
                      /\ abaCh'[x].fase = "espera" /\ modalCh'.aba = x => modalCh'.chave = abaCh'[x].chave
                      /\ abaCh'[x].fase = "espera" /\ abaCh'[x].resposta \notin {"nenhuma", "recusar"} =>
                           abaCh'[x].chave \in limCh'.confiadas[HostDe[x]]
    BY <2>1 DEF RespostaCerta
  <2>2. CASE x = a
    <3>1. abaCh'[x].resposta = "nenhuma"
      BY <1>0, <1>10, <1>11, <2>2, Fixos DEF RespostaCerta
    <3>2. abaCh'[x].fase = "espera" => modalCh'.aba = a /\ modalCh'.chave = k
      <4>1. f = "espera" => v # "ok"
        BY DEF f
      <4> QED
        BY <1>3, <1>7, <1>8, <2>2, <4>1
    <3> QED
      BY <1>7, <1>8, <2>2, <3>1, <3>2
  <2>3. CASE x # a
    BY <1>0, <1>8, <1>9, <1>10, <2>3, Fixos DEF RespostaCerta
  <2> QED
    BY <2>2, <2>3
<1>15. UmaPorVez'
  BY <1>0, <1>5, <1>7, <1>8, <1>9, <1>10, Fixos DEF UmaPorVez, Gravando
<1>16. ChaveVista'
  <2>1. ASSUME a \in Perguntas, abaCh'[a].tinha PROVE abaCh'[a].achou # "desconhecida"
    BY <1>0, <1>4, <1>7, <1>8, <1>10, <2>1, Fixos DEF ChaveVista, h
  <2> QED
    BY <1>0, <1>8, <1>9, <1>10, <1>11, <2>1, Fixos DEF ChaveVista
<1>17. Lembrada'
  <2>1. \A x \in Perguntas : Lembra(x) => Lembra(x)'
    BY <1>10, <1>11, Fixos DEF Lembra, DoMesmo
  <2>2. \A x \in Perguntas : DoMesmo(x)' => DoMesmo(x)
    BY <1>10 DEF DoMesmo
  <2>3. Sereno' => Sereno
    BY <1>10 DEF Sereno
  <2> QED
    BY <1>0, <1>10, <1>11, <2>1, <2>2, <2>3, Fixos DEF Lembrada
<1>18. RepetiuSo'
  <2> SUFFICES ASSUME NEW x \in AbasCh, abaCh'[x].repetiu, Sereno, ~abaCh[x].noMeio,
                      SemHash(arqCh.linhas, HostDe[x])
               PROVE  FALSE
    BY <1>10, <1>11 DEF RepetiuSo, Sereno
  <2>1. CASE x # a
    BY <1>0, <1>8, <2>1 DEF RepetiuSo
  <2>2. CASE x = a
    <3>1. p
      BY <1>7, <1>8, <2>2
    <3>2. abaCh[a].confirmada # "nenhuma"
      BY <1>2, <1>6, <3>1, Fixos
    <3>3. SoTem(abaCh[a].banco, h, k)
      BY <1>0, <1>6, <1>10, <2>2, <3>1, <3>2 DEF Lembrada, h
    <3> QED
      BY <1>4, <1>6, <3>1, <3>3, Fixos
  <2> QED
    BY <2>1, <2>2
<1>19. SoConfiada'
  <2>1. ASSUME f = "ligada" PROVE k \in limCh.confiadas[h]
    <3>1. v = "ok"
      BY <1>5, <2>1
    <3>2. CASE a \in AbasRdp
      BY <1>0, <1>2, <1>4, <3>1, <3>2 DEF GuardadoConfiado
    <3>3. CASE a \notin AbasRdp
      <4>1. PICK l \in ToSet(abaCh[a].banco) : Nomeia(l, h) /\ l.chave = k
        BY <1>4, <3>1, <3>3
      <4>2. k \in ChavesNo(abaCh[a].banco, h)
        BY <1>0, <4>1 DEF ChavesNo, GuardadoConfiado
      <4> QED
        BY <1>0, <1>2, <4>2 DEF GuardadoConfiado, Confiada
    <3> QED
      BY <3>2, <3>3
  <2> QED
    BY <1>0, <1>7, <1>8, <1>10, <2>1 DEF SoConfiada, h
<1> QED
  BY <1>12, <1>13, <1>14, <1>15, <1>16, <1>17, <1>18, <1>19 DEF InvCh

-----------------------------------------------------------------------------
(* Confiar, the dialogs and the ssh command. *)

\* The child goes on with the answer, which was about its key.
LEMMA ReceberRespostaGuarda ==
  ASSUME InvCh, NEW a \in AbasCh, ReceberResposta(a)
  PROVE  InvCh'
<1> DEFINE v == abaCh[a].resposta
           f == IF v = "recusar" THEN "parada" ELSE "ligada"
           r == [abaCh[a] EXCEPT !.fase = f, !.resposta = "nenhuma"]
           c == IF v = "salvo" THEN [certCh EXCEPT ![HostDe[a]] = {abaCh[a].chave}] ELSE certCh
<1>0. /\ TipadoCh /\ GuardadoConfiado /\ RespostaCerta /\ UmaPorVez /\ ChaveVista /\ Lembrada
      /\ RepetiuSo /\ SoConfiada
  BY DEF InvCh
<1>1. abaCh \in [AbasCh -> AbasDeChave] /\ abaCh[a] \in AbasDeChave /\ certCh \in [HostsCh -> SUBSET ChavesCh]
  BY <1>0 DEF TipadoCh
<1>2. /\ a \in AbasRdp /\ abaCh[a].fase = "espera" /\ v # "nenhuma"
      /\ abaCh' = [abaCh EXCEPT ![a] = r] /\ certCh' = c
      /\ UNCHANGED <<arqCh, servCh, modalCh, gravaCh, limCh>>
  BY <1>1 DEF ReceberResposta, AbasDeChave
<1>3. v # "recusar" => abaCh[a].chave \in limCh.confiadas[HostDe[a]]
  BY <1>0, <1>2 DEF RespostaCerta
<1>4. /\ HostDe[a] \in HostsCh /\ a \notin Perguntas
      /\ limCh.confiadas[HostDe[a]] \subseteq ChavesCh
  BY <1>0, <1>2, Fixos DEF TipadoCh, Limites
<1>5. /\ c \in [HostsCh -> SUBSET ChavesCh]
      /\ \A h \in HostsCh : c[h] \subseteq limCh.confiadas[h]
  <2>1. \A h \in HostsCh : certCh[h] \subseteq limCh.confiadas[h]
    BY <1>0 DEF GuardadoConfiado
  <2> HIDE DEF v
  <2>2. CASE v = "salvo"
    BY <1>1, <1>3, <1>4, <2>1, <2>2
  <2>3. CASE v # "salvo"
    BY <1>1, <2>1, <2>3
  <2> QED
    BY <2>2, <2>3
<1>6. /\ r \in AbasDeChave /\ r.fase = f /\ r.resposta = "nenhuma" /\ r.chave = abaCh[a].chave
      /\ r.banco = abaCh[a].banco /\ r.tinha = abaCh[a].tinha /\ r.noMeio = abaCh[a].noMeio
      /\ r.confirmada = abaCh[a].confirmada /\ r.repetiu = abaCh[a].repetiu
  BY <1>1 DEF AbasDeChave, FasesCh
<1>7. f \in {"parada", "ligada"} /\ (f = "ligada" => abaCh[a].chave \in limCh.confiadas[HostDe[a]])
  BY <1>3
<1> HIDE DEF r, c, f, v
<1>8. abaCh' \in [AbasCh -> AbasDeChave] /\ abaCh'[a] = r /\ \A x \in AbasCh : x # a => abaCh'[x] = abaCh[x]
  BY <1>1, <1>2, <1>6, UmaAba
<1>9. /\ UNCHANGED <<arqCh, servCh, modalCh, gravaCh, limCh>> /\ certCh' = c
      /\ \A x \in Perguntas : x \in AbasCh /\ abaCh'[x] = abaCh[x]
  BY <1>2, <1>4, <1>8, Fixos
<1>10. TipadoCh'
  BY <1>0, <1>5, <1>8, <1>9 DEF TipadoCh
<1>11. GuardadoConfiado'
  <2>1. \A x \in AbasCh : abaCh'[x].banco = abaCh[x].banco
    BY <1>6, <1>8
  <2> QED
    BY <1>0, <1>5, <1>9, <2>1 DEF GuardadoConfiado, Confiada, ChavesNo
<1>12. RespostaCerta'
  BY <1>0, <1>6, <1>7, <1>8, <1>9, Fixos DEF RespostaCerta
<1>13. UmaPorVez'
  BY <1>0, <1>9 DEF UmaPorVez, Gravando
<1>14. ChaveVista'
  BY <1>0, <1>9 DEF ChaveVista
<1>15. Lembrada'
  BY <1>0, <1>9 DEF Lembrada, Lembra, DoMesmo, Sereno
<1>16. RepetiuSo'
  BY <1>0, <1>6, <1>8, <1>9 DEF RepetiuSo, Sereno
<1>17. SoConfiada'
  BY <1>0, <1>6, <1>7, <1>8, <1>9 DEF SoConfiada
<1> QED
  BY <1>10, <1>11, <1>12, <1>13, <1>14, <1>15, <1>16, <1>17 DEF InvCh

\* What is trusted of one server grows.
Confia(h, X) == limCh' = [limCh EXCEPT !.confiadas[h] = @ \union X]

\* So the rest of the bounds stays.
LEMMA MaisUma ==
  ASSUME limCh \in Limites, NEW h \in HostsCh, NEW X \in SUBSET ChavesCh,
         Confia(h, X)
  PROVE  /\ limCh' \in Limites /\ limCh'.tent = limCh.tent /\ limCh'.novas = limCh.novas
         /\ limCh'.outros = limCh.outros /\ limCh'.falhas = limCh.falhas
         /\ limCh'.confiadas[h] = limCh.confiadas[h] \union X
         /\ \A x \in HostsCh : limCh.confiadas[x] \subseteq limCh'.confiadas[x]
<1> DEFINE c == [limCh.confiadas EXCEPT ![h] = @ \union X]
<1>1. limCh.confiadas \in [HostsCh -> SUBSET ChavesCh]
  BY DEF Limites
<1>2. /\ c \in [HostsCh -> SUBSET ChavesCh] /\ c[h] = limCh.confiadas[h] \union X
      /\ \A x \in HostsCh : limCh.confiadas[x] \subseteq c[x]
  BY <1>1
<1>3. limCh' = [limCh EXCEPT !.confiadas = c]
  BY DEF Limites, Confia
<1> HIDE DEF c
<1>4. /\ limCh' \in Limites /\ limCh'.tent = limCh.tent /\ limCh'.novas = limCh.novas
      /\ limCh'.outros = limCh.outros /\ limCh'.falhas = limCh.falhas /\ limCh'.confiadas = c
  BY <1>2, <1>3 DEF Limites
<1> QED
  BY <1>2, <1>4

\* The operator confirms the key of the question.
LEMMA ClicarGuarda ==
  ASSUME InvCh, ClicarConfiar
  PROVE  InvCh'
<1> DEFINE a == modalCh.aba
           k == modalCh.chave
           g == [fase |-> "remove", aba |-> a, chave |-> k, linhas |-> <<>>]
           F(x) == IF x = a THEN [abaCh[x] EXCEPT !.confirmada = k]
                   ELSE IF HostDe[x] = HostDe[a] /\ abaCh[x].confirmada # k
                   THEN [abaCh[x] EXCEPT !.confirmada = "nenhuma"] ELSE abaCh[x]
<1>0. /\ TipadoCh /\ GuardadoConfiado /\ RespostaCerta /\ UmaPorVez /\ ChaveVista /\ Lembrada
      /\ RepetiuSo /\ SoConfiada
  BY DEF InvCh
<1>1. /\ gravaCh.fase = "livre" /\ a \in Perguntas /\ gravaCh' = g
      /\ limCh' = [limCh EXCEPT !.confiadas[HostDe[a]] = @ \union {k}]
      /\ abaCh' = [x \in AbasCh |-> F(x)]
      /\ UNCHANGED <<arqCh, certCh, servCh, modalCh>>
  BY DEF ClicarConfiar, Perguntas
<1>2. a \in AbasCh /\ HostDe[a] \in HostsCh /\ k \in ChavesCh /\ k # "nenhuma"
  BY <1>0, <1>1, Fixos DEF RespostaCerta
<1> HIDE DEF a, k
<1>3. \A x \in AbasCh :
        /\ F(x) \in AbasDeChave
        /\ F(x).fase = abaCh[x].fase /\ F(x).banco = abaCh[x].banco /\ F(x).tinha = abaCh[x].tinha
        /\ F(x).noMeio = abaCh[x].noMeio /\ F(x).chave = abaCh[x].chave /\ F(x).achou = abaCh[x].achou
        /\ F(x).resposta = abaCh[x].resposta /\ F(x).repetiu = abaCh[x].repetiu
        /\ F(x).confirmada = IF x = a THEN k
                             ELSE IF HostDe[x] = HostDe[a] /\ abaCh[x].confirmada # k THEN "nenhuma"
                             ELSE abaCh[x].confirmada
  <2> SUFFICES ASSUME NEW x \in AbasCh
               PROVE
        /\ F(x) \in AbasDeChave
        /\ F(x).fase = abaCh[x].fase /\ F(x).banco = abaCh[x].banco /\ F(x).tinha = abaCh[x].tinha
        /\ F(x).noMeio = abaCh[x].noMeio /\ F(x).chave = abaCh[x].chave /\ F(x).achou = abaCh[x].achou
        /\ F(x).resposta = abaCh[x].resposta /\ F(x).repetiu = abaCh[x].repetiu
        /\ F(x).confirmada = IF x = a THEN k
                             ELSE IF HostDe[x] = HostDe[a] /\ abaCh[x].confirmada # k THEN "nenhuma"
                             ELSE abaCh[x].confirmada
    OBVIOUS
  <2>1. abaCh[x] \in AbasDeChave /\ k \in ComNenhuma /\ "nenhuma" \in ComNenhuma
    BY <1>0, <1>2 DEF TipadoCh, ComNenhuma
  <2>2. CASE x = a
    BY <2>1, <2>2 DEF AbasDeChave
  <2>3. CASE x # a /\ HostDe[x] = HostDe[a] /\ abaCh[x].confirmada # k
    BY <2>1, <2>3 DEF AbasDeChave
  <2>4. CASE x # a /\ ~(HostDe[x] = HostDe[a] /\ abaCh[x].confirmada # k)
    BY <2>1, <2>4 DEF AbasDeChave
  <2> QED
    BY <2>2, <2>3, <2>4
<1>4. abaCh' \in [AbasCh -> AbasDeChave] /\ \A x \in AbasCh : abaCh'[x] = F(x)
  <2>1. \A x \in AbasCh : F(x) \in AbasDeChave
    BY <1>3
  <2> HIDE DEF F
  <2> QED
    BY <1>1, <2>1
<1> HIDE DEF F
<1>5. \A x \in AbasCh :
        /\ abaCh'[x].fase = abaCh[x].fase /\ abaCh'[x].banco = abaCh[x].banco
        /\ abaCh'[x].tinha = abaCh[x].tinha /\ abaCh'[x].noMeio = abaCh[x].noMeio
        /\ abaCh'[x].chave = abaCh[x].chave /\ abaCh'[x].achou = abaCh[x].achou
        /\ abaCh'[x].resposta = abaCh[x].resposta /\ abaCh'[x].repetiu = abaCh[x].repetiu
        /\ abaCh'[x].confirmada = IF x = a THEN k
                             ELSE IF HostDe[x] = HostDe[a] /\ abaCh[x].confirmada # k THEN "nenhuma"
                             ELSE abaCh[x].confirmada
  BY <1>3, <1>4
<1>6. /\ limCh' \in Limites /\ limCh'.tent = limCh.tent
      /\ limCh'.outros = limCh.outros /\ limCh'.falhas = limCh.falhas
      /\ k \in limCh'.confiadas[HostDe[a]]
      /\ \A x \in HostsCh : limCh.confiadas[x] \subseteq limCh'.confiadas[x]
  <2>1. limCh \in Limites /\ {k} \in SUBSET ChavesCh
    BY <1>0, <1>2 DEF TipadoCh
  <2>2. Confia(HostDe[a], {k})
    BY <1>1 DEF Confia
  <2>3. k \in {k}
    OBVIOUS
  <2>4. \A X \in SUBSET ChavesCh : Confia(HostDe[a], X) /\ k \in X =>
          /\ limCh' \in Limites /\ limCh'.tent = limCh.tent
          /\ limCh'.outros = limCh.outros /\ limCh'.falhas = limCh.falhas
          /\ k \in limCh'.confiadas[HostDe[a]]
          /\ \A x \in HostsCh : limCh.confiadas[x] \subseteq limCh'.confiadas[x]
    BY <1>2, <2>1, MaisUma
  <2> QED
    BY <2>1, <2>2, <2>3, <2>4
<1>7. /\ gravaCh' \in Gravas /\ gravaCh'.fase = "remove" /\ gravaCh'.aba = a /\ gravaCh'.chave = k
      /\ gravaCh'.linhas = <<>>
  <2>1. \A s \in Seq(LinhasCh) : [fase |-> "remove", aba |-> a, chave |-> k, linhas |-> s] \in Gravas
    BY <1>2 DEF Gravas, ComNenhuma
  <2>2. g \in Gravas
    BY <2>1, SemLinhas
  <2> QED
    BY <1>1, <2>2
<1> HIDE DEF g
<1>8. UNCHANGED <<arqCh, certCh, servCh, modalCh>> /\ gravaCh.fase = "livre" /\ modalCh.aba = a
      /\ a \in Perguntas
  BY <1>1 DEF a
<1>9. TipadoCh'
  BY <1>0, <1>4, <1>6, <1>7, <1>8 DEF TipadoCh
<1>10. GuardadoConfiado'
  <2>1. \A s : Confiada(s) => Confiada(s)'
    BY <1>6 DEF Confiada
  <2>2. Confiada(<<>>)
    BY SemLinhas DEF Confiada
  <2>3. Confiada(arqCh.linhas)' /\ Confiada(gravaCh.linhas)'
    BY <1>0, <1>7, <1>8, <2>1, <2>2 DEF GuardadoConfiado
  <2>4. \A x \in AbasCh : Confiada(abaCh[x].banco)' /\ \A l \in ToSet(abaCh'[x].banco) : Legivel(l)
    BY <1>0, <1>5, <2>1 DEF GuardadoConfiado
  <2>5. \A h \in HostsCh : certCh'[h] \subseteq limCh'.confiadas[h]
    BY <1>0, <1>6, <1>8 DEF GuardadoConfiado
  <2> QED
    BY <1>6, <1>7, <1>8, <2>3, <2>4, <2>5 DEF GuardadoConfiado
<1>11. RespostaCerta'
  <2>1. \A x \in AbasRdp : x \in AbasCh /\ HostDe[x] \in HostsCh
    BY Fixos
  <2> QED
    BY <1>0, <1>5, <1>6, <1>8, <2>1 DEF RespostaCerta
<1>12. UmaPorVez'
  BY <1>0, <1>5, <1>6, <1>7, <1>8, Fixos DEF UmaPorVez, Gravando
<1>13. ChaveVista'
  BY <1>0, <1>5, <1>8, Fixos DEF ChaveVista
<1>14. Lembrada'
  <2>1. \A x \in Perguntas : DoMesmo(x)' => abaCh'[x].confirmada \in {"nenhuma", gravaCh'.chave}
    BY <1>5, <1>7, Fixos DEF DoMesmo
  <2>2. Sereno' => Sereno
    BY <1>6 DEF Sereno
  <2>3. ASSUME NEW x \in Perguntas, Sereno', SemHash(arqCh.linhas, HostDe[x]), abaCh'[x].confirmada # "nenhuma",
               x # a
        PROVE  /\ abaCh'[x].confirmada = abaCh[x].confirmada
               /\ SoTem(arqCh.linhas, HostDe[x], abaCh[x].confirmada)
               /\ abaCh[x].fase = "disca" /\ ~abaCh[x].noMeio =>
                    SoTem(abaCh[x].banco, HostDe[x], abaCh[x].confirmada)
    <3>1. abaCh'[x].confirmada = abaCh[x].confirmada
      BY <1>5, <2>3, Fixos
    <3>2. Lembra(x) /\ (abaCh[x].fase = "disca" /\ ~abaCh[x].noMeio =>
                    SoTem(abaCh[x].banco, HostDe[x], abaCh[x].confirmada))
      BY <1>0, <2>2, <2>3, <3>1 DEF Lembrada
    <3> QED
      BY <1>8, <3>1, <3>2 DEF Lembra, DoMesmo
  <2>4. ASSUME NEW x \in Perguntas, Sereno', SemHash(arqCh.linhas, HostDe[x]), abaCh'[x].confirmada # "nenhuma"
        PROVE  /\ Lembra(x)'
               /\ abaCh'[x].fase = "disca" /\ ~abaCh'[x].noMeio =>
                    SoTem(abaCh'[x].banco, HostDe[x], abaCh'[x].confirmada)
    <3>1. CASE x = a
      <4>1. abaCh'[x].fase # "disca"
        BY <1>0, <1>5, <1>8, <3>1, Fixos DEF UmaPorVez
      <4>2. Lembra(x)'
        BY <1>7, <3>1 DEF Lembra, DoMesmo
      <4> QED
        BY <4>1, <4>2
    <3>2. CASE x # a
      <4>1. /\ abaCh'[x].confirmada = abaCh[x].confirmada
            /\ SoTem(arqCh.linhas, HostDe[x], abaCh[x].confirmada)
            /\ abaCh[x].fase = "disca" /\ ~abaCh[x].noMeio =>
                    SoTem(abaCh[x].banco, HostDe[x], abaCh[x].confirmada)
        BY <2>3, <2>4, <3>2
      <4>2. Lembra(x)'
        BY <1>7, <1>8, <4>1 DEF Lembra
      <4>3. abaCh'[x].fase = abaCh[x].fase /\ abaCh'[x].noMeio = abaCh[x].noMeio
            /\ abaCh'[x].banco = abaCh[x].banco
        BY <1>5, Fixos
      <4> QED
        BY <4>1, <4>2, <4>3
    <3> QED
      BY <3>1, <3>2
  <2>5. gravaCh'.fase # "troca"
    BY <1>7
  <2> QED
    BY <1>8, <2>1, <2>4, <2>5 DEF Lembrada
<1>15. RepetiuSo'
  BY <1>0, <1>5, <1>6, <1>8 DEF RepetiuSo, Sereno
<1>16. SoConfiada'
  BY <1>0, <1>5, <1>6, Fixos DEF SoConfiada
<1> QED
  BY <1>9, <1>10, <1>11, <1>12, <1>13, <1>14, <1>15, <1>16 DEF InvCh

\* What a step of Confiar has to keep.
Gravou ==
  /\ gravaCh' \in Gravas /\ gravaCh.fase # "livre" /\ gravaCh'.fase # "livre"
  /\ gravaCh'.aba = gravaCh.aba /\ gravaCh'.chave = gravaCh.chave
  /\ arqCh'.linhas \in Seq(LinhasCh) /\ arqCh'.existe \in BOOLEAN
  /\ ~arqCh'.existe => arqCh'.linhas = <<>>
  /\ Confiada(arqCh'.linhas) /\ Confiada(gravaCh'.linhas)
  /\ \A h \in HostsCh : Sereno' /\ SemHash(arqCh'.linhas, h) => SemHash(arqCh.linhas, h)
  /\ \A x \in Perguntas :
       Sereno' /\ SemHash(arqCh'.linhas, HostDe[x]) /\ abaCh[x].confirmada # "nenhuma" /\ Lembra(x)
         => Lembra(x)'
  /\ Sereno' /\ gravaCh'.fase = "troca" =>
       gravaCh'.linhas = Mantidas(arqCh'.linhas, HostDe[gravaCh'.aba])

\* A step that keeps that keeps the invariant.
LEMMA GravarGuarda ==
  ASSUME InvCh, NEW ok \in BOOLEAN, Disco(ok), UNCHANGED <<certCh, servCh, abaCh, modalCh>>, Gravou
  PROVE  InvCh'
<1>0. /\ TipadoCh /\ GuardadoConfiado /\ RespostaCerta /\ UmaPorVez /\ ChaveVista /\ Lembrada
      /\ RepetiuSo /\ SoConfiada
  BY DEF InvCh
<1>1. /\ limCh' \in Limites
      /\ limCh'.tent = limCh.tent /\ limCh'.outros = limCh.outros
      /\ limCh'.confiadas = limCh.confiadas
      /\ limCh'.falhas \in Nat /\ limCh.falhas \in Nat
      /\ limCh'.falhas = IF ok THEN limCh.falhas ELSE limCh.falhas + 1
  BY <1>0, TiposDoDisco DEF TipadoCh
<1>2. Sereno' => Sereno
  BY <1>1 DEF Sereno
<1>3. TipadoCh'
  BY <1>0, <1>1 DEF TipadoCh, Gravou
<1>4. GuardadoConfiado'
  BY <1>0, <1>1 DEF GuardadoConfiado, Confiada, Gravou
<1>5. RespostaCerta'
  BY <1>0, <1>1 DEF RespostaCerta
<1>6. UmaPorVez'
  BY <1>0, <1>1 DEF UmaPorVez, Gravando, Gravou
<1>7. ChaveVista'
  BY <1>0 DEF ChaveVista, Gravou
<1>8. Lembrada'
  <2>1. \A x \in Perguntas : DoMesmo(x)' => DoMesmo(x) /\ gravaCh'.chave = gravaCh.chave
    BY DEF DoMesmo, Gravou
  <2>2. ASSUME NEW x \in Perguntas, Sereno', SemHash(arqCh'.linhas, HostDe[x]), abaCh[x].confirmada # "nenhuma"
        PROVE  /\ Lembra(x)'
               /\ abaCh[x].fase = "disca" /\ ~abaCh[x].noMeio =>
                    SoTem(abaCh[x].banco, HostDe[x], abaCh[x].confirmada)
    <3>1. Sereno /\ SemHash(arqCh.linhas, HostDe[x])
      BY <1>2, <2>2, Fixos DEF Gravou
    <3>2. Lembra(x) /\ (abaCh[x].fase = "disca" /\ ~abaCh[x].noMeio =>
                    SoTem(abaCh[x].banco, HostDe[x], abaCh[x].confirmada))
      BY <1>0, <2>2, <3>1 DEF Lembrada
    <3> QED
      BY <2>2, <3>2 DEF Gravou
  <2>3. Sereno' /\ gravaCh'.fase = "troca" =>
          gravaCh'.linhas = Mantidas(arqCh'.linhas, HostDe[gravaCh'.aba])
    BY DEF Gravou
  <2> QED
    BY <1>0, <2>1, <2>2, <2>3 DEF Lembrada
<1>9. RepetiuSo'
  <2> SUFFICES ASSUME NEW x \in AbasCh, abaCh[x].repetiu, Sereno', ~abaCh[x].noMeio,
                      SemHash(arqCh'.linhas, HostDe[x])
               PROVE  FALSE
    BY DEF RepetiuSo
  <2>1. SemHash(arqCh.linhas, HostDe[x])
    BY Fixos DEF Gravou
  <2> QED
    BY <1>0, <1>2, <2>1 DEF RepetiuSo
<1>10. SoConfiada'
  BY <1>0, <1>1 DEF SoConfiada
<1> QED
  BY <1>3, <1>4, <1>5, <1>6, <1>7, <1>8, <1>9, <1>10 DEF InvCh

\* The lines that stay have no key that was not trusted, and those of the names that
\* are hashed are all there.
LEMMA MantidasBem ==
  ASSUME NEW linhas \in Seq(LinhasCh), NEW h
  PROVE  /\ Mantidas(linhas, h) \in Seq(LinhasCh)
         /\ \A l : l \in ToSet(Mantidas(linhas, h)) <=> l \in ToSet(linhas) /\ ~CasaHost(l, h)
         /\ Confiada(linhas) => Confiada(Mantidas(linhas, h))
         /\ \A x : SemHash(Mantidas(linhas, h), x) => SemHash(linhas, x)
         /\ SemHash(linhas, h) => \A l \in ToSet(Mantidas(linhas, h)) : ~Nomeia(l, h)
         /\ \A x, k : x # h /\ SoTem(linhas, x, k) => SoTem(Mantidas(linhas, h), x, k)
<1>1. /\ Mantidas(linhas, h) \in Seq(LinhasCh)
      /\ \A l : l \in ToSet(Mantidas(linhas, h)) <=> l \in ToSet(linhas) /\ ~CasaHost(l, h)
  BY LinhasMantidas
<1>2. Confiada(linhas) => Confiada(Mantidas(linhas, h))
  <2>1. ToSet(Mantidas(linhas, h)) \subseteq ToSet(linhas)
    BY <1>1
  <2> QED
    BY <2>1, ChavesDeLinhas DEF Confiada
<1>3. \A x : SemHash(Mantidas(linhas, h), x) => SemHash(linhas, x)
  BY <1>1 DEF SemHash, CasaHost
<1>4. SemHash(linhas, h) => \A l \in ToSet(Mantidas(linhas, h)) : ~Nomeia(l, h)
  BY <1>1 DEF SemHash, CasaHost
<1>5. ASSUME NEW x, NEW k, x # h, SoTem(linhas, x, k) PROVE SoTem(Mantidas(linhas, h), x, k)
  <2>1. ~CasaHost(Nova(x, k), h)
    BY <1>5 DEF CasaHost, Nova, Nomeia
  <2> QED
    BY <1>1, <1>5, <2>1 DEF SoTem
<1> QED
  BY <1>1, <1>2, <1>3, <1>4, <1>5

\* Remover reads the file, or finds that there is none.
LEMMA LerGuarda ==
  ASSUME InvCh, LerParaRemover
  PROVE  InvCh'
<1>0. TipadoCh /\ GuardadoConfiado /\ ChaveVista /\ gravaCh \in Gravas /\ arqCh.linhas \in Seq(LinhasCh)
  BY DEF InvCh, TipadoCh
<1>1. PICK ok \in BOOLEAN :
        /\ Disco(ok)
        /\ gravaCh' = [gravaCh EXCEPT
            !.fase = IF ~ok THEN "fecha" ELSE IF arqCh.existe THEN "troca" ELSE "acrescenta",
            !.linhas = Mantidas(arqCh.linhas, HostDe[gravaCh.aba])]
  BY DEF LerParaRemover
<1> DEFINE h == HostDe[gravaCh.aba]
           m == Mantidas(arqCh.linhas, h)
           f == IF ~ok THEN "fecha" ELSE IF arqCh.existe THEN "troca" ELSE "acrescenta"
<1>2. gravaCh.fase = "remove" /\ UNCHANGED <<arqCh, certCh, servCh, abaCh, modalCh>>
  BY DEF LerParaRemover
<1>3. m \in Seq(LinhasCh) /\ Confiada(m)
  BY <1>0, MantidasBem DEF GuardadoConfiado
<1>4. f \in {"troca", "acrescenta", "fecha"} /\ (f = "acrescenta" => ~arqCh.existe) /\ (f = "fecha" => ~ok)
  OBVIOUS
<1>5. gravaCh' = [gravaCh EXCEPT !.fase = f, !.linhas = m]
  BY <1>1
<1> HIDE DEF m, f
<1>6. /\ gravaCh' \in Gravas /\ gravaCh'.fase = f /\ gravaCh'.linhas = m
      /\ gravaCh'.aba = gravaCh.aba /\ gravaCh'.chave = gravaCh.chave
  BY <1>0, <1>3, <1>4, <1>5 DEF Gravas
<1>7. Sereno' => ok
  <2>1. /\ limCh'.falhas = IF ok THEN limCh.falhas ELSE limCh.falhas + 1
        /\ limCh.falhas \in Nat
    BY <1>0, <1>1, TiposDoDisco DEF TipadoCh
  <2> QED
    BY <2>1 DEF Sereno
<1>8. ASSUME NEW x \in Perguntas, Sereno', Lembra(x) PROVE Lembra(x)'
  <2>1. f # "fecha"
    BY <1>4, <1>7, <1>8
  <2>2. CASE ~DoMesmo(x)
    <3>1. ~DoMesmo(x)' /\ SoTem(arqCh.linhas, HostDe[x], abaCh[x].confirmada)
      BY <1>2, <1>6, <1>8, <2>2 DEF DoMesmo, Lembra
    <3> QED
      BY <1>2, <3>1 DEF Lembra
  <2>3. CASE DoMesmo(x) /\ f = "troca"
    BY <1>2, <1>6, <1>8, <2>3 DEF DoMesmo, Lembra
  <2>4. CASE DoMesmo(x) /\ f = "acrescenta"
    <3>1. ToSet(arqCh.linhas) = {}
      BY <1>0, <1>4, <2>4, SemLinhas DEF ChaveVista
    <3> QED
      BY <1>2, <1>6, <2>4, <3>1 DEF DoMesmo, Lembra
  <2> QED
    BY <1>4, <2>1, <2>2, <2>3, <2>4
<1>9. Gravou
  <2>1. ~arqCh.existe => arqCh.linhas = <<>>
    BY <1>0 DEF ChaveVista
  <2>2. Confiada(arqCh.linhas) /\ arqCh.existe \in BOOLEAN
    BY <1>0 DEF GuardadoConfiado, TipadoCh
  <2>3. m = Mantidas(arqCh.linhas, HostDe[gravaCh.aba])
    BY DEF m
  <2> QED
    BY <1>0, <1>2, <1>3, <1>4, <1>6, <1>8, <2>1, <2>2, <2>3 DEF Gravou
<1> QED
  BY <1>1, <1>2, <1>9, GravarGuarda

\* The temporary file takes the place of the old one.
LEMMA TrocarGuarda ==
  ASSUME InvCh, TrocarArquivoCh
  PROVE  InvCh'
<1>0. /\ TipadoCh /\ GuardadoConfiado /\ ChaveVista /\ Lembrada /\ gravaCh \in Gravas
      /\ arqCh.linhas \in Seq(LinhasCh) /\ gravaCh.linhas \in Seq(LinhasCh)
  BY DEF InvCh, TipadoCh, Gravas
<1>1. PICK ok \in BOOLEAN :
        /\ Disco(ok)
        /\ arqCh' = IF ok THEN [existe |-> TRUE, linhas |-> gravaCh.linhas] ELSE arqCh
        /\ gravaCh' = [gravaCh EXCEPT !.fase = IF ok THEN "acrescenta" ELSE "fecha"]
  BY DEF TrocarArquivoCh
<1> DEFINE h == HostDe[gravaCh.aba]
           m == Mantidas(arqCh.linhas, h)
           f == IF ok THEN "acrescenta" ELSE "fecha"
<1>2. gravaCh.fase = "troca" /\ UNCHANGED <<certCh, servCh, abaCh, modalCh>>
  BY DEF TrocarArquivoCh
<1>3. f \in {"acrescenta", "fecha"} /\ (ok => f = "acrescenta")
  OBVIOUS
<1>4. gravaCh' = [gravaCh EXCEPT !.fase = f]
  BY <1>1
<1>5. /\ ok => arqCh'.existe = TRUE /\ arqCh'.linhas = gravaCh.linhas
      /\ ~ok => arqCh' = arqCh
  BY <1>1
<1> HIDE DEF f
<1>6. /\ gravaCh' \in Gravas /\ gravaCh'.fase = f /\ gravaCh'.linhas = gravaCh.linhas
      /\ gravaCh'.aba = gravaCh.aba /\ gravaCh'.chave = gravaCh.chave
  BY <1>0, <1>3, <1>4 DEF Gravas
<1>7. Sereno' => ok /\ Sereno
  <2>1. /\ limCh'.falhas = IF ok THEN limCh.falhas ELSE limCh.falhas + 1
        /\ limCh.falhas \in Nat
        /\ limCh'.outros = limCh.outros
    BY <1>0, <1>1, TiposDoDisco DEF TipadoCh
  <2> QED
    BY <2>1 DEF Sereno
<1>8. Sereno' => arqCh'.linhas = m
  BY <1>0, <1>2, <1>5, <1>7 DEF Lembrada
<1> HIDE DEF m
<1>9. /\ \A x : SemHash(m, x) => SemHash(arqCh.linhas, x)
      /\ SemHash(arqCh.linhas, h) => \A l \in ToSet(m) : ~Nomeia(l, h)
      /\ \A x, k : x # h /\ SoTem(arqCh.linhas, x, k) => SoTem(m, x, k)
  BY <1>0, MantidasBem DEF m
<1>10. ASSUME NEW x \in Perguntas, Sereno', SemHash(arqCh'.linhas, HostDe[x]), Lembra(x)
       PROVE  Lembra(x)'
  <2>1. gravaCh'.fase = "acrescenta" /\ arqCh'.linhas = m /\ SemHash(arqCh.linhas, HostDe[x])
    BY <1>3, <1>6, <1>7, <1>8, <1>9, <1>10
  <2>2. CASE HostDe[x] = h
    BY <1>6, <1>9, <2>1, <2>2 DEF Lembra, DoMesmo
  <2>3. CASE HostDe[x] # h
    <3>1. SoTem(arqCh.linhas, HostDe[x], abaCh[x].confirmada)
      BY <1>2, <1>10, <2>3 DEF Lembra, DoMesmo
    <3>2. SoTem(m, HostDe[x], abaCh[x].confirmada)
      BY <1>9, <2>3, <3>1
    <3> QED
      BY <1>2, <1>6, <2>1, <2>3, <3>2 DEF Lembra, DoMesmo
  <2> QED
    BY <2>2, <2>3
<1>11. Gravou
  <2>1. arqCh'.linhas \in Seq(LinhasCh) /\ arqCh'.existe \in BOOLEAN /\ Confiada(arqCh'.linhas)
        /\ (~arqCh'.existe => arqCh'.linhas = <<>>)
    BY <1>0, <1>5 DEF GuardadoConfiado, ChaveVista, TipadoCh
  <2>2. Confiada(gravaCh'.linhas)
    BY <1>0, <1>6 DEF GuardadoConfiado
  <2>3. \A x : Sereno' /\ SemHash(arqCh'.linhas, x) => SemHash(arqCh.linhas, x)
    BY <1>8, <1>9
  <2> QED
    BY <1>2, <1>3, <1>6, <1>10, <2>1, <2>2, <2>3 DEF Gravou
<1> QED
  BY <1>1, <1>2, <1>11, GravarGuarda

\* The line goes to the end of the file.
LEMMA AcrescentarGuarda ==
  ASSUME InvCh, AcrescentarCh
  PROVE  InvCh'
<1> DEFINE h == HostDe[gravaCh.aba]
           k == gravaCh.chave
           e == [hosts |-> {h}, chave |-> k, forma |-> "clara"]
<1>0. /\ TipadoCh /\ GuardadoConfiado /\ ChaveVista /\ Lembrada /\ gravaCh \in Gravas
      /\ arqCh.linhas \in Seq(LinhasCh) /\ limCh \in Limites
  BY DEF InvCh, TipadoCh
<1>1. PICK ok \in BOOLEAN :
        /\ Disco(ok)
        /\ arqCh' = IF ok THEN [existe |-> TRUE, linhas |-> Append(arqCh.linhas, e)] ELSE arqCh
  BY DEF AcrescentarCh
<1>2. /\ gravaCh.fase = "acrescenta" /\ gravaCh' = [gravaCh EXCEPT !.fase = "fecha"]
      /\ UNCHANGED <<certCh, servCh, abaCh, modalCh>>
  BY DEF AcrescentarCh
<1>3. h \in HostsCh /\ k \in limCh.confiadas[h] /\ k \in ChavesCh
  <2>1. gravaCh.aba \in Perguntas /\ k \in limCh.confiadas[h]
    BY <1>0, <1>2 DEF GuardadoConfiado
  <2> QED
    BY <1>0, <2>1, Fixos DEF Limites
<1>4. /\ ok => arqCh'.existe = TRUE /\ arqCh'.linhas = Append(arqCh.linhas, e)
      /\ ~ok => arqCh' = arqCh
  BY <1>1
<1>5. e = Nova(h, k)
  BY DEF Nova
<1> HIDE DEF e, h, k
<1>6. /\ gravaCh' \in Gravas /\ gravaCh'.fase = "fecha" /\ gravaCh'.linhas = gravaCh.linhas
      /\ gravaCh'.aba = gravaCh.aba /\ gravaCh'.chave = gravaCh.chave
  BY <1>0, <1>2 DEF Gravas
<1>7. Sereno' => ok /\ Sereno
  <2>1. /\ limCh'.falhas = IF ok THEN limCh.falhas ELSE limCh.falhas + 1
        /\ limCh.falhas \in Nat
        /\ limCh'.outros = limCh.outros
    BY <1>0, <1>1, TiposDoDisco
  <2> QED
    BY <2>1 DEF Sereno
<1>8. /\ Append(arqCh.linhas, e) \in Seq(LinhasCh)
      /\ ToSet(Append(arqCh.linhas, e)) = ToSet(arqCh.linhas) \union {e}
      /\ \A x : Nomeia(e, x) <=> x = h
      /\ \A x : ChavesNo(Append(arqCh.linhas, e), x) \subseteq
                  ChavesNo(arqCh.linhas, x) \union (IF x = h THEN {k} ELSE {})
  <2>1. Escrita(e, h, k, "clara")
    BY DEF e, Escrita
  <2> QED
    BY <1>0, <1>3, <2>1, ComLinha
<1>9. ASSUME NEW x \in Perguntas, Sereno', abaCh[x].confirmada # "nenhuma", Lembra(x)
      PROVE  Lembra(x)'
  <2>1. SUFFICES SoTem(arqCh'.linhas, HostDe[x], abaCh[x].confirmada)
    BY <1>2, <1>6 DEF Lembra
  <2>2. ToSet(arqCh'.linhas) = ToSet(arqCh.linhas) \union {e}
    BY <1>4, <1>7, <1>8, <1>9
  <2>3. CASE HostDe[x] = h
    <3>1. DoMesmo(x)
      BY <1>2, <2>3 DEF DoMesmo, h
    <3>2. abaCh[x].confirmada = k
      BY <1>0, <1>9, <3>1 DEF Lembrada, k
    <3>3. \A l \in ToSet(arqCh.linhas) : ~Nomeia(l, h)
      BY <1>2, <1>9, <2>3, <3>1 DEF Lembra
    <3> QED
      BY <1>5, <2>2, <2>3, <3>2, <3>3 DEF SoTem
  <2>4. CASE HostDe[x] # h
    <3>1. SoTem(arqCh.linhas, HostDe[x], abaCh[x].confirmada)
      BY <1>2, <1>9, <2>4 DEF Lembra, DoMesmo, h
    <3> QED
      BY <1>8, <2>2, <2>4, <3>1 DEF SoTem
  <2> QED
    BY <2>3, <2>4
<1>10. Gravou
  <2>1. Confiada(Append(arqCh.linhas, e))
    BY <1>0, <1>3, <1>8 DEF GuardadoConfiado, Confiada
  <2>2. arqCh'.linhas \in Seq(LinhasCh) /\ arqCh'.existe \in BOOLEAN /\ Confiada(arqCh'.linhas)
        /\ (~arqCh'.existe => arqCh'.linhas = <<>>)
    BY <1>0, <1>4, <1>8, <2>1 DEF GuardadoConfiado, ChaveVista, TipadoCh
  <2>3. \A x : SemHash(arqCh'.linhas, x) => SemHash(arqCh.linhas, x)
    <3>1. ToSet(arqCh.linhas) \subseteq ToSet(arqCh'.linhas)
      BY <1>4, <1>8
    <3> QED
      BY <3>1 DEF SemHash
  <2>4. Confiada(gravaCh'.linhas)
    BY <1>0, <1>6 DEF GuardadoConfiado
  <2> QED
    BY <1>2, <1>6, <1>9, <2>2, <2>3, <2>4 DEF Gravou
<1> QED
  BY <1>1, <1>2, <1>10, GravarGuarda

\* The dialog closes, or waited; nobody of the tabs changes.
LEMMA DialogoGuarda ==
  ASSUME InvCh, Calar \/ PassarEspera
  PROVE  InvCh'
<1>0. /\ TipadoCh /\ GuardadoConfiado /\ RespostaCerta /\ UmaPorVez /\ ChaveVista /\ Lembrada
      /\ RepetiuSo /\ SoConfiada /\ modalCh \in Modais
  BY DEF InvCh, TipadoCh
<1>1. UNCHANGED <<arqCh, certCh, servCh, abaCh, gravaCh, limCh>>
  BY DEF Calar, PassarEspera
<1>2. /\ modalCh' \in Modais
      /\ modalCh'.aba = "nenhuma" \/ (modalCh'.aba = modalCh.aba /\ modalCh'.chave = modalCh.chave)
  <2>1. CASE Calar
    BY <2>1 DEF Calar, FecharDialogoCh, SemModal, Modais, ComNenhuma
  <2>2. CASE PassarEspera
    BY <1>0, <2>2 DEF PassarEspera, Modais
  <2> QED
    BY <2>1, <2>2
<1>3. TipadoCh'
  BY <1>0, <1>1, <1>2 DEF TipadoCh
<1>4. GuardadoConfiado'
  BY <1>0, <1>1 DEF GuardadoConfiado, Confiada
<1>5. RespostaCerta'
  BY <1>0, <1>1, <1>2, Fixos DEF RespostaCerta
<1>6. UmaPorVez'
  BY <1>0, <1>1, <1>2, Fixos DEF UmaPorVez, Gravando
<1>7. ChaveVista'
  BY <1>0, <1>1, <1>2, Fixos DEF ChaveVista
<1>8. Lembrada'
  BY <1>0, <1>1 DEF Lembrada, Lembra, DoMesmo, Sereno
<1>9. RepetiuSo'
  BY <1>0, <1>1 DEF RepetiuSo, Sereno
<1>10. SoConfiada'
  BY <1>0, <1>1 DEF SoConfiada
<1> QED
  BY <1>3, <1>4, <1>5, <1>6, <1>7, <1>8, <1>9, <1>10 DEF InvCh

\* Confiar ends: the dialog closes and the tab is told.
LEMMA FimGuarda ==
  ASSUME InvCh, FimDoConfiar
  PROVE  InvCh'
<1> DEFINE a == gravaCh.aba
           r == [abaCh[a] EXCEPT !.resposta = "sim"]
<1>0. /\ TipadoCh /\ GuardadoConfiado /\ RespostaCerta /\ UmaPorVez /\ ChaveVista /\ Lembrada
      /\ RepetiuSo /\ SoConfiada /\ gravaCh \in Gravas /\ abaCh \in [AbasCh -> AbasDeChave]
  BY DEF InvCh, TipadoCh
<1>1. /\ gravaCh.fase = "fecha" /\ gravaCh' = [gravaCh EXCEPT !.fase = "livre"]
      /\ modalCh' = SemModal /\ abaCh' = [abaCh EXCEPT ![a].resposta = "sim"]
      /\ UNCHANGED <<arqCh, certCh, servCh, limCh>>
  BY DEF FimDoConfiar, FecharDialogoCh
<1>2. a \in Perguntas /\ a \in AbasCh /\ a \notin AbasRdp
  BY <1>0, <1>1, Fixos DEF GuardadoConfiado
<1>3. /\ gravaCh' \in Gravas /\ gravaCh'.fase = "livre" /\ gravaCh'.linhas = gravaCh.linhas
  BY <1>0, <1>1 DEF Gravas
<1>4. modalCh' \in Modais /\ modalCh'.aba = "nenhuma"
  BY <1>1 DEF SemModal, Modais, ComNenhuma
<1>5. abaCh' = [abaCh EXCEPT ![a] = r] /\ abaCh[a] \in AbasDeChave
  BY <1>0, <1>1, <1>2
<1> HIDE DEF a
<1>6. /\ r \in AbasDeChave /\ r.fase = abaCh[a].fase /\ r.chave = abaCh[a].chave /\ r.achou = abaCh[a].achou
      /\ r.banco = abaCh[a].banco /\ r.tinha = abaCh[a].tinha /\ r.noMeio = abaCh[a].noMeio
      /\ r.confirmada = abaCh[a].confirmada /\ r.repetiu = abaCh[a].repetiu
  BY <1>5 DEF AbasDeChave
<1> HIDE DEF r
<1>7. abaCh' \in [AbasCh -> AbasDeChave] /\ abaCh'[a] = r /\ \A x \in AbasCh : x # a => abaCh'[x] = abaCh[x]
  BY <1>0, <1>2, <1>5, <1>6, UmaAba
<1>8. \A x \in AbasCh :
        /\ abaCh'[x].fase = abaCh[x].fase /\ abaCh'[x].banco = abaCh[x].banco
        /\ abaCh'[x].tinha = abaCh[x].tinha /\ abaCh'[x].noMeio = abaCh[x].noMeio
        /\ abaCh'[x].chave = abaCh[x].chave /\ abaCh'[x].achou = abaCh[x].achou
        /\ abaCh'[x].confirmada = abaCh[x].confirmada /\ abaCh'[x].repetiu = abaCh[x].repetiu
        /\ x # a => abaCh'[x].resposta = abaCh[x].resposta
  BY <1>6, <1>7
<1>9. UNCHANGED <<arqCh, certCh, servCh, limCh>> /\ gravaCh.fase = "fecha" /\ gravaCh.aba = a
  BY <1>1 DEF a
<1>10. TipadoCh'
  BY <1>0, <1>3, <1>4, <1>7, <1>9 DEF TipadoCh
<1>11. GuardadoConfiado'
  BY <1>0, <1>3, <1>8, <1>9 DEF GuardadoConfiado, Confiada, ChavesNo
<1>12. RespostaCerta'
  BY <1>0, <1>2, <1>4, <1>8, <1>9, Fixos DEF RespostaCerta
<1>13. UmaPorVez'
  <2>1. abaCh[a].fase # "disca" /\ limCh.tent[a] # 0
    BY <1>0, <1>2, <1>9 DEF UmaPorVez, Gravando
  <2> QED
    BY <1>0, <1>3, <1>4, <1>8, <1>9, <2>1, Fixos DEF UmaPorVez, Gravando
<1>14. ChaveVista'
  BY <1>0, <1>4, <1>8, <1>9, Fixos DEF ChaveVista
<1>15. Lembrada'
  <2>1. \A x \in Perguntas : Lembra(x) => Lembra(x)'
    BY <1>3, <1>8, <1>9, Fixos DEF Lembra, DoMesmo
  <2>2. \A x \in Perguntas : ~DoMesmo(x)'
    BY <1>3 DEF DoMesmo
  <2>3. Sereno' => Sereno
    BY <1>9 DEF Sereno
  <2> QED
    BY <1>0, <1>3, <1>8, <1>9, <2>1, <2>2, <2>3, Fixos DEF Lembrada
<1>16. RepetiuSo'
  BY <1>0, <1>8, <1>9 DEF RepetiuSo, Sereno
<1>17. SoConfiada'
  BY <1>0, <1>8, <1>9 DEF SoConfiada
<1> QED
  BY <1>10, <1>11, <1>12, <1>13, <1>14, <1>15, <1>16, <1>17 DEF InvCh

\* The answer about a certificate is trusted and kept for the child.
LEMMA RespostaGuarda ==
  ASSUME InvCh, NEW v \in {"recusar", "salvo", "uma"}, ResponderCert(v)
  PROVE  InvCh'
<1> DEFINE a == modalCh.aba
           k == modalCh.chave
           w == IF abaCh[a].fase = "espera" THEN v ELSE abaCh[a].resposta
           r == [abaCh[a] EXCEPT !.resposta = w]
           X == IF v = "recusar" THEN {} ELSE {k}
<1>0. /\ TipadoCh /\ GuardadoConfiado /\ RespostaCerta /\ UmaPorVez /\ ChaveVista /\ Lembrada
      /\ RepetiuSo /\ SoConfiada /\ abaCh \in [AbasCh -> AbasDeChave] /\ limCh \in Limites
  BY DEF InvCh, TipadoCh
<1>1. /\ gravaCh.fase = "livre" /\ a \in AbasRdp /\ modalCh' = SemModal
      /\ abaCh' = [abaCh EXCEPT ![a].resposta = w]
      /\ limCh' = [limCh EXCEPT !.confiadas[HostDe[a]] = IF v = "recusar" THEN @ ELSE @ \union {k}]
      /\ UNCHANGED <<arqCh, certCh, servCh, gravaCh>>
  BY <1>0 DEF ResponderCert, FecharDialogoCh
<1>2. a \in AbasCh /\ a \notin Perguntas /\ HostDe[a] \in HostsCh /\ k \in ChavesCh /\ a # "nenhuma"
  BY <1>0, <1>1, Fixos DEF RespostaCerta
<1>3. Confia(HostDe[a], X) /\ X \in SUBSET ChavesCh
  <2>1. X \in SUBSET ChavesCh
    BY <1>2
  <2>2. CASE v = "recusar"
    <3>1. X = {}
      BY <2>2
    <3>2. limCh' = [limCh EXCEPT !.confiadas[HostDe[a]] = @]
      BY <1>1, <2>2
    <3> QED
      BY <2>1, <3>1, <3>2 DEF Confia
  <2>3. CASE v # "recusar"
    <3>1. X = {k}
      BY <2>3
    <3>2. limCh' = [limCh EXCEPT !.confiadas[HostDe[a]] = @ \union {k}]
      BY <1>1, <2>3
    <3> QED
      BY <2>1, <3>1, <3>2 DEF Confia
  <2> QED
    BY <2>2, <2>3
<1>4. abaCh' = [abaCh EXCEPT ![a] = r] /\ abaCh[a] \in AbasDeChave
  BY <1>0, <1>1, <1>2
<1>5. v # "recusar" => k \in X
  OBVIOUS
<1>6. modalCh' \in Modais /\ modalCh'.aba = "nenhuma"
  BY <1>1 DEF SemModal, Modais, ComNenhuma
<1>w. /\ w \in {"nenhuma", "sim", "recusar", "salvo", "uma"}
      /\ abaCh[a].fase = "espera" => w = v
      /\ abaCh[a].fase # "espera" => w = abaCh[a].resposta
  <2>1. abaCh[a].resposta \in {"nenhuma", "sim", "recusar", "salvo", "uma"}
    BY <1>4 DEF AbasDeChave
  <2> QED
    BY <2>1
<1>7. abaCh[a].fase = "espera" => k = abaCh[a].chave
  BY <1>0, <1>1 DEF RespostaCerta
<1>8. UNCHANGED <<arqCh, certCh, servCh, gravaCh>> /\ a \in AbasRdp
  BY <1>1
<1> HIDE DEF a, k, w, X
<1>9. /\ r \in AbasDeChave /\ r.fase = abaCh[a].fase /\ r.chave = abaCh[a].chave /\ r.achou = abaCh[a].achou
      /\ r.banco = abaCh[a].banco /\ r.tinha = abaCh[a].tinha /\ r.noMeio = abaCh[a].noMeio
      /\ r.confirmada = abaCh[a].confirmada /\ r.repetiu = abaCh[a].repetiu /\ r.resposta = w
  BY <1>4, <1>w DEF AbasDeChave
<1> HIDE DEF r
<1>10. abaCh' \in [AbasCh -> AbasDeChave] /\ abaCh'[a] = r /\ \A x \in AbasCh : x # a => abaCh'[x] = abaCh[x]
  BY <1>0, <1>2, <1>4, <1>9, UmaAba
<1>11. \A x \in AbasCh :
        /\ abaCh'[x].fase = abaCh[x].fase /\ abaCh'[x].banco = abaCh[x].banco
        /\ abaCh'[x].chave = abaCh[x].chave
        /\ abaCh'[x].confirmada = abaCh[x].confirmada /\ abaCh'[x].repetiu = abaCh[x].repetiu
        /\ abaCh'[x].noMeio = abaCh[x].noMeio
        /\ x # a => abaCh'[x].resposta = abaCh[x].resposta
  BY <1>9, <1>10
<1>12. \A x \in Perguntas : x \in AbasCh /\ abaCh'[x] = abaCh[x]
  BY <1>2, <1>10, Fixos
<1>13. /\ limCh' \in Limites /\ limCh'.tent = limCh.tent
       /\ limCh'.outros = limCh.outros /\ limCh'.falhas = limCh.falhas
       /\ limCh'.confiadas[HostDe[a]] = limCh.confiadas[HostDe[a]] \union X
       /\ \A x \in HostsCh : limCh.confiadas[x] \subseteq limCh'.confiadas[x]
  BY <1>0, <1>2, <1>3, MaisUma
<1>14. TipadoCh'
  BY <1>0, <1>6, <1>8, <1>10, <1>13 DEF TipadoCh
<1>15. GuardadoConfiado'
  <2>1. \A s : Confiada(s) => Confiada(s)'
    BY <1>13 DEF Confiada
  <2>2. \A x \in AbasCh : Confiada(abaCh[x].banco)' /\ \A l \in ToSet(abaCh'[x].banco) : Legivel(l)
    <3>1. \A x \in AbasCh : Confiada(abaCh[x].banco) /\ \A l \in ToSet(abaCh[x].banco) : Legivel(l)
      BY <1>0 DEF GuardadoConfiado
    <3> QED
      BY <1>11, <1>13, <3>1 DEF Confiada
  <2>3. gravaCh.fase # "livre" => HostDe[gravaCh.aba] \in HostsCh
    BY <1>0, Fixos DEF GuardadoConfiado
  <2>4. \A h \in HostsCh : certCh'[h] \subseteq limCh'.confiadas[h]
    BY <1>0, <1>8, <1>13 DEF GuardadoConfiado
  <2>5. Confiada(arqCh.linhas)' /\ Confiada(gravaCh.linhas)'
    <3>1. Confiada(arqCh.linhas) /\ Confiada(gravaCh.linhas)
      BY <1>0 DEF GuardadoConfiado
    <3>2. arqCh' = arqCh /\ gravaCh' = gravaCh
      BY <1>8
    <3> QED
      BY <1>13, <3>1, <3>2 DEF Confiada
  <2> QED
    BY <1>0, <1>8, <1>13, <2>2, <2>3, <2>4, <2>5 DEF GuardadoConfiado
<1>16. RespostaCerta'
  <2> SUFFICES ASSUME NEW x \in AbasRdp
               PROVE  /\ abaCh'[x].resposta # "sim" /\ (abaCh'[x].fase = "disca" => abaCh'[x].resposta = "nenhuma")
                      /\ abaCh'[x].fase = "espera" /\ abaCh'[x].resposta \notin {"nenhuma", "recusar"} =>
                           abaCh'[x].chave \in limCh'.confiadas[HostDe[x]]
    <3>1. \A x \in AbasRdp : modalCh'.aba # x
      BY <1>6, Fixos
    <3> QED
      BY <1>6, <3>1 DEF RespostaCerta
  <2>1. x \in AbasCh /\ HostDe[x] \in HostsCh
    BY Fixos
  <2>2. CASE x # a
    BY <1>0, <1>10, <1>13, <2>1, <2>2 DEF RespostaCerta
  <2>3. CASE x = a /\ abaCh[a].fase # "espera"
    BY <1>0, <1>9, <1>10, <1>w, <2>1, <2>3 DEF RespostaCerta
  <2>4. CASE x = a /\ abaCh[a].fase = "espera"
    BY <1>5, <1>7, <1>9, <1>10, <1>13, <1>w, <2>1, <2>4
  <2> QED
    BY <2>2, <2>3, <2>4
<1>17. UmaPorVez'
  BY <1>0, <1>6, <1>8, <1>12, <1>13, Fixos DEF UmaPorVez, Gravando
<1>18. ChaveVista'
  BY <1>0, <1>6, <1>8, <1>12, Fixos DEF ChaveVista
<1>19. Lembrada'
  BY <1>0, <1>8, <1>12, <1>13 DEF Lembrada, Lembra, DoMesmo, Sereno
<1>20. RepetiuSo'
  BY <1>0, <1>8, <1>11, <1>13 DEF RepetiuSo, Sereno
<1>21. SoConfiada'
  BY <1>0, <1>11, <1>13, Fixos DEF SoConfiada
<1> QED
  BY <1>14, <1>15, <1>16, <1>17, <1>18, <1>19, <1>20, <1>21 DEF InvCh

\* A server has another key; what is kept and what is asked is the same.
LEMMA TrocarChaveGuarda ==
  ASSUME InvCh, NEW h \in HostsCh, TrocarChave(h)
  PROVE  InvCh'
<1>0. /\ TipadoCh /\ GuardadoConfiado /\ RespostaCerta /\ UmaPorVez /\ ChaveVista /\ Lembrada
      /\ RepetiuSo /\ SoConfiada
  BY DEF InvCh
<1>1. UNCHANGED <<arqCh, certCh, abaCh, modalCh, gravaCh>>
  BY DEF TrocarChave
<1>2. servCh' \in [HostsCh -> ChavesCh]
  BY <1>0 DEF TrocarChave, TipadoCh
<1>3. /\ limCh' \in Limites /\ limCh'.tent = limCh.tent /\ limCh'.outros = limCh.outros
      /\ limCh'.falhas = limCh.falhas /\ limCh'.confiadas = limCh.confiadas
  <2>1. limCh \in Limites /\ limCh' = [limCh EXCEPT !.novas = @ + 1]
    BY <1>0 DEF TrocarChave, TipadoCh
  <2> QED
    BY <2>1 DEF Limites
<1>4. TipadoCh'
  BY <1>0, <1>1, <1>2, <1>3 DEF TipadoCh
<1>5. GuardadoConfiado'
  BY <1>0, <1>1, <1>3 DEF GuardadoConfiado, Confiada
<1>6. RespostaCerta'
  BY <1>0, <1>1, <1>3 DEF RespostaCerta
<1>7. UmaPorVez'
  BY <1>0, <1>1, <1>3 DEF UmaPorVez, Gravando
<1>8. ChaveVista'
  BY <1>0, <1>1 DEF ChaveVista
<1>9. Lembrada'
  BY <1>0, <1>1, <1>3 DEF Lembrada, Lembra, DoMesmo, Sereno
<1>10. RepetiuSo'
  BY <1>0, <1>1, <1>3 DEF RepetiuSo, Sereno
<1>11. SoConfiada'
  BY <1>0, <1>1, <1>3 DEF SoConfiada
<1> QED
  BY <1>4, <1>5, <1>6, <1>7, <1>8, <1>9, <1>10, <1>11 DEF InvCh

\* The ssh command writes a line, of a key it trusts.
LEMMA OutroGuarda ==
  ASSUME InvCh, NEW h \in HostsCh, NEW f \in {"clara", "hash"}, OutroEscreve(h, f)
  PROVE  InvCh'
<1> DEFINE k == servCh[h]
           e == [hosts |-> {h}, chave |-> k, forma |-> f]
           n == Append(arqCh.linhas, e)
           c == [limCh.confiadas EXCEPT ![h] = limCh.confiadas[h] \union {k}]
<1>0. /\ TipadoCh /\ GuardadoConfiado /\ RespostaCerta /\ UmaPorVez /\ ChaveVista /\ Lembrada
      /\ RepetiuSo /\ SoConfiada /\ limCh \in Limites /\ arqCh.linhas \in Seq(LinhasCh)
  BY DEF InvCh, TipadoCh
<1>1. UNCHANGED <<certCh, servCh, abaCh, modalCh, gravaCh>>
  BY DEF OutroEscreve
<1>2. k \in ChavesCh
  BY <1>0 DEF TipadoCh
<1>3. arqCh'.linhas = n /\ arqCh'.existe = TRUE
  BY DEF OutroEscreve
<1>4. /\ c \in [HostsCh -> SUBSET ChavesCh] /\ k \in c[h]
      /\ \A x \in HostsCh : limCh.confiadas[x] \subseteq c[x]
  <2>1. limCh.confiadas \in [HostsCh -> SUBSET ChavesCh]
    BY <1>0 DEF Limites
  <2>2. limCh.confiadas[h] \union {k} \in SUBSET ChavesCh
    BY <1>2, <2>1
  <2> HIDE DEF k
  <2> QED
    BY <1>2, <2>1, <2>2
<1>5. limCh' = [limCh EXCEPT !.outros = @ + 1, !.confiadas = c]
  BY <1>0 DEF OutroEscreve, Limites
<1>6. Escrita(e, h, k, f)
  BY DEF Escrita
<1> HIDE DEF k, e, c
<1>7. /\ limCh' \in Limites /\ limCh'.tent = limCh.tent /\ limCh'.outros = limCh.outros + 1
      /\ limCh.outros \in Nat /\ limCh'.falhas = limCh.falhas /\ limCh'.confiadas = c
  <2> DEFINE o == limCh.outros + 1
  <2>1. limCh.outros \in Nat /\ o \in Nat
    BY <1>0 DEF Limites
  <2>2. limCh' = [limCh EXCEPT !.outros = o, !.confiadas = c]
    BY <1>5
  <2> HIDE DEF o
  <2>3. c \in [HostsCh -> SUBSET ChavesCh] /\ limCh \in Limites
    BY <1>0, <1>4
  <2>4. /\ limCh' \in Limites /\ limCh'.tent = limCh.tent /\ limCh'.outros = o
        /\ limCh'.falhas = limCh.falhas /\ limCh'.confiadas = c
    BY <2>1, <2>2, <2>3 DEF Limites
  <2> QED
    BY <2>1, <2>4 DEF o
<1>8. ~Sereno'
  <2>1. limCh'.outros # 0
    BY <1>7
  <2> QED
    BY <2>1 DEF Sereno
<1>9. /\ n \in Seq(LinhasCh)
      /\ \A x : ChavesNo(n, x) \subseteq ChavesNo(arqCh.linhas, x) \union (IF x = h THEN {k} ELSE {})
  BY <1>0, <1>2, <1>6, ComLinha
<1> HIDE DEF n
<1>10. TipadoCh'
  BY <1>0, <1>1, <1>3, <1>7, <1>9 DEF TipadoCh
<1>11. GuardadoConfiado'
  <2>1. \A x \in HostsCh : limCh.confiadas[x] \subseteq limCh'.confiadas[x]
    BY <1>4, <1>7
  <2>2. Confiada(gravaCh.linhas)' /\ \A x \in AbasCh : Confiada(abaCh[x].banco)'
    BY <1>0, <1>1, <2>1 DEF GuardadoConfiado, Confiada
  <2>3. Confiada(arqCh.linhas)'
    <3>1. \A x \in HostsCh : ChavesNo(arqCh.linhas, x) \subseteq limCh.confiadas[x]
      BY <1>0 DEF GuardadoConfiado, Confiada
    <3>2. k \in limCh'.confiadas[h]
      BY <1>4, <1>7
    <3>3. \A x \in HostsCh : ChavesNo(n, x) \subseteq limCh'.confiadas[x]
      BY <1>9, <2>1, <3>1, <3>2
    <3> QED
      BY <1>3, <3>3 DEF Confiada
  <2>4. \A x \in AbasCh : \A l \in ToSet(abaCh'[x].banco) : Legivel(l)
    BY <1>0, <1>1 DEF GuardadoConfiado
  <2>5. \A x \in HostsCh : certCh'[x] \subseteq limCh'.confiadas[x]
    BY <1>0, <1>1, <2>1 DEF GuardadoConfiado
  <2>6. gravaCh.fase # "livre" => gravaCh.aba \in Perguntas /\ HostDe[gravaCh.aba] \in HostsCh
    BY <1>0, Fixos DEF GuardadoConfiado
  <2>7. gravaCh.fase # "livre" => gravaCh.chave \in limCh.confiadas[HostDe[gravaCh.aba]]
    BY <1>0 DEF GuardadoConfiado
  <2> QED
    BY <1>1, <2>1, <2>2, <2>3, <2>4, <2>5, <2>6, <2>7 DEF GuardadoConfiado
<1>12. RespostaCerta'
  <2>1. \A x \in AbasRdp : limCh.confiadas[HostDe[x]] \subseteq limCh'.confiadas[HostDe[x]]
    BY <1>4, <1>7, Fixos
  <2> QED
    BY <1>0, <1>1, <2>1 DEF RespostaCerta
<1>13. UmaPorVez'
  BY <1>0, <1>1, <1>7 DEF UmaPorVez, Gravando
<1>14. ChaveVista'
  BY <1>0, <1>1, <1>3 DEF ChaveVista
<1>15. Lembrada'
  BY <1>0, <1>1, <1>8 DEF Lembrada, DoMesmo
<1>16. RepetiuSo'
  BY <1>8 DEF RepetiuSo
<1>17. SoConfiada'
  <2>1. \A x \in AbasCh : limCh.confiadas[HostDe[x]] \subseteq limCh'.confiadas[HostDe[x]]
    BY <1>4, <1>7, Fixos
  <2> QED
    BY <1>0, <1>1, <2>1 DEF SoConfiada
<1> QED
  BY <1>10, <1>11, <1>12, <1>13, <1>14, <1>15, <1>16, <1>17 DEF InvCh

\* The program starts with what the file and the certificates had.
LEMMA InicioChaves ==
  ASSUME InitCh
  PROVE  InvCh
<1>1. /\ arqCh \in Iniciais /\ arqCh.linhas \in Seq(LinhasCh) /\ arqCh.existe \in BOOLEAN
      /\ arqCh.existe \/ arqCh.linhas = <<>>
  BY ChaveAssumption DEF InitCh
<1>2. /\ certCh \in [HostsCh -> SUBSET ChavesCh] /\ servCh \in [HostsCh -> ChavesCh]
  <2>1. certCh \in [HostsCh -> {{}} \union {{k} : k \in ChavesCh}] /\ servCh \in [HostsCh -> ChavesCh]
    BY DEF InitCh
  <2> QED
    BY <2>1
<1>3. /\ abaCh \in [AbasCh -> AbasDeChave]
      /\ \A a \in AbasCh :
           /\ abaCh[a].fase \in {"parada", "fim"} /\ abaCh[a].banco = <<>> /\ abaCh[a].tinha = FALSE
           /\ abaCh[a].resposta = "nenhuma" /\ abaCh[a].confirmada = "nenhuma" /\ abaCh[a].repetiu = FALSE
  <2>1. PICK abertas \in SUBSET AbasCh :
     abaCh = [a \in AbasCh |->
         [fase |-> IF a \in abertas THEN "parada" ELSE "fim", fechada |-> a \notin abertas,
          banco |-> <<>>, tinha |-> FALSE, noMeio |-> FALSE, chave |-> "nenhuma",
          achou |-> "ok", resposta |-> "nenhuma", confirmada |-> "nenhuma", repetiu |-> FALSE]]
    BY DEF InitCh
  <2>2. \A s \in Seq(LinhasCh), g \in FasesCh, b \in BOOLEAN :
          [fase |-> g, fechada |-> b,
           banco |-> s, tinha |-> FALSE, noMeio |-> FALSE, chave |-> "nenhuma",
           achou |-> "ok", resposta |-> "nenhuma", confirmada |-> "nenhuma", repetiu |-> FALSE] \in AbasDeChave
    BY DEF AbasDeChave, ComNenhuma
  <2>3. \A a \in AbasCh : (IF a \in abertas THEN "parada" ELSE "fim") \in FasesCh /\ (a \notin abertas) \in BOOLEAN
    BY DEF FasesCh
  <2>4. \A a \in AbasCh : abaCh[a] \in AbasDeChave
    BY <2>1, <2>2, <2>3, SemLinhas
  <2>5. \A a \in AbasCh :
           /\ abaCh[a].fase \in {"parada", "fim"} /\ abaCh[a].banco = <<>> /\ abaCh[a].tinha = FALSE
           /\ abaCh[a].resposta = "nenhuma" /\ abaCh[a].confirmada = "nenhuma" /\ abaCh[a].repetiu = FALSE
    BY <2>1
  <2>6. abaCh \in [AbasCh -> AbasDeChave]
    BY <2>1, <2>4
  <2> QED
    BY <2>5, <2>6
<1>4. modalCh \in Modais /\ modalCh.aba = "nenhuma"
  BY DEF InitCh, SemModal, Modais, ComNenhuma
<1>5. /\ gravaCh \in Gravas /\ gravaCh.fase = "livre" /\ gravaCh.linhas = <<>>
  <2>1. \A s \in Seq(LinhasCh) : [fase |-> "livre", aba |-> "nenhuma", chave |-> "nenhuma", linhas |-> s] \in Gravas
    BY DEF Gravas, ComNenhuma
  <2>2. gravaCh = [fase |-> "livre", aba |-> "nenhuma", chave |-> "nenhuma", linhas |-> <<>>]
    BY DEF InitCh
  <2> QED
    BY <2>1, <2>2, SemLinhas
<1>6. /\ limCh \in Limites
      /\ \A h \in HostsCh : limCh.confiadas[h] = ChavesNo(arqCh.linhas, h) \union certCh[h]
  <2> DEFINE c == [h \in HostsCh |-> ChavesNo(arqCh.linhas, h) \union certCh[h]]
             t == [a \in AbasCh |-> 0]
  <2>1. \A h \in HostsCh : ChavesNo(arqCh.linhas, h) \subseteq ChavesCh
    BY <1>1, LinhasDeSeq, ChavesDeLinhas
  <2>2. c \in [HostsCh -> SUBSET ChavesCh]
    BY <1>2, <2>1
  <2>3. t \in [AbasCh -> Nat]
    OBVIOUS
  <2>4. limCh = [tent |-> t, novas |-> 0, outros |-> 0, falhas |-> 0, confiadas |-> c]
    BY DEF InitCh
  <2>5. \A h \in HostsCh : c[h] = ChavesNo(arqCh.linhas, h) \union certCh[h]
    OBVIOUS
  <2> HIDE DEF c, t
  <2>6. limCh \in Limites /\ limCh.confiadas = c
    BY <2>2, <2>3, <2>4 DEF Limites
  <2> QED
    BY <2>5, <2>6
<1>7. TipadoCh
  BY <1>1, <1>2, <1>3, <1>4, <1>5, <1>6 DEF TipadoCh
<1>8. GuardadoConfiado
  <2>1. Confiada(<<>>)
    BY SemLinhas DEF Confiada
  <2>2. Confiada(arqCh.linhas)
    BY <1>6 DEF Confiada
  <2>3. \A a \in AbasCh : Confiada(abaCh[a].banco) /\ ToSet(abaCh[a].banco) = {}
    BY <1>3, <2>1, SemLinhas
  <2>4. \A h \in HostsCh : certCh[h] \subseteq limCh.confiadas[h]
    BY <1>6
  <2> QED
    BY <1>5, <2>1, <2>2, <2>3, <2>4 DEF GuardadoConfiado
<1>9. RespostaCerta
  BY <1>3, <1>4, Fixos DEF RespostaCerta
<1>10. UmaPorVez
  BY <1>3, <1>4, <1>5, Fixos DEF UmaPorVez, Gravando
<1>11. ChaveVista
  BY <1>1, <1>3, <1>4, Fixos DEF ChaveVista
<1>12. Lembrada
  BY <1>3, <1>5, Fixos DEF Lembrada, DoMesmo
<1>13. RepetiuSo
  BY <1>3 DEF RepetiuSo
<1>14. SoConfiada
  BY <1>3 DEF SoConfiada
<1> QED
  BY <1>7, <1>8, <1>9, <1>10, <1>11, <1>12, <1>13, <1>14 DEF InvCh

-----------------------------------------------------------------------------
(* The theorems. *)

\* Nothing moves.
LEMMA QuietaGuarda ==
  ASSUME InvCh, UNCHANGED varsCh
  PROVE  InvCh'
<1>0. /\ TipadoCh /\ GuardadoConfiado /\ RespostaCerta /\ UmaPorVez /\ ChaveVista /\ Lembrada
      /\ RepetiuSo /\ SoConfiada
  BY DEF InvCh
<1>1. UNCHANGED <<arqCh, certCh, servCh, abaCh, modalCh, gravaCh, limCh>>
  BY DEF varsCh
<1>2. TipadoCh' /\ RespostaCerta' /\ ChaveVista' /\ SoConfiada'
  BY <1>0, <1>1 DEF TipadoCh, RespostaCerta, ChaveVista, SoConfiada
<1>3. GuardadoConfiado'
  BY <1>0, <1>1 DEF GuardadoConfiado, Confiada
<1>4. UmaPorVez'
  BY <1>0, <1>1 DEF UmaPorVez, Gravando
<1>5. Lembrada'
  BY <1>0, <1>1 DEF Lembrada, Lembra, DoMesmo, Sereno
<1>6. RepetiuSo'
  BY <1>0, <1>1 DEF RepetiuSo, Sereno
<1> QED
  BY <1>2, <1>3, <1>4, <1>5, <1>6 DEF InvCh

\* Every step keeps the invariant.
LEMMA PassoDasChaves ==
  ASSUME InvCh, [NextCh]_varsCh
  PROVE  InvCh'
<1>1. CASE \E a \in AbasCh : ComecarCh(a) \/ Retomar(a)
  BY <1>1, ComecarGuarda
<1>2. CASE \E a \in AbasCh : ReceberChave(a)
  BY <1>2, ReceberChaveGuarda
<1>3. CASE \E a \in AbasCh : FalharDiscarCh(a) \/ CairCh(a) \/ FecharAbaCh(a)
  BY <1>3, FalharGuarda
<1>4. CASE \E a \in AbasCh : ReceberResposta(a)
  BY <1>4, ReceberRespostaGuarda
<1>5. CASE ClicarConfiar
  BY <1>5, ClicarGuarda
<1>6. CASE LerParaRemover
  BY <1>6, LerGuarda
<1>7. CASE TrocarArquivoCh
  BY <1>7, TrocarGuarda
<1>8. CASE AcrescentarCh
  BY <1>8, AcrescentarGuarda
<1>9. CASE FimDoConfiar
  BY <1>9, FimGuarda
<1>10. CASE Calar \/ PassarEspera
  BY <1>10, DialogoGuarda
<1>11. CASE \E v \in {"recusar", "salvo", "uma"} : ResponderCert(v)
  BY <1>11, RespostaGuarda
<1>12. CASE \E h \in HostsCh : TrocarChave(h)
  BY <1>12, TrocarChaveGuarda
<1>13. CASE \E h \in HostsCh, f \in {"clara", "hash"} : OutroEscreve(h, f)
  BY <1>13, OutroGuarda
<1>14. CASE UNCHANGED varsCh
  BY <1>14, QuietaGuarda
<1> QED
  BY <1>1, <1>2, <1>3, <1>4, <1>5, <1>6, <1>7, <1>8, <1>9, <1>10, <1>11, <1>12, <1>13, <1>14 DEF NextCh

\* What the invariant says of the properties.
LEMMA DasPartes ==
  ASSUME InvCh
  PROVE  TiposCh /\ ChaveCerta
<1>0. /\ TipadoCh /\ UmaPorVez /\ ChaveVista /\ RepetiuSo /\ SoConfiada
  BY DEF InvCh
<1>1. TiposCh
  BY <1>0 DEF TipadoCh, TiposCh, AbasDeChave, Modais, Gravas, Limites
<1>2. TrocaDetectada
  <2>1. \A a \in AbasCh \ AbasRdp : a \in Perguntas
    BY Fixos
  <2> QED
    BY <1>0, <2>1 DEF TrocaDetectada, ChaveVista
<1>3. ConfirmaUmaVez
  <2> SUFFICES ASSUME NEW a \in AbasCh, abaCh[a].repetiu, ~abaCh[a].noMeio, Sereno
               PROVE  \E i \in DOMAIN arqCh.linhas : /\ Nomeia(arqCh.linhas[i], HostDe[a])
                                                     /\ arqCh.linhas[i].forma = "hash"
    <3>1. limCh.falhas \in Nat /\ limCh.outros \in Nat
      BY <1>0 DEF TipadoCh, Limites
    <3>2. ~Sereno => limCh.falhas > 0 \/ limCh.outros > 0
      BY <3>1 DEF Sereno
    <3> QED
      BY <3>2 DEF ConfirmaUmaVez
  <2>1. ~SemHash(arqCh.linhas, HostDe[a])
    BY <1>0 DEF RepetiuSo
  <2> QED
    BY <2>1 DEF SemHash, ToSet
<1> QED
  BY <1>0, <1>1, <1>2, <1>3 DEF ChaveCerta

\* The invariant holds in every reachable state.
THEOREM ChavesInvariante == SpecCh => []InvCh
<1>1. InitCh => InvCh
  BY InicioChaves
<1>2. InvCh /\ [NextCh]_varsCh => InvCh'
  BY PassoDasChaves
<1> QED
  BY <1>1, <1>2, PTL DEF SpecCh

\* The types of the keys' part hold in every reachable state.
THEOREM ChavesTipos == SpecCh => []TiposCh
<1>1. InvCh => TiposCh
  BY DasPartes
<1> QED
  BY <1>1, ChavesInvariante, PTL

\* However the questions of the tabs, the writing of the file, the ssh command and the
\* failures of the disk cross: a session is open only with a key trusted for that server, a
\* server that was known is not shown as new, and what was confirmed is not asked again
\* (hostkey.go 6-7, 110-111, 179-197, hostkeydlg.go 51-54).
THEOREM ChaveSempreCerta == SpecCh => []ChaveCerta
<1>1. InvCh => ChaveCerta
  BY DasPartes
<1> QED
  BY <1>1, ChavesInvariante, PTL

\* Secrets and keys together: no secret is orphaned or sealed where it must not be, and
\* no session is open with a key nobody trusted, in one program that does both.
THEOREM ConfiancaSempreCerta == SpecSe /\ SpecCh => []ConfiancaCerta
<1>1. SegredosCertos /\ ChaveCerta => ConfiancaCerta
  BY DEF ConfiancaCerta
<1> QED
  BY <1>1, SegredosSempreCertos, ChaveSempreCerta, PTL
=============================================================================
