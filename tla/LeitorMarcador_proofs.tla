---------------------- MODULE LeitorMarcador_proofs ----------------------
(***************************************************************************)
(* Proofs about the reader of the marked session, for every number of      *)
(* commands, of pieces of stderr and of timeouts.  What is under way is    *)
(* said by numberings (Segue): the count of marks goes on by one at each   *)
(* mark and stays at each piece of stderr.  A numbering survives every     *)
(* cut and join the pumps and the reads make, and in a stretch of Linux,   *)
(* where nothing is mixed in, it says at which mark Rodar stands.          *)
(***************************************************************************)
EXTENDS LeitorMarcador, FiniteSetTheorems, WellFoundedInduction, TLAPS

\* What the reader keeps is empty when it should be.
Leituras ==
  /\ passo = "parado" => acc = <<>>
  /\ passo # "parado" => buf = <<>> /\ enviados > 0

\* A pump that returned left nothing behind, and the process is gone.
Fins ==
  /\ fim => \E c \in Canos : acabou[c]
  /\ \A c \in Canos : acabou[c] => ~viva /\ mao[c] = <<>> /\ tubo[c] = <<>>
  /\ \A k \in 1..NCmds : resultado[k] = "caiu" => ~viva

\* No mark ever comes on stderr.
ErroSoLixo ==
  windows => /\ \A i \in 1..Len(tubo["stderr"]) : tubo["stderr"][i] = Lixo
             /\ \A i \in 1..Len(mao["stderr"]) : mao["stderr"][i] = Lixo

\* One piece e takes the count of marks read from x to y: either it is the next
\* mark the shell prints, or, where stderr is mixed in (w), it is a piece of
\* stderr and the count stays.
Vale(e, x, y, w) ==
  \/ (e = Marca(y) /\ y = x + 1)
  \/ (w /\ e = Lixo /\ y = x)

\* The stretch s carries the count from a to b: some numbering of its places
\* steps by Vale.  This is "read once and in order", said so that a stretch can
\* be cut and joined.
Segue(s, a, b, w) ==
  \E g \in [0..Len(s) -> Nat] :
    /\ g[0] = a /\ g[Len(s)] = b
    /\ \A i \in 1..Len(s) : Vale(s[i], g[i - 1], g[i], w)

\* The same for a queue of stretches, the channel dados.
Cadeia(d, a, b, w) ==
  \E h \in [0..Len(d) -> Nat] :
    /\ h[0] = a /\ h[Len(d)] = b
    /\ \A i \in 1..Len(d) : Segue(d[i], h[i - 1], h[i], w)

\* From the oldest piece kept by the reader to the last the shell printed there
\* is one numbering: what Rodar kept (buf, acc), the channel, what a pump holds,
\* the pipe.
Trecho(a, b, c, d, e) ==
  /\ Segue(buf, a, b, windows)
  /\ Segue(acc, b, c, windows)
  /\ Cadeia(dados, c, d, windows)
  /\ Segue(mao["stdout"], d, e, windows)
  /\ Segue(tubo["stdout"], e, emitidas, windows)

\* Where on Linux the reader stands, told in marks: before the begin marker of
\* the command under way, right after it, or past the command before.
Posicao(a) ==
  /\ passo = "inic" => 3 * (enviados - 2) + 1 <= a /\ a <= 3 * (enviados - 1)
  /\ passo = "fim" => a = 3 * (enviados - 1) + 1
  /\ (passo = "parado" /\ enviados > 0 /\ resultado[enviados] \notin Conexao) =>
       a >= 3 * (enviados - 1) + 1

\* The part of the invariant the rest turns on: everything under way is one
\* stretch that ends in the last mark printed, and Rodar stands where it should.
Ordem ==
  \E a, b, c, d, e \in Nat : Trecho(a, b, c, d, e) /\ (~windows => Posicao(a))

\* A set of numbers that is not empty has a least one.
LEMMA Menor ==
  ASSUME NEW T \in SUBSET Nat, T # {}
  PROVE  \E m \in T : \A k \in T : m <= k
<1> DEFINE R == OpToRel(<, Nat)
<1>1. IsWellFoundedOn(R, Nat)
  BY NatLessThanWellFounded
<1>2. \A x, y \in Nat : x < y => <<x, y>> \in R
  BY DEF OpToRel
<1> HIDE DEF R
<1>3. PICK x \in T : \A y \in T : ~(<<y, x>> \in R)
  BY <1>1, WFMin, Zenon
<1>4. \A y \in T : ~(y < x)
  BY <1>2, <1>3
<1> QED
  BY <1>4

\* Induction, said of a set: the library's rule takes an operator, which no
\* installed prover instantiates.
LEMMA Inducao ==
  ASSUME NEW T \in SUBSET Nat, 0 \in T, \A n \in T : n + 1 \in T
  PROVE  T = Nat
<1>1. SUFFICES ASSUME Nat \ T # {} PROVE FALSE
  OBVIOUS
<1>2. PICK m \in Nat \ T : \A k \in Nat \ T : m <= k
  BY <1>1, Menor
<1>3. m - 1 \in T
  BY <1>2
<1> QED
  BY <1>2, <1>3

\* Induction up to a bound.
LEMMA Passos ==
  ASSUME NEW n \in Nat, NEW T \in SUBSET Nat, 0 \in T,
         \A i \in 1..n : i - 1 \in T => i \in T
  PROVE  0..n \subseteq T
<1> DEFINE U == {i \in Nat : i <= n => i \in T}
<1>1. 0 \in U
  OBVIOUS
<1>2. \A i \in U : i + 1 \in U
  OBVIOUS
<1>3. U \in SUBSET Nat
  OBVIOUS
<1> HIDE DEF U
<1>4. U = Nat
  BY <1>1, <1>2, <1>3, Inducao
<1> QED
  BY <1>4 DEF U

\* A numbering shows a stretch.
LEMMA SegueCom ==
  ASSUME NEW s, NEW n \in Nat, Len(s) = n, NEW g \in [0..n -> Nat], NEW a, NEW b, NEW w,
         g[0] = a, g[n] = b, \A i \in 1..n : Vale(s[i], g[i - 1], g[i], w)
  PROVE  Segue(s, a, b, w)
  BY DEF Segue

\* Nothing read leaves the count where it was ...
LEMMA SegueVazia ==
  ASSUME NEW a \in Nat, NEW w
  PROVE  Segue(<<>>, a, a, w)
<1> DEFINE g == [i \in 0..0 |-> a]
<1>1. g \in [0..Len(<<>>) -> Nat] /\ g[0] = a /\ Len(<<>>) = 0
  OBVIOUS
<1> HIDE DEF g
<1> QED
  BY <1>1 DEF Segue

\* ... and cannot have moved it.
LEMMA SegueNada ==
  ASSUME NEW a, NEW b, NEW w, Segue(<<>>, a, b, w)
  PROVE  a = b
  BY DEF Segue

\* What the shell prints next is a stretch of one.
LEMMA SegueUma ==
  ASSUME NEW a \in Nat, NEW w
  PROVE  Segue(<<Marca(a + 1)>>, a, a + 1, w)
<1> DEFINE s == <<Marca(a + 1)>>
           g == [i \in 0..1 |-> a + i]
<1>1. Len(s) = 1 /\ s[1] = Marca(a + 1)
  OBVIOUS
<1>2. g \in [0..1 -> Nat] /\ g[0] = a /\ g[1] = a + 1
  OBVIOUS
<1> HIDE DEF g, s
<1>3. Segue(s, a, a + 1, w)
  <2>1. \A i \in 1..Len(s) : Vale(s[i], g[i - 1], g[i], w)
    BY <1>1, <1>2 DEF Vale
  <2> QED
    BY <1>1, <1>2, <2>1 DEF Segue
<1> QED
  BY <1>3 DEF s

\* Two stretches that meet make one: a read joined to what was kept.
LEMMA SegueConcat ==
  ASSUME NEW S, NEW s \in Seq(S), NEW t \in Seq(S), NEW a, NEW b, NEW c, NEW w,
         Segue(s, a, b, w), Segue(t, b, c, w)
  PROVE  Segue(s \o t, a, c, w)
<1> PICK f \in [0..Len(s) -> Nat] :
      /\ f[0] = a /\ f[Len(s)] = b
      /\ \A i \in 1..Len(s) : Vale(s[i], f[i - 1], f[i], w)
  BY DEF Segue
<1> PICK g \in [0..Len(t) -> Nat] :
      /\ g[0] = b /\ g[Len(t)] = c
      /\ \A i \in 1..Len(t) : Vale(t[i], g[i - 1], g[i], w)
  BY DEF Segue
<1> DEFINE n == Len(s)
           m == Len(t)
           h == [i \in 0..n + m |-> IF i <= n THEN f[i] ELSE g[i - n]]
<1>0. n \in Nat /\ m \in Nat /\ Len(s \o t) = n + m
  OBVIOUS
<1>1. h \in [0..n + m -> Nat] /\ h[0] = a /\ h[n + m] = c
  <2>1. h \in [0..n + m -> Nat]
    BY <1>0
  <2>2. h[0] = a
    BY <1>0
  <2>3. h[n + m] = c
    <3>1. CASE m = 0
      BY <3>1, <1>0
    <3>2. CASE m # 0
      BY <3>2, <1>0
    <3> QED
      BY <3>1, <3>2
  <2> QED
    BY <2>1, <2>2, <2>3
<1>2. ASSUME NEW i \in 1..n + m
      PROVE  Vale((s \o t)[i], h[i - 1], h[i], w)
  <2>1. CASE i <= n
    <3>1. (s \o t)[i] = s[i] /\ h[i] = f[i] /\ h[i - 1] = f[i - 1] /\ i \in 1..Len(s)
      BY <2>1, <1>0
    <3> QED
      BY <3>1
  <2>2. CASE i > n
    <3>1. (s \o t)[i] = t[i - n] /\ i - n \in 1..Len(t) /\ h[i] = g[i - n]
      BY <2>2, <1>0
    <3>2. h[i - 1] = g[i - n - 1]
      BY <2>2, <1>0
    <3> HIDE DEF n, h
    <3> QED
      BY <3>1, <3>2
  <2> QED
    BY <2>1, <2>2, <1>0
<1> HIDE DEF h
<1>3. n + m \in Nat
  BY <1>0
<1> QED
  BY <1>0, <1>1, <1>2, <1>3, SegueCom, Zenon

\* A stretch can be cut anywhere: a short read, and what follows a match.
LEMMA SegueCorte ==
  ASSUME NEW S, NEW s \in Seq(S), NEW a, NEW c, NEW w,
         Segue(s, a, c, w), NEW n \in 0..Len(s)
  PROVE  \E b \in Nat : Segue(SubSeq(s, 1, n), a, b, w) /\ Segue(SubSeq(s, n + 1, Len(s)), b, c, w)
<1> PICK f \in [0..Len(s) -> Nat] :
      /\ f[0] = a /\ f[Len(s)] = c
      /\ \A i \in 1..Len(s) : Vale(s[i], f[i - 1], f[i], w)
  BY DEF Segue
<1> DEFINE l == Len(s)
           x == SubSeq(s, 1, n)
           y == SubSeq(s, n + 1, l)
           g == [i \in 0..n |-> f[i]]
           h == [i \in 0..l - n |-> f[n + i]]
<1>1. l \in Nat /\ Len(x) = n /\ Len(y) = l - n
  OBVIOUS
<1>2. Segue(x, a, f[n], w)
  <2>1. g \in [0..n -> Nat] /\ g[0] = a /\ g[n] = f[n]
    BY <1>1
  <2>2. \A i \in 1..n : x[i] = s[i] /\ g[i] = f[i] /\ g[i - 1] = f[i - 1] /\ i \in 1..l
    BY <1>1
  <2> HIDE DEF x, g
  <2>3. \A i \in 1..n : Vale(x[i], g[i - 1], g[i], w)
    BY <2>2
  <2>4. n \in Nat /\ l - n \in Nat
    BY <1>1
  <2> HIDE DEF l, x, y
  <2> QED
    BY <1>1, <2>1, <2>3, <2>4, SegueCom, Zenon
<1>3. Segue(y, f[n], c, w)
  <2>1. h \in [0..l - n -> Nat] /\ h[0] = f[n] /\ h[l - n] = c
    BY <1>1
  <2>2. \A i \in 1..l - n : y[i] = s[n + i] /\ h[i] = f[n + i] /\ h[i - 1] = f[n + i - 1] /\ n + i \in 1..l
    BY <1>1
  <2> HIDE DEF y, h
  <2>3. \A i \in 1..l - n : Vale(y[i], h[i - 1], h[i], w)
    <3> TAKE i \in 1..l - n
    <3>1. Vale(s[n + i], f[n + i - 1], f[n + i], w)
      BY <2>2
    <3> QED
      BY <2>2, <3>1
  <2>4. n \in Nat /\ l - n \in Nat
    BY <1>1
  <2> HIDE DEF l, x, y
  <2> QED
    BY <1>1, <2>1, <2>3, <2>4, SegueCom, Zenon
<1>4. f[n] \in Nat
  BY <1>1
<1> QED
  BY <1>2, <1>3, <1>4

\* A stretch goes forward, at most as many marks as it has pieces.
LEMMA SegueAvanca ==
  ASSUME NEW S, NEW s \in Seq(S), NEW a, NEW b, NEW w, Segue(s, a, b, w)
  PROVE  a \in Nat /\ b \in Nat /\ a <= b
<1> PICK f \in [0..Len(s) -> Nat] :
      /\ f[0] = a /\ f[Len(s)] = b
      /\ \A i \in 1..Len(s) : Vale(s[i], f[i - 1], f[i], w)
  BY DEF Segue
<1> DEFINE T == {i \in 0..Len(s) : a <= f[i]}
<1>1. Len(s) \in Nat /\ a \in Nat /\ b \in Nat
  OBVIOUS
<1>2. T \in SUBSET Nat /\ 0 \in T
  BY <1>1
<1>3. \A i \in 1..Len(s) : i - 1 \in T => i \in T
  <2> TAKE i \in 1..Len(s)
  <2>0. Vale(s[i], f[i - 1], f[i], w) /\ f[i] \in Nat /\ f[i - 1] \in Nat
    BY <1>1
  <2>1. f[i] = f[i - 1] + 1 \/ f[i] = f[i - 1]
    BY <2>0, Zenon DEF Vale
  <2> HAVE i - 1 \in T
  <2> QED
    BY <2>0, <2>1, <1>1
<1> HIDE DEF T
<1>4. 0..Len(s) \subseteq T
  BY <1>1, <1>2, <1>3, Passos
<1> QED
  BY <1>1, <1>4 DEF T

\* Without stderr the marks are numbered one by one.
LEMMA SegueSemLixo ==
  ASSUME NEW S, NEW s \in Seq(S), NEW a, NEW b, Segue(s, a, b, FALSE)
  PROVE  /\ a \in Nat /\ b = a + Len(s)
         /\ \A i \in 1..Len(s) : s[i] = Marca(a + i)
<1> PICK f \in [0..Len(s) -> Nat] :
      /\ f[0] = a /\ f[Len(s)] = b
      /\ \A i \in 1..Len(s) : s[i] = Marca(f[i]) /\ f[i] = f[i - 1] + 1
  BY DEF Segue, Vale
<1> DEFINE T == {i \in 0..Len(s) : f[i] = a + i}
<1>1. Len(s) \in Nat /\ a \in Nat /\ b \in Nat
  OBVIOUS
<1>2. T \in SUBSET Nat /\ 0 \in T
  BY <1>1
<1>3. \A i \in 1..Len(s) : i - 1 \in T => i \in T
  <2> TAKE i \in 1..Len(s)
  <2>1. f[i] \in Nat /\ f[i - 1] \in Nat /\ f[i] = f[i - 1] + 1
    BY <1>1
  <2> HAVE i - 1 \in T
  <2> QED
    BY <2>1, <1>1
<1> HIDE DEF T
<1>4. 0..Len(s) \subseteq T
  BY <1>1, <1>2, <1>3, Passos
<1>5. \A i \in 0..Len(s) : f[i] = a + i
  BY <1>4 DEF T
<1> QED
  BY <1>1, <1>5

-----------------------------------------------------------------------------
\* A stretch cut in pieces.
LEMMA CadeiaCom ==
  ASSUME NEW d, NEW n \in Nat, Len(d) = n, NEW h \in [0..n -> Nat], NEW a, NEW b, NEW w,
         h[0] = a, h[n] = b, \A i \in 1..n : Segue(d[i], h[i - 1], h[i], w)
  PROVE  Cadeia(d, a, b, w)
  BY DEF Cadeia

\* The empty channel ...
LEMMA CadeiaVazia ==
  ASSUME NEW a \in Nat, NEW w
  PROVE  Cadeia(<<>>, a, a, w)
<1> DEFINE h == [i \in 0..0 |-> a]
<1>1. h \in [0..0 -> Nat] /\ h[0] = a /\ Len(<<>>) = 0
  OBVIOUS
<1> HIDE DEF h
<1> QED
  BY <1>1 DEF Cadeia

\* ... moves nothing.
LEMMA CadeiaNada ==
  ASSUME NEW a, NEW b, NEW w, Cadeia(<<>>, a, b, w)
  PROVE  a = b
  BY DEF Cadeia

\* A pump sends: the queue grows at its end.
LEMMA CadeiaMais ==
  ASSUME NEW S, NEW d \in Seq(S), NEW p \in S, NEW a, NEW b, NEW c \in Nat, NEW w,
         Cadeia(d, a, b, w), Segue(p, b, c, w)
  PROVE  Cadeia(Append(d, p), a, c, w)
<1> PICK f \in [0..Len(d) -> Nat] :
      /\ f[0] = a /\ f[Len(d)] = b
      /\ \A i \in 1..Len(d) : Segue(d[i], f[i - 1], f[i], w)
  BY DEF Cadeia
<1> DEFINE n == Len(d)
           e == Append(d, p)
           h == [i \in 0..n + 1 |-> IF i <= n THEN f[i] ELSE c]
<1>1. n \in Nat /\ n + 1 \in Nat /\ Len(e) = n + 1 /\ e[n + 1] = p /\ \A i \in 1..n : e[i] = d[i]
  OBVIOUS
<1>2. h \in [0..n + 1 -> Nat] /\ h[0] = a /\ h[n + 1] = c /\ h[n] = b
  BY <1>1
<1>3. \A i \in 1..n : h[i] = f[i] /\ h[i - 1] = f[i - 1]
  BY <1>1
<1> HIDE DEF e, h
<1>4. ASSUME NEW i \in 1..n + 1 PROVE Segue(e[i], h[i - 1], h[i], w)
  <2>1. CASE i = n + 1
    <3>1. h[i - 1] = b /\ h[i] = c /\ e[i] = p
      BY <2>1, <1>1, <1>2
    <3> QED
      BY <3>1
  <2>2. CASE i \in 1..n
    BY <2>2, <1>1, <1>3
  <2> QED
    BY <2>1, <2>2, <1>1
<1>5. Cadeia(e, a, c, w)
  <2> HIDE DEF n
  <2> QED
    BY <1>1, <1>2, <1>4, CadeiaCom, Zenon
<1> QED
  BY <1>5 DEF e

\* Rodar receives: the queue loses its head.
LEMMA CadeiaFrente ==
  ASSUME NEW S, NEW d \in Seq(S), d # <<>>, NEW a, NEW c, NEW w, Cadeia(d, a, c, w)
  PROVE  \E b \in Nat : Segue(Head(d), a, b, w) /\ Cadeia(Tail(d), b, c, w)
<1> PICK f \in [0..Len(d) -> Nat] :
      /\ f[0] = a /\ f[Len(d)] = c
      /\ \A i \in 1..Len(d) : Segue(d[i], f[i - 1], f[i], w)
  BY DEF Cadeia
<1> DEFINE n == Len(d) - 1
           e == Tail(d)
           h == [i \in 0..n |-> f[i + 1]]
<1>1. n \in Nat /\ Len(d) = n + 1 /\ Len(e) = n /\ \A i \in 1..n : e[i] = d[i + 1]
  OBVIOUS
<1>2. h \in [0..n -> Nat] /\ h[0] = f[1] /\ h[n] = c
  BY <1>1
<1>3. \A i \in 1..n : h[i] = f[i + 1] /\ h[i - 1] = f[i] /\ i + 1 \in 1..Len(d)
  BY <1>1
<1>4. Segue(Head(d), a, f[1], w) /\ f[1] \in Nat
  <2>1. Head(d) = d[1] /\ 1 \in 1..Len(d) /\ f[1 - 1] = a
    BY <1>1
  <2>2. Segue(d[1], f[1 - 1], f[1], w)
    BY <2>1
  <2> QED
    BY <2>1, <2>2
<1> HIDE DEF e, h, n
<1>5. ASSUME NEW i \in 1..n PROVE Segue(e[i], h[i - 1], h[i], w)
  <2>1. Segue(d[i + 1], f[i + 1 - 1], f[i + 1], w)
    BY <1>3
  <2>2. i + 1 - 1 = i
    BY <1>1
  <2> QED
    BY <2>1, <2>2, <1>1, <1>3
<1>6. Cadeia(e, f[1], c, w)
  BY <1>1, <1>2, <1>5, CadeiaCom, Zenon
<1> QED
  BY <1>4, <1>6 DEF e

-----------------------------------------------------------------------------
(* FlattenSeq.  Its local function exists for every length.                *)

\* g holds the prefixes of d joined: g[i] is d[1] \o ... \o d[i].
Junta(d, n, g) == g = [i \in 1..n |-> IF i = 1 THEN d[i] ELSE g[i - 1] \o d[i]]

\* Such a g exists for every length (the recursive definition is not empty).
LEMMA JuntaExiste ==
  ASSUME NEW d, NEW n \in Nat
  PROVE  \E g : Junta(d, n, g)
<1> DEFINE T == {k \in Nat : \E g : Junta(d, k, g)}
<1>1. 0 \in T
  <2> DEFINE g == [i \in 1..0 |-> d]
  <2>1. g = [i \in 1..0 |-> IF i = 1 THEN d[i] ELSE g[i - 1] \o d[i]]
    OBVIOUS
  <2> HIDE DEF g
  <2> QED
    BY <2>1 DEF Junta
<1>2. ASSUME NEW k \in T PROVE k + 1 \in T
  <2>0. k \in Nat
    OBVIOUS
  <2> PICK g : Junta(d, k, g)
    OBVIOUS
  <2> DEFINE ult == IF k = 0 THEN d[k + 1] ELSE g[k] \o d[k + 1]
             h == [i \in 1..k + 1 |-> IF i <= k THEN g[i] ELSE ult]
             h2 == [i \in 1..k + 1 |-> IF i = 1 THEN d[i] ELSE h[i - 1] \o d[i]]
  <2>1. \A i \in 1..k : g[i] = IF i = 1 THEN d[i] ELSE g[i - 1] \o d[i]
    BY Zenon DEF Junta
  <2>2. (\A i \in 1..k : h[i] = g[i]) /\ h[k + 1] = ult
    <3> HIDE DEF ult
    <3> QED
      BY <2>0
  <2>3. \A i \in 1..k + 1 : h[i] = IF i = 1 THEN d[i] ELSE h[i - 1] \o d[i]
    <3> SUFFICES ASSUME NEW i \in 1..k + 1
                 PROVE  h[i] = IF i = 1 THEN d[i] ELSE h[i - 1] \o d[i]
      OBVIOUS
    <3>1. CASE i \in 1..k
      <4>1. i # 1 => h[i - 1] = g[i - 1]
        BY <3>1, <2>0
      <4> HIDE DEF h
      <4> QED
        BY <4>1, <3>1, <2>1, <2>2
    <3>2. CASE i = k + 1
      <4>1. i # 1 => h[i - 1] = g[k] /\ k # 0
        BY <3>2, <2>0
      <4>2. i = 1 => k = 0
        BY <3>2, <2>0
      <4> HIDE DEF h
      <4> QED
        BY <4>1, <4>2, <3>2, <2>2
    <3> QED
      BY <3>1, <3>2, <2>0
  <2>4. h = h2
    <3>1. DOMAIN h = 1..k + 1 /\ DOMAIN h2 = 1..k + 1
      OBVIOUS
    <3>2. \A i \in 1..k + 1 : h[i] = h2[i]
      BY <2>3
    <3>3. h = [i \in DOMAIN h |-> h[i]] /\ h2 = [i \in DOMAIN h2 |-> h2[i]]
      OBVIOUS
    <3> HIDE DEF h, h2
    <3> QED
      BY <3>1, <3>2, <3>3
  <2>5. Junta(d, k + 1, h)
    <3> HIDE DEF h
    <3> QED
      BY <2>4 DEF Junta
  <2> QED
    BY <2>5, <2>0
<1>3. T \in SUBSET Nat
  OBVIOUS
<1> HIDE DEF T
<1>4. T = Nat
  BY <1>1, <1>2, <1>3, Inducao
<1> QED
  BY <1>4 DEF T

\* The pieces one after the other: there is a function of prefixes whose last
\* value FlattenSeq is.
LEMMA Plana ==
  ASSUME NEW S, NEW d \in Seq(Seq(S)), d # <<>>
  PROVE  \E g : Junta(d, Len(d), g) /\ FlattenSeq(d) = g[Len(d)]
<1> DEFINE g == CHOOSE x : x = [i \in 1..Len(d) |-> IF i = 1 THEN d[i] ELSE x[i - 1] \o d[i]]
<1>1. Len(d) # 0 /\ Len(d) \in Nat
  OBVIOUS
<1>2. FlattenSeq(d) = g[Len(d)]
  BY <1>1, Zenon DEF FlattenSeq
<1>3. \E x : x = [i \in 1..Len(d) |-> IF i = 1 THEN d[i] ELSE x[i - 1] \o d[i]]
  BY <1>1, JuntaExiste, Zenon DEF Junta
<1>4. g = [i \in 1..Len(d) |-> IF i = 1 THEN d[i] ELSE g[i - 1] \o d[i]]
  BY <1>3, Zenon
<1> HIDE DEF g
<1>5. Junta(d, Len(d), g)
  BY <1>4 DEF Junta
<1> QED
  BY <1>2, <1>5

\* A queue of stretches, flattened, is a stretch.
LEMMA CadeiaPlana ==
  ASSUME NEW S, NEW d \in Seq(Seq(S)), NEW a, NEW b, NEW w, Cadeia(d, a, b, w)
  PROVE  FlattenSeq(d) \in Seq(S) /\ Segue(FlattenSeq(d), a, b, w)
<1> PICK f \in [0..Len(d) -> Nat] :
      /\ f[0] = a /\ f[Len(d)] = b
      /\ \A i \in 1..Len(d) : Segue(d[i], f[i - 1], f[i], w)
  BY DEF Cadeia
<1>1. CASE d = <<>>
  <2>1. FlattenSeq(d) = <<>>
    BY <1>1 DEF FlattenSeq
  <2>2. a = b /\ a \in Nat
    BY <1>1
  <2> QED
    BY <2>1, <2>2, SegueVazia
<1>2. CASE d # <<>>
  <2>1. PICK g : Junta(d, Len(d), g) /\ FlattenSeq(d) = g[Len(d)]
    BY <1>2, Plana
  <2> DEFINE n == Len(d)
             T == {i \in 0..n : i > 0 => g[i] \in Seq(S) /\ Segue(g[i], a, f[i], w)}
  <2>0. n \in Nat /\ n # 0
    BY <1>2
  <2>2. \A i \in 1..n : g[i] = IF i = 1 THEN d[i] ELSE g[i - 1] \o d[i]
    BY <2>1, Zenon DEF Junta
  <2>3. ASSUME NEW i \in 1..n, i - 1 \in T PROVE i \in T
    <3>1. d[i] \in Seq(S) /\ Segue(d[i], f[i - 1], f[i], w)
      OBVIOUS
    <3>2. CASE i = 1
      BY <3>1, <3>2, <2>2
    <3>3. CASE i # 1
      <4>1. i - 1 > 0 /\ i > 0
        BY <3>3, <2>0
      <4>2. g[i - 1] \in Seq(S) /\ Segue(g[i - 1], a, f[i - 1], w)
        BY <2>3, <4>1
      <4>3. g[i] = g[i - 1] \o d[i]
        BY <2>2, <3>3
      <4>4. g[i - 1] \o d[i] \in Seq(S)
        BY <4>2, <3>1
      <4>5. Segue(g[i - 1] \o d[i], a, f[i], w)
        BY <4>2, <3>1, SegueConcat
      <4>6. g[i] \in Seq(S) /\ Segue(g[i], a, f[i], w)
        BY <4>3, <4>4, <4>5
      <4> HIDE DEF n
      <4> QED
        BY <4>6, <2>0
    <3> QED
      BY <3>2, <3>3
  <2>4. 0 \in T /\ T \in SUBSET Nat
    BY <2>0
  <2> HIDE DEF T
  <2>5. 0..n \subseteq T
    BY <2>0, <2>3, <2>4, Passos
  <2>6. n \in T
    <3> HIDE DEF n
    <3> QED
      BY <2>0, <2>5
  <2> QED
    BY <2>0, <2>1, <2>6 DEF T
<1> QED
  BY <1>1, <1>2

-----------------------------------------------------------------------------
\* Stderr alone does not move the count.
LEMMA SegueSoLixo ==
  ASSUME NEW S, NEW s \in Seq(S), NEW a \in Nat, \A i \in 1..Len(s) : s[i] = Lixo
  PROVE  Segue(s, a, a, TRUE)
<1> DEFINE n == Len(s)
           g == [i \in 0..n |-> a]
<1>1. n \in Nat /\ g \in [0..n -> Nat] /\ g[0] = a /\ g[n] = a
  OBVIOUS
<1>2. \A i \in 1..n : g[i] = a /\ g[i - 1] = a
  BY <1>1
<1> HIDE DEF g
<1>3. \A i \in 1..n : Vale(s[i], g[i - 1], g[i], TRUE)
  BY <1>2 DEF Vale
<1>4. Len(s) = n
  OBVIOUS
<1> HIDE DEF n
<1> QED
  BY <1>1, <1>3, <1>4, SegueCom, Zenon

\* One piece more at the end.
LEMMA UmaAMais ==
  ASSUME NEW S, NEW t \in Seq(S), NEW m \in S
  PROVE  <<m>> \in Seq(S) /\ Append(t, m) = t \o <<m>>
OBVIOUS

\* Each command prints three marks: begin, output, end.
LEMMA MarcaDe ==
  ASSUME NEW q \in Nat
  PROVE  /\ Marca(3 * q + 1).t = "inic" /\ Marca(3 * q + 1).de = q + 1
         /\ Marca(3 * q + 2).t = "saida" /\ Marca(3 * q + 2).de = q + 1
         /\ Marca(3 * q + 3).t = "fim" /\ Marca(3 * q + 3).de = q + 1
<1>1. ((3 * q + 1) - 1) % 3 = 0 /\ ((3 * q + 1) - 1) \div 3 = q
  OBVIOUS
<1>2. ((3 * q + 2) - 1) % 3 = 1 /\ ((3 * q + 2) - 1) \div 3 = q
  OBVIOUS
<1>3. ((3 * q + 3) - 1) % 3 = 2 /\ ((3 * q + 3) - 1) \div 3 = q
  OBVIOUS
<1> QED
  BY <1>1, <1>2, <1>3 DEF Marca

\* Every number is one of the three of some command.
LEMMA DeTresEmTres ==
  ASSUME NEW n \in Nat, n # 0
  PROVE  \E q \in Nat : n = 3 * q + 1 \/ n = 3 * q + 2 \/ n = 3 * q + 3
<1> DEFINE q == (n - 1) \div 3
<1>1. q \in Nat /\ (n = 3 * q + 1 \/ n = 3 * q + 2 \/ n = 3 * q + 3)
  OBVIOUS
<1> QED
  BY <1>1

\* No mark is a piece of stderr.
LEMMA MarcaNaoELixo ==
  ASSUME NEW n \in Nat, n # 0
  PROVE  Marca(n) # Lixo /\ Marca(n).t \in {"inic", "saida", "fim"}
<1>1. PICK q \in Nat : n = 3 * q + 1 \/ n = 3 * q + 2 \/ n = 3 * q + 3
  BY DeTresEmTres
<1>2. /\ Marca(3 * q + 1).t = "inic"
       /\ Marca(3 * q + 2).t = "saida"
       /\ Marca(3 * q + 3).t = "fim"
  BY MarcaDe
<1>3. Marca(n).t \in {"inic", "saida", "fim"}
  BY <1>1, <1>2
<1> QED
  BY <1>3 DEF Lixo

\* The marks of the session's commands are in Marcas.
LEMMA MarcaEmMarcas ==
  ASSUME NEW n \in 1..3 * NCmds
  PROVE  Marca(n) \in Marcas
  BY DEF Marcas

\* What is read comes from a command of the session, or from none.
LEMMA DeQuem ==
  ASSUME NEW m \in Marcas
  PROVE  m.de \in 0..NCmds
<1>1. CASE m = Lixo
  BY LeitorAssumption, <1>1 DEF Lixo
<1>2. CASE m # Lixo
  <2>1. PICK n \in 1..3 * NCmds : m = Marca(n)
    BY <1>2 DEF Marcas
  <2>a. n \in Nat /\ n # 0
    OBVIOUS
  <2>2. PICK q \in Nat : n = 3 * q + 1 \/ n = 3 * q + 2 \/ n = 3 * q + 3
    BY <2>a, DeTresEmTres
  <2>b. /\ Marca(3 * q + 1).de = q + 1
        /\ Marca(3 * q + 2).de = q + 1
        /\ Marca(3 * q + 3).de = q + 1
    BY MarcaDe
  <2>3. m.de = q + 1
    BY <2>1, <2>2, <2>b
  <2>4. q + 1 <= NCmds
    BY LeitorAssumption, <2>2
  <2> QED
    BY <2>3, <2>4
<1> QED
  BY <1>1, <1>2

\* Each mark is told by its distance from the end.
LEMMA Numeracao ==
  ASSUME NEW S, NEW s \in Seq(S), NEW a, NEW n, NEW w, Segue(s, a, n, w)
  PROVE  \A i \in 1..Len(s) : s[i] # Lixo => s[i] = Marca(n - Cardinality(MarcasDepois(s, i)))
<1> PICK f \in [0..Len(s) -> Nat] :
      /\ f[0] = a /\ f[Len(s)] = n
      /\ \A i \in 1..Len(s) : Vale(s[i], f[i - 1], f[i], w)
  BY DEF Segue
<1> DEFINE l == Len(s)
           C(i) == MarcasDepois(s, i)
           T == {k \in 0..l : IsFiniteSet(C(l - k)) /\ f[l - k] = n - Cardinality(C(l - k))}
<1>0. l \in Nat /\ n \in Nat
  OBVIOUS
<1>1. 0 \in T
  <2>1. C(l) = {}
    BY <1>0 DEF MarcasDepois
  <2>2. IsFiniteSet(C(l)) /\ Cardinality(C(l)) = 0
    BY <2>1, FS_EmptySet
  <2>3. f[l] = n
    OBVIOUS
  <2> HIDE DEF l, C
  <2> QED
    BY <1>0, <2>2, <2>3
<1>2. ASSUME NEW k \in 1..l, k - 1 \in T PROVE k \in T
  <2> DEFINE i == l - k + 1
  <2>1. i \in 1..l /\ i - 1 = l - k /\ l - (k - 1) = i /\ i \in Nat
    BY <1>0
  <2>2. IsFiniteSet(C(i)) /\ f[i] = n - Cardinality(C(i))
    <3>1. IsFiniteSet(C(l - (k - 1))) /\ f[l - (k - 1)] = n - Cardinality(C(l - (k - 1)))
      BY <1>2
    <3> QED
      BY <3>1, <2>1, Zenon
  <2> HIDE DEF T
  <2>3. Vale(s[i], f[i - 1], f[i], w) /\ f[i - 1] \in Nat /\ f[i] \in Nat
    <3>1. i \in 0..l /\ i - 1 \in 0..l
      BY <2>1, <1>0
    <3> HIDE DEF i
    <3> QED
      BY <2>1, <3>1
  <2>4. C(i - 1) = IF s[i] # Lixo THEN C(i) \cup {i} ELSE C(i)
    BY <2>1, <1>0 DEF MarcasDepois
  <2>5. i \notin C(i)
    BY <2>1, <1>0 DEF MarcasDepois
  <2> HIDE DEF C, i
  <2>6. Cardinality(C(i)) \in Nat
    BY <2>2, FS_CardinalityType
  <2>9. ASSUME IsFiniteSet(C(i - 1)), f[i - 1] = n - Cardinality(C(i - 1))
        PROVE  k \in T
    <3>1. IsFiniteSet(C(l - k)) /\ f[l - k] = n - Cardinality(C(l - k))
      BY <2>1, <2>9, Zenon
    <3>2. k \in 0..l
      BY <1>0
    <3> HIDE DEF l
    <3> QED
      BY <3>1, <3>2 DEF T
  <2>7. CASE s[i] = Lixo
    <3>1. C(i - 1) = C(i)
      BY <2>4, <2>7
    <3>2. s[i] # Marca(f[i]) \/ f[i] = 0
      BY <2>3, <2>7, MarcaNaoELixo
    <3>3. f[i - 1] = f[i]
      BY <2>3, <3>2 DEF Vale
    <3>4. IsFiniteSet(C(i - 1)) /\ f[i - 1] = n - Cardinality(C(i - 1))
      BY <3>1, <3>3, <2>2
    <3> QED
      BY <3>4, <2>9
  <2>8. CASE s[i] # Lixo
    <3>1. C(i - 1) = C(i) \cup {i}
      BY <2>4, <2>8
    <3>2. IsFiniteSet(C(i - 1)) /\ Cardinality(C(i - 1)) = Cardinality(C(i)) + 1
      BY <2>2, <2>5, <3>1, FS_AddElement
    <3>3. f[i] = f[i - 1] + 1
      BY <2>3, <2>8 DEF Vale
    <3>4. f[i - 1] = n - Cardinality(C(i - 1))
      BY <3>2, <3>3, <2>1, <2>2, <2>3, <2>6, <1>0, SMTT(30)
    <3> QED
      BY <3>2, <3>4, <2>9
  <2> QED
    BY <2>7, <2>8
<1>3. T \in SUBSET Nat
  OBVIOUS
<1> HIDE DEF T
<1>4. 0..l \subseteq T
  <2> HIDE DEF l
  <2> QED
    BY <1>0, <1>1, <1>2, <1>3, Passos
<1>5. SUFFICES ASSUME NEW i \in 1..l, s[i] # Lixo
               PROVE  s[i] = Marca(n - Cardinality(MarcasDepois(s, i)))
  OBVIOUS
<1>6. l - i \in 0..l /\ l - (l - i) = i
  BY <1>0
<1>7. l - i \in T
  BY <1>4, <1>6
<1>8. f[i] = n - Cardinality(C(i))
  BY <1>6, <1>7 DEF T
<1>9. Vale(s[i], f[i - 1], f[i], w)
  OBVIOUS
<1>10. s[i] = Marca(f[i])
  BY <1>9, <1>5 DEF Vale
<1> QED
  BY <1>8, <1>10

\* Onde finds the first.
LEMMA OndeAcha ==
  ASSUME NEW S, NEW s \in Seq(S), NEW t
  PROVE  \/ (Onde(s, t) = 0 /\ \A i \in 1..Len(s) : s[i].t # t)
         \/ (/\ Onde(s, t) \in 1..Len(s) /\ s[Onde(s, t)].t = t
             /\ \A i \in 1..Onde(s, t) - 1 : s[i].t # t)
<1> DEFINE I == {i \in 1..Len(s) : s[i].t = t}
<1>1. Onde(s, t) = IF I # {} THEN Min(I) ELSE 0
  BY Zenon DEF Onde, SelectInSeq
<1>2. CASE I = {}
  BY <1>1, <1>2
<1>3. CASE I # {}
  <2>1. I \in SUBSET Nat
    OBVIOUS
  <2>2. PICK m \in I : \A k \in I : m <= k
    BY <1>3, <2>1, Menor
  <2>3. Min(I) \in I /\ \A k \in I : Min(I) <= k
    <3> HIDE DEF I
    <3> QED
      BY <2>2, Zenon DEF Min
  <2>4. Onde(s, t) = Min(I)
    BY <1>1, <1>3
  <2> DEFINE o == Onde(s, t)
  <2>5. o \in I /\ \A k \in I : o <= k
    BY <2>3, <2>4
  <2> HIDE DEF o
  <2>6. /\ o \in 1..Len(s) /\ s[o].t = t
        /\ \A i \in 1..o - 1 : s[i].t # t
    BY <2>5
  <2> QED
    BY <2>6 DEF o
<1> QED
  BY <1>2, <1>3

-----------------------------------------------------------------------------
\* The types, at the start and under each group of actions.
LEMMA TiposNoInicio ==
  ASSUME Init
  PROVE  TypeOK
<1>1. <<>> \in Seq(Marcas) /\ <<>> \in Seq(Seq(Marcas)) /\ Len(<<>>) <= Cap
  BY LeitorAssumption
<1> HIDE DEF Init
<1>2. tubo \in [Canos -> Seq(Marcas)] /\ mao \in [Canos -> Seq(Marcas)] /\ acabou \in [Canos -> BOOLEAN]
  BY <1>1 DEF Init
<1>3. resultado \in [1..NCmds -> Resultados] /\ origem \in [1..NCmds -> SUBSET (0..NCmds)]
  BY DEF Init, Resultados
<1>4. /\ enviados \in 0..NCmds /\ emitidas \in 0..3 * enviados
      /\ lixo \in 0..MaxLixo /\ timeouts \in 0..MaxTimeouts
  BY LeitorAssumption DEF Init
<1> QED
  BY <1>1, <1>2, <1>3, <1>4 DEF Init, TypeOK

LEMMA TiposDoRemoto ==
  ASSUME TypeOK, Remoto
  PROVE  TypeOK'
<1>0. Canos' = Canos
  BY DEF Remoto, Emitir, EmitirErro, Morrer, Canos
<1>1. CASE Emitir
  <2>1. emitidas + 1 \in 1..3 * NCmds /\ emitidas + 1 \in 0..3 * enviados
    BY LeitorAssumption, <1>1 DEF Emitir, TypeOK
  <2> DEFINE m == Marca(emitidas + 1)
  <2>2. m \in Marcas
    BY <2>1, MarcaEmMarcas
  <2> HIDE DEF m
  <2>3. tubo' = [tubo EXCEPT !["stdout"] = Append(tubo["stdout"], m)]
    BY <1>1 DEF Emitir, m
  <2>4. "stdout" \in Canos
    BY DEF Canos
  <2>5. tubo' \in [Canos -> Seq(Marcas)]
    BY <2>2, <2>3, <2>4 DEF TypeOK
  <2> QED
    BY <1>0, <1>1, <2>1, <2>5
    DEF Emitir, TypeOK, canais, leitura, fila
<1>2. CASE EmitirErro
  <2>1. Lixo \in Marcas
    BY DEF Marcas
  <2> DEFINE m == Lixo
  <2> HIDE DEF m
  <2>3. tubo' = [tubo EXCEPT !["stderr"] = Append(tubo["stderr"], m)]
    BY <1>2 DEF EmitirErro, m
  <2>4. "stderr" \in Canos
    BY <1>2 DEF EmitirErro, Canos
  <2>5. tubo' \in [Canos -> Seq(Marcas)]
    BY <2>1, <2>3, <2>4 DEF TypeOK, m
  <2> QED
    BY LeitorAssumption, <1>0, <1>2, <2>5 DEF EmitirErro, TypeOK, canais, leitura, fila
<1>3. CASE Morrer
  BY <1>0, <1>3 DEF Morrer, TypeOK, bombas, canais, leitura, fila
<1> QED
  BY <1>1, <1>2, <1>3 DEF Remoto

LEMMA TiposDaBomba ==
  ASSUME TypeOK, NEW c \in Canos, Bomba(c)
  PROVE  TypeOK'
<1>0. Canos' = Canos
  BY DEF Bomba, Ler, Empilhar, AvisarFim, Canos
<1>1. CASE Ler(c)
  <2> PICK n \in 1..Len(tubo[c]) :
         /\ mao' = [mao EXCEPT ![c] = SubSeq(tubo[c], 1, n)]
         /\ tubo' = [tubo EXCEPT ![c] = SubSeq(tubo[c], n + 1, Len(tubo[c]))]
    BY <1>1 DEF Ler
  <2>1. tubo[c] \in Seq(Marcas)
    BY DEF TypeOK
  <2>2. SubSeq(tubo[c], 1, n) \in Seq(Marcas) /\ SubSeq(tubo[c], n + 1, Len(tubo[c])) \in Seq(Marcas)
    BY <2>1
  <2>3. mao' \in [Canos -> Seq(Marcas)] /\ tubo' \in [Canos -> Seq(Marcas)]
    BY <2>2 DEF TypeOK
  <2> QED
    BY <1>0, <1>1, <2>3 DEF Ler, TypeOK, remoto, canais, leitura, fila
<1>2. CASE Empilhar(c)
  <2>1. mao[c] \in Seq(Marcas)
    BY DEF TypeOK
  <2>2. mao' \in [Canos -> Seq(Marcas)]
    BY <1>2 DEF Empilhar, TypeOK
  <2>3. dados' \in Seq(Seq(Marcas)) /\ Len(dados') <= Cap
    BY LeitorAssumption, <1>2, <2>1 DEF Empilhar, TypeOK
  <2> QED
    BY <1>0, <1>2, <2>2, <2>3 DEF Empilhar, TypeOK, remoto, leitura, fila
<1>3. CASE AvisarFim(c)
  BY <1>0, <1>3 DEF AvisarFim, TypeOK, remoto, leitura, fila
<1> QED
  BY <1>1, <1>2, <1>3 DEF Bomba

\* What the reader keeps after a match is still of marks.
LEMMA DepoisTipo ==
  ASSUME NEW S, NEW s \in Seq(S), NEW i \in 1..Len(s)
  PROVE  Depois(s, i) \in Seq(S)
  BY DEF Depois

LEMMA TiposDeRodar ==
  ASSUME TypeOK, Leituras, Ordem, Rodar
  PROVE  TypeOK'
<1>0. Canos' = Canos
  BY DEF Rodar, Enviar, FalharEnvio, CasarInicio, CasarFim, Receber, VerFim, Vencer, Fechar, Canos
<1>1. CASE Enviar
  BY LeitorAssumption, <1>0, <1>1 DEF Enviar, PodeSeguir, TypeOK, remoto, bombas, canais
<1>2. CASE FalharEnvio
  <2>1. resultado' \in [1..NCmds -> Resultados]
    BY <1>2 DEF FalharEnvio, TypeOK, Resultados
  <2> QED
    BY <1>0, <1>2, <2>1 DEF FalharEnvio, PodeSeguir, TypeOK, remoto, bombas, canais, leitura
<1>3. CASE CasarInicio
  <2>1. Onde(acc, "inic") \in 1..Len(acc)
    <3>1. Onde(acc, "inic") # 0
      BY <1>3 DEF CasarInicio, Casa
    <3> QED
      BY <3>1, OndeAcha DEF TypeOK
  <2>2. acc' \in Seq(Marcas)
    BY <1>3, <2>1, DepoisTipo DEF CasarInicio, TypeOK
  <2> QED
    BY <1>0, <1>3, <2>2 DEF CasarInicio, TypeOK, remoto, bombas, canais, fila
<1>4. CASE CasarFim
  <2> DEFINE i == Onde(acc, "fim")
             X == {acc[j].de : j \in 1..i}
  <2>1. i \in 1..Len(acc)
    <3>1. i # 0
      BY <1>4 DEF CasarFim, Casa
    <3> QED
      BY <3>1, OndeAcha DEF TypeOK
  <2>2. buf' \in Seq(Marcas)
    BY <1>4, <2>1, DepoisTipo DEF CasarFim, TypeOK
  <2>3. X \in SUBSET (0..NCmds)
    <3>1. \A j \in 1..i : acc[j] \in Marcas
      BY <2>1 DEF TypeOK
    <3> QED
      BY <3>1, DeQuem
  <2>4. origem' = [origem EXCEPT ![enviados] = X]
    BY <1>4 DEF CasarFim
  <2> HIDE DEF X, i
  <2>5. origem' \in [1..NCmds -> SUBSET (0..NCmds)]
    BY <2>3, <2>4 DEF TypeOK
  <2>6. resultado' \in [1..NCmds -> Resultados] /\ passo' = "parado" /\ acc' = <<>>
    BY <1>4 DEF CasarFim, Devolver, TypeOK, Resultados
  <2> QED
    BY <1>0, <1>4, <2>2, <2>5, <2>6 DEF CasarFim, TypeOK, remoto, bombas, canais
<1>5. CASE Receber
  <2>1. Head(dados) \in Seq(Marcas) /\ Tail(dados) \in Seq(Seq(Marcas)) /\ Len(Tail(dados)) <= Cap
    BY LeitorAssumption, <1>5 DEF Receber, TypeOK
  <2>2. acc' \in Seq(Marcas)
    BY <1>5, <2>1 DEF Receber, TypeOK
  <2> QED
    BY <1>0, <1>5, <2>1, <2>2 DEF Receber, TypeOK, remoto, bombas, fila
<1>6. CASE VerFim
  <2>1. FlattenSeq(dados) \in Seq(Marcas)
    BY CadeiaPlana DEF TypeOK, Ordem, Trecho
  <2> DEFINE tudo == acc \o FlattenSeq(dados)
  <2>2. tudo \in Seq(Marcas)
    BY <2>1 DEF TypeOK
  <2>3. /\ acc' \in Seq(Marcas) /\ passo' \in {"parado", "inic", "fim"}
        /\ resultado' \in [1..NCmds -> Resultados]
    <3>1. CASE Casa(tudo)
      BY <1>6, <2>2, <3>1 DEF VerFim, TypeOK
    <3>2. CASE ~Casa(tudo)
      BY <1>6, <3>2 DEF VerFim, Devolver, TypeOK, Resultados
    <3> QED
      BY <3>1, <3>2
  <2>4. dados' \in Seq(Seq(Marcas)) /\ Len(dados') <= Cap
    BY LeitorAssumption, <1>6 DEF VerFim
  <2> QED
    BY <1>0, <1>6, <2>3, <2>4 DEF VerFim, TypeOK, remoto, bombas
<1>7. CASE Vencer
  <2>1. resultado' \in [1..NCmds -> Resultados] /\ passo' = "parado" /\ acc' = <<>>
    BY <1>7 DEF Vencer, Devolver, TypeOK, Resultados, SemInicio
  <2>2. timeouts' \in 0..MaxTimeouts
    BY LeitorAssumption, <1>7 DEF Vencer, TypeOK
  <2> QED
    BY <1>0, <1>7, <2>1, <2>2 DEF Vencer, TypeOK, remoto, bombas, canais
<1>8. CASE Fechar
  BY <1>0, <1>8 DEF Fechar, TypeOK, bombas, canais, leitura, fila
<1> QED
  BY <1>1, <1>2, <1>3, <1>4, <1>5, <1>6, <1>7, <1>8 DEF Rodar

-----------------------------------------------------------------------------
\* The order of what is under way, action by action.
LEMMA OrdemNoInicio ==
  ASSUME Init
  PROVE  Ordem
<1>1. Segue(<<>>, 0, 0, windows) /\ Cadeia(<<>>, 0, 0, windows)
  BY SegueVazia, CadeiaVazia
<1>2. /\ buf = <<>> /\ acc = <<>> /\ dados = <<>> /\ mao["stdout"] = <<>> /\ tubo["stdout"] = <<>>
      /\ emitidas = 0 /\ enviados = 0 /\ passo = "parado"
  BY DEF Init, Canos
<1>3. Trecho(0, 0, 0, 0, 0) /\ Posicao(0)
  BY <1>1, <1>2 DEF Trecho, Posicao
<1> QED
  BY <1>3 DEF Ordem

\* The position is told by the step of Rodar, not by what the pumps do.
LEMMA PosicaoFica ==
  ASSUME NEW a, Posicao(a), UNCHANGED <<passo, enviados, resultado>>
  PROVE  Posicao(a)'
  BY DEF Posicao

LEMMA OrdemDoRemoto ==
  ASSUME TypeOK, Ordem, Remoto
  PROVE  Ordem'
<1> PICK a, b, c, d, e \in Nat : Trecho(a, b, c, d, e) /\ (~windows => Posicao(a))
  BY DEF Ordem
<1>0. UNCHANGED <<passo, enviados, resultado, windows, buf, acc, dados, mao>>
  BY DEF Remoto, Emitir, EmitirErro, Morrer, canais, leitura, fila, bombas
<1>1. ~windows' => Posicao(a)'
  BY <1>0, PosicaoFica
<1>2. Segue(tubo["stdout"], e, emitidas, windows)'
  <2>0. Segue(tubo["stdout"], e, emitidas, windows) /\ tubo["stdout"] \in Seq(Marcas) /\ emitidas \in Nat
    BY DEF Trecho, TypeOK, Canos
  <2>1. CASE Emitir
    <3> DEFINE m == Marca(emitidas + 1)
               t == tubo["stdout"]
    <3>1. emitidas + 1 \in 1..3 * NCmds
      BY LeitorAssumption, <2>1 DEF Emitir, TypeOK
    <3>2. m \in Marcas /\ Segue(<<m>>, emitidas, emitidas + 1, windows)
      BY <3>1, <2>0, SegueUma, MarcaEmMarcas
    <3>3. tubo'["stdout"] = Append(t, m) /\ emitidas' = emitidas + 1
      BY <2>1 DEF Emitir, TypeOK, Canos
    <3>4. <<m>> \in Seq(Marcas) /\ Append(t, m) = t \o <<m>>
      <4> HIDE DEF m
      <4>1. m \in Marcas /\ t \in Seq(Marcas)
        BY <3>2, <2>0
      <4> QED
        BY <4>1, UmaAMais
    <3>5. Segue(t \o <<m>>, e, emitidas + 1, windows)
      <4> HIDE DEF m
      <4> QED
        BY <3>2, <3>4, <2>0, SegueConcat
    <3> QED
      BY <3>3, <3>4, <3>5, <1>0, Zenon
  <2>2. CASE EmitirErro
    BY <2>0, <2>2, <1>0 DEF EmitirErro, TypeOK, Canos
  <2>3. CASE Morrer
    BY <2>0, <2>3, <1>0 DEF Morrer, bombas
  <2> QED
    BY <2>1, <2>2, <2>3 DEF Remoto
<1>3. Trecho(a, b, c, d, e)'
  BY <1>0, <1>2 DEF Trecho
<1> QED
  BY <1>1, <1>3 DEF Ordem

LEMMA OrdemDaBomba ==
  ASSUME TypeOK, ErroSoLixo, Ordem, NEW p \in Canos, Bomba(p)
  PROVE  Ordem'
<1> PICK a, b, c, d, e \in Nat : Trecho(a, b, c, d, e) /\ (~windows => Posicao(a))
  BY DEF Ordem
<1>0. UNCHANGED <<passo, enviados, resultado, windows, buf, acc, emitidas>>
  BY DEF Bomba, Ler, Empilhar, AvisarFim, remoto, leitura, fila
<1>1. ~windows' => Posicao(a)'
  BY <1>0, PosicaoFica
<1>2. /\ Segue(buf, a, b, windows) /\ Segue(acc, b, c, windows)
      /\ Cadeia(dados, c, d, windows)
      /\ Segue(mao["stdout"], d, e, windows) /\ Segue(tubo["stdout"], e, emitidas, windows)
  BY DEF Trecho
<1>3. p = "stdout" \/ (p = "stderr" /\ windows = TRUE)
  BY DEF Canos, TypeOK
<1>4. "stdout" \in Canos /\ mao[p] \in Seq(Marcas) /\ tubo[p] \in Seq(Marcas) /\ dados \in Seq(Seq(Marcas))
  BY DEF Canos, TypeOK
<1>5. CASE Ler(p)
  <2> PICK n \in 1..Len(tubo[p]) :
         /\ mao' = [mao EXCEPT ![p] = SubSeq(tubo[p], 1, n)]
         /\ tubo' = [tubo EXCEPT ![p] = SubSeq(tubo[p], n + 1, Len(tubo[p]))]
    BY <1>5 DEF Ler
  <2>1. dados' = dados
    BY <1>5 DEF Ler, canais
  <2>2. CASE p = "stdout"
    <3>1. d = e
      <4>1. mao["stdout"] = <<>>
        BY <1>5, <2>2 DEF Ler
      <4> QED
        BY <1>2, <4>1, SegueNada
    <3>2. PICK m \in Nat : /\ Segue(SubSeq(tubo[p], 1, n), e, m, windows)
                          /\ Segue(SubSeq(tubo[p], n + 1, Len(tubo[p])), m, emitidas, windows)
      <4>1. n \in 0..Len(tubo[p])
        BY <1>4
      <4>2. Segue(tubo[p], e, emitidas, windows)
        BY <1>2, <2>2
      <4> QED
        BY <4>1, <4>2, <1>4, SegueCorte
    <3>3. /\ mao'["stdout"] = SubSeq(tubo[p], 1, n)
          /\ tubo'["stdout"] = SubSeq(tubo[p], n + 1, Len(tubo[p]))
      BY <2>2, <1>4 DEF TypeOK
    <3>4. Trecho(a, b, c, d, m)'
      BY <1>0, <1>2, <2>1, <3>1, <3>2, <3>3 DEF Trecho
    <3> QED
      BY <1>1, <3>4 DEF Ordem
  <2>3. CASE p = "stderr"
    <3>1. mao'["stdout"] = mao["stdout"] /\ tubo'["stdout"] = tubo["stdout"]
      BY <2>3, <1>4 DEF TypeOK
    <3>2. Trecho(a, b, c, d, e)'
      BY <1>0, <1>2, <2>1, <3>1 DEF Trecho
    <3> QED
      BY <1>1, <3>2 DEF Ordem
  <2> QED
    BY <1>3, <2>2, <2>3
<1>6. CASE Empilhar(p)
  <2>1. tubo' = tubo /\ dados' = Append(dados, mao[p]) /\ mao' = [mao EXCEPT ![p] = <<>>]
    BY <1>6 DEF Empilhar
  <2>2. CASE p = "stdout"
    <3>1. Cadeia(dados', c, e, windows)
      <4>1. Segue(mao[p], d, e, windows)
        BY <1>2, <2>2
      <4> QED
        BY <1>2, <1>4, <2>1, <4>1, CadeiaMais
    <3>2. mao'["stdout"] = <<>> /\ Segue(<<>>, e, e, windows)
      BY <2>1, <2>2, <1>4, SegueVazia DEF TypeOK
    <3>3. Trecho(a, b, c, e, e)'
      BY <1>0, <1>2, <2>1, <3>1, <3>2 DEF Trecho
    <3> QED
      BY <1>1, <3>3 DEF Ordem
  <2>3. CASE p = "stderr"
    <3>1. Segue(mao[p], d, d, windows)
      <4>1. \A i \in 1..Len(mao[p]) : mao[p][i] = Lixo
        BY <2>3, <1>3 DEF ErroSoLixo
      <4>2. windows = TRUE
        BY <2>3, <1>3
      <4> QED
        BY <4>1, <4>2, <1>4, SegueSoLixo
    <3>2. Cadeia(dados', c, d, windows)
      BY <1>2, <1>4, <2>1, <3>1, CadeiaMais
    <3>3. mao'["stdout"] = mao["stdout"]
      BY <2>1, <2>3, <1>4 DEF TypeOK
    <3>4. Trecho(a, b, c, d, e)'
      BY <1>0, <1>2, <2>1, <3>2, <3>3 DEF Trecho
    <3> QED
      BY <1>1, <3>4 DEF Ordem
  <2> QED
    BY <1>3, <2>2, <2>3
<1>7. CASE AvisarFim(p)
  <2>1. UNCHANGED <<tubo, mao, dados>>
    BY <1>7 DEF AvisarFim
  <2>2. Trecho(a, b, c, d, e)'
    BY <1>0, <1>2, <2>1 DEF Trecho
  <2> QED
    BY <1>1, <2>2 DEF Ordem
<1> QED
  BY <1>5, <1>6, <1>7 DEF Bomba

-----------------------------------------------------------------------------
\* s, from mark a on, has at o a begin marker, and goes from past the end of
\* command k - 1 at most to the end of k.
NoInicio(s, a, o, k) ==
  /\ Len(s) \in Nat /\ o \in 1..Len(s) /\ s[o].t = "inic"
  /\ \A i \in 1..Len(s) : s[i] = Marca(a + i)
  /\ k > 0 /\ 3 * (k - 2) + 1 <= a /\ a + Len(s) <= 3 * k

\* On Linux the first begin marker read is that of the command under way.
LEMMA InicioNoLugar ==
  ASSUME NEW s, NEW a \in Nat, NEW o, NEW k \in Nat, NoInicio(s, a, o, k)
  PROVE  a + o = 3 * (k - 1) + 1
<1>0. /\ Len(s) \in Nat /\ o \in 1..Len(s) /\ s[o].t = "inic"
      /\ \A i \in 1..Len(s) : s[i] = Marca(a + i)
      /\ k > 0 /\ 3 * (k - 2) + 1 <= a /\ a + Len(s) <= 3 * k
  BY DEF NoInicio
<1>1. a + o \in Nat /\ a + o # 0 /\ a + o <= 3 * k /\ a + o > 3 * (k - 2) + 1
  BY <1>0
<1>2. PICK q \in Nat : a + o = 3 * q + 1 \/ a + o = 3 * q + 2 \/ a + o = 3 * q + 3
  BY <1>1, DeTresEmTres
<1>3. Marca(3 * q + 2).t = "saida" /\ Marca(3 * q + 3).t = "fim"
  BY MarcaDe
<1>4. Marca(a + o).t = "inic"
  BY <1>0
<1>5. a + o = 3 * q + 1
  BY <1>2, <1>3, <1>4
<1>6. q = k - 1
  <2> DEFINE x == a + o
  <2>1. x = 3 * q + 1 /\ x <= 3 * k /\ x > 3 * (k - 2) + 1 /\ x \in Nat
    BY <1>1, <1>5
  <2> HIDE DEF x
  <2>2. q > k - 2
    BY <2>1
  <2>3. q < k
    BY <2>1
  <2> QED
    BY <2>2, <2>3
<1> QED
  BY <1>5, <1>6

\* s, from mark a on, has at o an end marker, and is within command r + 1.
NoFim(s, a, o, r) ==
  /\ Len(s) \in Nat /\ o \in 1..Len(s) /\ s[o].t = "fim"
  /\ \A i \in 1..Len(s) : s[i] = Marca(a + i)
  /\ a = 3 * r + 1 /\ a + Len(s) <= 3 * r + 3

\* And the first end marker after it is its own, with its output before.
LEMMA FimNoLugar ==
  ASSUME NEW s, NEW a \in Nat, NEW o, NEW r \in Nat, NoFim(s, a, o, r)
  PROVE  \A j \in 1..o : s[j].de = r + 1
<1>0. /\ Len(s) \in Nat /\ o \in 1..Len(s) /\ s[o].t = "fim"
      /\ \A i \in 1..Len(s) : s[i] = Marca(a + i)
      /\ a = 3 * r + 1 /\ a + Len(s) <= 3 * r + 3
  BY DEF NoFim
<1>1. \A j \in 1..o : a + j = 3 * r + 2 \/ a + j = 3 * r + 3
  BY <1>0
<1>2. Marca(3 * r + 2).de = r + 1 /\ Marca(3 * r + 3).de = r + 1
  BY MarcaDe
<1>3. \A j \in 1..o : s[j] = Marca(a + j)
  BY <1>0
<1> QED
  BY <1>1, <1>2, <1>3

\* What was read without the marker was printed before it.
LEMMA SemMarcador ==
  ASSUME NEW s, NEW a \in Nat, NEW k \in Nat, k > 0, Len(s) \in Nat, NEW t,
         \A i \in 1..Len(s) : s[i] = Marca(a + i), \A i \in 1..Len(s) : s[i].t # t,
         \/ (t = "inic" /\ a <= 3 * (k - 1))
         \/ (t = "fim" /\ a = 3 * (k - 1) + 1)
  PROVE  a + Len(s) < 3 * k
<1> DEFINE r == k - 1
<1>1. r \in Nat /\ r + 1 = k
  OBVIOUS
<1> HIDE DEF r
<1>2. Marca(3 * r + 1).t = "inic" /\ Marca(3 * r + 3).t = "fim"
  BY <1>1, MarcaDe
<1>3. CASE t = "inic" /\ a <= 3 * (k - 1)
  <2>1. SUFFICES ASSUME a + Len(s) >= 3 * k PROVE FALSE
    OBVIOUS
  <2> DEFINE i == 3 * r + 1 - a
  <2>2. i \in 1..Len(s) /\ a + i = 3 * r + 1
    BY <1>1, <1>3, <2>1
  <2> HIDE DEF i
  <2>3. s[i] = Marca(3 * r + 1) /\ s[i].t # "inic"
    BY <1>3, <2>2
  <2> QED
    BY <1>2, <2>3
<1>4. CASE t = "fim" /\ a = 3 * (k - 1) + 1
  <2>1. SUFFICES ASSUME a + Len(s) >= 3 * k PROVE FALSE
    OBVIOUS
  <2> DEFINE i == 3 * r + 3 - a
  <2>2. i \in 1..Len(s) /\ a + i = 3 * r + 3
    BY <1>1, <1>4, <2>1
  <2> HIDE DEF i
  <2>3. s[i] = Marca(3 * r + 3) /\ s[i].t # "fim"
    BY <1>4, <2>2
  <2> QED
    BY <1>2, <2>3
<1> QED
  BY <1>3, <1>4

\* A match cuts a stretch in two.
LEMMA CorteDepois ==
  ASSUME NEW s \in Seq(Marcas), NEW b, NEW c, NEW w, Segue(s, b, c, w), NEW o \in 1..Len(s)
  PROVE  \E m \in Nat : Segue(Depois(s, o), m, c, w)
<1>1. o \in 0..Len(s)
  OBVIOUS
<1> QED
  BY <1>1, SegueCorte DEF Depois

\* Without stderr, what follows the match starts o marks further on.
LEMMA CorteNoLinux ==
  ASSUME NEW s \in Seq(Marcas), NEW b, NEW c, NEW m, NEW o \in 1..Len(s),
         Segue(s, b, c, FALSE), Segue(Depois(s, o), m, c, FALSE)
  PROVE  m = b + o
<1>1. c = b + Len(s) /\ b \in Nat
  BY SegueSemLixo
<1>2. Depois(s, o) \in Seq(Marcas) /\ Len(Depois(s, o)) = Len(s) - o
  BY DEF Depois
<1>3. c = m + Len(Depois(s, o)) /\ m \in Nat
  BY <1>2, SegueSemLixo
<1> QED
  BY <1>1, <1>2, <1>3

\* What Rodar reads on Linux, when it reads.
LEMMA NoLinux ==
  ASSUME TypeOK, Leituras, NEW a \in Nat, NEW b \in Nat, NEW c \in Nat, NEW d \in Nat, NEW e \in Nat,
         Trecho(a, b, c, d, e), windows = FALSE, passo # "parado"
  PROVE  /\ b = a /\ c = a + Len(acc) /\ c <= 3 * enviados /\ Len(acc) \in Nat
         /\ enviados \in 1..NCmds
         /\ \A i \in 1..Len(acc) : acc[i] = Marca(a + i)
<1>1. a = b
  BY SegueNada DEF Trecho, Leituras
<1>2. c = a + Len(acc) /\ \A i \in 1..Len(acc) : acc[i] = Marca(a + i)
  <2>1. acc \in Seq(Marcas) /\ Segue(acc, a, c, FALSE)
    BY <1>1 DEF Trecho, TypeOK
  <2> QED
    BY <2>1, SegueSemLixo
<1>3. d <= e
  <2>1. mao["stdout"] \in Seq(Marcas) /\ Segue(mao["stdout"], d, e, windows)
    BY DEF Trecho, TypeOK, Canos
  <2> QED
    BY <2>1, SegueAvanca
<1>4. e <= emitidas
  <2>1. tubo["stdout"] \in Seq(Marcas) /\ Segue(tubo["stdout"], e, emitidas, windows)
    BY DEF Trecho, TypeOK, Canos
  <2> QED
    BY <2>1, SegueAvanca
<1>5. c <= d
  <2>1. FlattenSeq(dados) \in Seq(Marcas) /\ Segue(FlattenSeq(dados), c, d, windows)
    BY CadeiaPlana DEF Trecho, TypeOK
  <2> QED
    BY <2>1, SegueAvanca
<1>6. emitidas <= 3 * enviados /\ emitidas \in Nat /\ enviados \in 1..NCmds
  BY DEF TypeOK, Leituras
<1> QED
  BY <1>1, <1>2, <1>3, <1>4, <1>5, <1>6 DEF TypeOK

LEMMA OrdemDeRodar ==
  ASSUME TypeOK, Leituras, Fins, Ordem, Rodar
  PROVE  Ordem'
<1> PICK a, b, c, d, e \in Nat : Trecho(a, b, c, d, e) /\ (~windows => Posicao(a))
  BY DEF Ordem
<1>0. windows' = windows /\ windows \in BOOLEAN /\ enviados \in 0..NCmds
  BY DEF Rodar, Enviar, FalharEnvio, CasarInicio, CasarFim, Receber, VerFim, Vencer, Fechar, TypeOK
<1>1. /\ Segue(buf, a, b, windows) /\ Segue(acc, b, c, windows)
      /\ Cadeia(dados, c, d, windows)
      /\ Segue(mao["stdout"], d, e, windows) /\ Segue(tubo["stdout"], e, emitidas, windows)
  BY DEF Trecho
<1>2. buf \in Seq(Marcas) /\ acc \in Seq(Marcas) /\ dados \in Seq(Seq(Marcas))
  BY DEF TypeOK
<1>3. ASSUME passo # "parado", windows = FALSE
      PROVE  /\ b = a /\ c = a + Len(acc) /\ c <= 3 * enviados /\ Len(acc) \in Nat
             /\ enviados \in 1..NCmds
             /\ \A i \in 1..Len(acc) : acc[i] = Marca(a + i)
  BY <1>3, NoLinux
<1>4. CASE Enviar
  <2>1. /\ passo = "parado" /\ acc = <<>> /\ b = c
    BY <1>1, <1>4, SegueNada DEF Enviar, PodeSeguir, Leituras
  <2>2. /\ buf' = <<>> /\ acc' = buf /\ passo' = "inic" /\ enviados' = enviados + 1
        /\ UNCHANGED <<dados, mao, tubo, emitidas, windows, resultado>>
    BY <1>4 DEF Enviar, remoto, bombas, canais
  <2>3. Segue(<<>>, a, a, windows)
    BY SegueVazia
  <2>4. Trecho(a, a, b, d, e)'
    BY <1>1, <2>1, <2>2, <2>3 DEF Trecho
  <2>5. ASSUME ~windows' PROVE Posicao(a)'
    <3>1. Posicao(a) /\ enviados > 0 => resultado[enviados] \notin Conexao
      BY <2>5, <1>0, <1>4 DEF Enviar, PodeSeguir
    <3>2. a <= b /\ b <= 3 * enviados
      <4>1. a <= b
        BY <1>1, <1>2, SegueAvanca
      <4>2. c <= d /\ d <= e /\ e <= emitidas
        <5>1. FlattenSeq(dados) \in Seq(Marcas) /\ Segue(FlattenSeq(dados), c, d, windows)
          BY <1>1, <1>2, CadeiaPlana
        <5>2. mao["stdout"] \in Seq(Marcas) /\ tubo["stdout"] \in Seq(Marcas)
          BY DEF TypeOK, Canos
        <5> QED
          BY <5>1, <5>2, <1>1, SegueAvanca
      <4>3. emitidas \in Nat /\ emitidas <= 3 * enviados
        BY DEF TypeOK
      <4> QED
        BY <4>1, <4>2, <4>3, <2>1, <1>0
    <3>3. 3 * (enviados + 1 - 2) + 1 <= a
      <4>1. CASE enviados = 0
        BY <4>1
      <4>2. CASE enviados > 0
        <5>1. a >= 3 * (enviados - 1) + 1
          BY <3>1, <4>2, <2>1, <2>5, <1>0 DEF Posicao
        <5> QED
          BY <5>1, <1>0
      <4> QED
        BY <4>1, <4>2, <1>0
    <3>4. a <= 3 * (enviados + 1 - 1)
      BY <3>2, <1>0
    <3> DEFINE n == enviados + 1
    <3>5. n = enviados' /\ passo' = "inic"
      BY <2>2
    <3>6. 3 * (n - 2) + 1 <= a
      BY <3>3, <1>0
    <3>7. a <= 3 * (n - 1)
      BY <3>4, <1>0
    <3> HIDE DEF n
    <3> QED
      BY <3>5, <3>6, <3>7 DEF Posicao
  <2> QED
    BY <2>4, <2>5 DEF Ordem
<1>5. CASE FalharEnvio
  <2>1. /\ UNCHANGED <<buf, acc, dados, mao, tubo, emitidas, windows, passo>>
        /\ enviados' = enviados + 1 /\ resultado'[enviados + 1] = "mudo" /\ passo = "parado"
    BY LeitorAssumption, <1>5, <1>0 DEF FalharEnvio, PodeSeguir, remoto, bombas, canais, leitura, TypeOK
  <2>2. Trecho(a, b, c, d, e)'
    BY <1>1, <2>1 DEF Trecho
  <2>3. Posicao(a)'
    BY <2>1 DEF Posicao, Conexao
  <2> QED
    BY <2>2, <2>3 DEF Ordem
<1>6. CASE CasarInicio
  <2> DEFINE o == Onde(acc, "inic")
  <2>1. o \in 1..Len(acc) /\ acc[o].t = "inic"
    <3>1. o # 0
      BY <1>6 DEF CasarInicio, Casa
    <3> QED
      BY <3>1, <1>2, OndeAcha
  <2>2. /\ acc' = Depois(acc, o) /\ passo' = "fim" /\ passo = "inic"
        /\ UNCHANGED <<buf, dados, mao, tubo, emitidas, windows, enviados, resultado>>
    BY <1>6 DEF CasarInicio, remoto, bombas, canais, fila
  <2> HIDE DEF o
  <2>3. PICK m \in Nat : Segue(Depois(acc, o), m, c, windows)
    BY <2>1, <1>1, <1>2, CorteDepois
  <2>4. buf = <<>> /\ Segue(<<>>, m, m, windows)
    BY <2>2, SegueVazia DEF Leituras
  <2>5. Trecho(m, m, c, d, e)'
    BY <1>1, <2>2, <2>3, <2>4 DEF Trecho
  <2>6. ASSUME ~windows' PROVE Posicao(m)'
    <3>1. windows = FALSE /\ Posicao(a)
      BY <2>6, <1>0
    <3>2. /\ b = a /\ c = a + Len(acc) /\ c <= 3 * enviados /\ Len(acc) \in Nat
          /\ enviados \in 1..NCmds
          /\ \A i \in 1..Len(acc) : acc[i] = Marca(a + i)
      BY <3>1, <2>2, <1>3
    <3>3. 3 * (enviados - 2) + 1 <= a
      BY <3>1, <2>2 DEF Posicao
    <3>5. m = b + o
      BY <2>1, <2>3, <3>1, <1>1, <1>2, CorteNoLinux
    <3>4. a + o = 3 * (enviados - 1) + 1
      <4>1. enviados \in Nat /\ enviados > 0 /\ a + Len(acc) <= 3 * enviados
        BY <3>2
      <4> QED
        <5>1. NoInicio(acc, a, o, enviados)
          BY <3>2, <3>3, <4>1, <2>1 DEF NoInicio
        <5> QED
          BY <4>1, <5>1, InicioNoLugar
    <3> QED
      BY <2>2, <3>2, <3>4, <3>5 DEF Posicao
  <2> QED
    BY <2>5, <2>6 DEF Ordem
<1>7. CASE CasarFim
  <2> DEFINE o == Onde(acc, "fim")
  <2>1. o \in 1..Len(acc) /\ acc[o].t = "fim"
    <3>1. o # 0
      BY <1>7 DEF CasarFim, Casa
    <3> QED
      BY <3>1, <1>2, OndeAcha
  <2>2. /\ buf' = Depois(acc, o) /\ acc' = <<>> /\ passo' = "parado" /\ passo = "fim"
        /\ UNCHANGED <<dados, mao, tubo, emitidas, windows, enviados>>
    BY <1>7 DEF CasarFim, Devolver, remoto, bombas, canais
  <2> HIDE DEF o
  <2>3. PICK m \in Nat : Segue(Depois(acc, o), m, c, windows)
    BY <2>1, <1>1, <1>2, CorteDepois
  <2>4. Segue(<<>>, c, c, windows)
    BY SegueVazia
  <2>5. Trecho(m, c, c, d, e)'
    BY <1>1, <2>2, <2>3, <2>4 DEF Trecho
  <2>6. ASSUME ~windows' PROVE Posicao(m)'
    <3>1. windows = FALSE /\ Posicao(a)
      BY <2>6, <1>0
    <3>2. b = a /\ a = 3 * (enviados - 1) + 1 /\ enviados \in 1..NCmds
      BY <3>1, <2>2, <1>3 DEF Posicao
    <3>4. m = b + o
      BY <2>1, <2>3, <3>1, <1>1, <1>2, CorteNoLinux
    <3>3. m >= 3 * (enviados - 1) + 1
      BY <3>2, <3>4, <2>1
    <3> QED
      BY <2>2, <3>3 DEF Posicao
  <2> QED
    BY <2>5, <2>6 DEF Ordem
<1>8. CASE Receber
  <2>1. /\ acc' = acc \o Head(dados) /\ dados' = Tail(dados) /\ dados # <<>>
        /\ UNCHANGED <<buf, mao, tubo, emitidas, windows, enviados, resultado, passo>>
    BY <1>8 DEF Receber, remoto, bombas, fila
  <2>2. PICK m \in Nat : Segue(Head(dados), c, m, windows) /\ Cadeia(Tail(dados), m, d, windows)
    BY <2>1, <1>1, <1>2, CadeiaFrente
  <2>3. Head(dados) \in Seq(Marcas)
    BY <2>1, <1>2
  <2>4. Segue(acc \o Head(dados), b, m, windows)
    BY <2>2, <2>3, <1>1, <1>2, SegueConcat
  <2>5. Trecho(a, b, m, d, e)'
    BY <1>1, <2>1, <2>2, <2>4 DEF Trecho
  <2>6. ~windows' => Posicao(a)'
    BY <2>1, <1>0, PosicaoFica
  <2> QED
    BY <2>5, <2>6 DEF Ordem
<1>9. CASE VerFim
  <2> DEFINE tudo == acc \o FlattenSeq(dados)
  <2>1. FlattenSeq(dados) \in Seq(Marcas) /\ Segue(FlattenSeq(dados), c, d, windows)
    BY <1>1, <1>2, CadeiaPlana
  <2>2. Segue(tudo, b, d, windows) /\ Segue(<<>>, d, d, windows) /\ Cadeia(<<>>, d, d, windows)
    BY <2>1, <1>1, <1>2, SegueConcat, SegueVazia, CadeiaVazia
  <2>3. /\ dados' = <<>> /\ passo # "parado"
        /\ UNCHANGED <<buf, mao, tubo, emitidas, windows, enviados>>
    BY <1>9 DEF VerFim, Esperando, remoto, bombas
  <2>4. CASE Casa(tudo)
    <3>1. acc' = tudo /\ passo' = passo /\ resultado' = resultado
      BY <1>9, <2>4 DEF VerFim
    <3>2. Trecho(a, b, d, d, e)'
      BY <1>1, <2>2, <2>3, <3>1 DEF Trecho
    <3>3. ~windows' => Posicao(a)'
      BY <2>3, <3>1, <1>0, PosicaoFica
    <3> QED
      BY <3>2, <3>3 DEF Ordem
  <2>5. CASE ~Casa(tudo)
    <3>1. acc' = <<>> /\ passo' = "parado" /\ resultado' = [resultado EXCEPT ![enviados] = "caiu"]
      BY <1>9, <2>5 DEF VerFim, Devolver
    <3>2. buf = <<>> /\ enviados \in 1..NCmds
      BY <2>3, <1>0 DEF Leituras
    <3>3. Segue(<<>>, d, d, windows)
      BY SegueVazia
    <3>4. Trecho(d, d, d, d, e)'
      BY <1>1, <2>2, <2>3, <3>1, <3>2, <3>3 DEF Trecho
    <3>5. resultado'[enviados'] = "caiu"
      BY <2>3, <3>1, <3>2 DEF TypeOK
    <3>6. Posicao(d)'
      BY <3>1, <3>5 DEF Posicao, Conexao
    <3> QED
      BY <3>4, <3>6 DEF Ordem
  <2> QED
    BY <2>4, <2>5
<1>10. CASE Vencer
  <2>1. /\ acc' = <<>> /\ passo' = "parado" /\ passo # "parado"
        /\ resultado' = [resultado EXCEPT ![enviados] = IF passo = "inic" THEN SemInicio ELSE "timeout"]
        /\ UNCHANGED <<buf, dados, mao, tubo, emitidas, windows, enviados>>
    BY <1>10 DEF Vencer, Devolver, Esperando, remoto, bombas, canais
  <2>2. buf = <<>> /\ enviados \in 1..NCmds
    BY <2>1, <1>0 DEF Leituras
  <2>3. Segue(<<>>, c, c, windows)
    BY SegueVazia
  <2>4. Trecho(c, c, c, d, e)'
    BY <1>1, <2>1, <2>2, <2>3 DEF Trecho
  <2>5. ASSUME ~windows' PROVE Posicao(c)'
    <3>1. windows = FALSE /\ Posicao(a)
      BY <2>5, <1>0
    <3>2. resultado'[enviados'] = IF passo = "inic" THEN "surdo" ELSE "timeout"
      BY <2>1, <2>2, <3>1 DEF TypeOK, SemInicio
    <3>3. CASE passo = "inic"
      BY <2>1, <3>2, <3>3 DEF Posicao, Conexao
    <3>4. CASE passo = "fim"
      <4>1. a = 3 * (enviados - 1) + 1 /\ c = a + Len(acc) /\ Len(acc) \in Nat
        BY <3>1, <3>4, <1>3 DEF Posicao
      <4>2. c >= 3 * (enviados - 1) + 1
        BY <4>1, <2>2
      <4> QED
        BY <4>2, <2>1 DEF Posicao
    <3>5. passo = "inic" \/ passo = "fim"
      BY <2>1 DEF TypeOK
    <3> QED
      BY <3>3, <3>4, <3>5
  <2> QED
    BY <2>4, <2>5 DEF Ordem
<1>11. CASE Fechar
  <2>1. UNCHANGED <<buf, acc, dados, mao, tubo, emitidas, windows, enviados, resultado, passo>>
    BY <1>11 DEF Fechar, bombas, canais, leitura, fila
  <2>2. Trecho(a, b, c, d, e)'
    BY <1>1, <2>1 DEF Trecho
  <2>3. ~windows' => Posicao(a)'
    BY <2>1, <1>0, PosicaoFica
  <2> QED
    BY <2>2, <2>3 DEF Ordem
<1> QED
  BY <1>4, <1>5, <1>6, <1>7, <1>8, <1>9, <1>10, <1>11 DEF Rodar

-----------------------------------------------------------------------------
\* The other parts of the invariant.
LEMMA LeiturasFica ==
  ASSUME TypeOK, Leituras, Next
  PROVE  Leituras'
<1>1. CASE Remoto
  BY <1>1 DEF Remoto, Emitir, EmitirErro, Morrer, Leituras, leitura, fila
<1>2. ASSUME NEW c \in Canos, Bomba(c) PROVE Leituras'
  BY <1>2 DEF Bomba, Ler, Empilhar, AvisarFim, Leituras, leitura, fila
<1>3. CASE Rodar
  <2>1. CASE Enviar
    BY <2>1 DEF Enviar, Leituras, TypeOK
  <2>2. CASE FalharEnvio
    BY <2>2 DEF FalharEnvio, PodeSeguir, Leituras, leitura
  <2>3. CASE CasarInicio
    BY <2>3 DEF CasarInicio, Leituras, fila
  <2>4. CASE CasarFim
    BY <2>4 DEF CasarFim, Devolver, Leituras
  <2>5. CASE Receber
    BY <2>5 DEF Receber, Esperando, Leituras, fila
  <2>6. CASE VerFim
    BY <2>6 DEF VerFim, Esperando, Devolver, Leituras
  <2>7. CASE Vencer
    BY <2>7 DEF Vencer, Esperando, Devolver, Leituras
  <2>8. CASE Fechar
    BY <2>8 DEF Fechar, Leituras, leitura, fila
  <2> QED
    BY <1>3, <2>1, <2>2, <2>3, <2>4, <2>5, <2>6, <2>7, <2>8 DEF Rodar
<1> QED
  BY <1>1, <1>2, <1>3 DEF Next

\* A pump returns only with its pipe empty and the process gone.
LEMMA FinsFica ==
  ASSUME TypeOK, Leituras, Fins, Next
  PROVE  Fins'
<1>0. Canos' = Canos
  BY DEF Next, Remoto, Emitir, EmitirErro, Morrer, Bomba, Ler, Empilhar, AvisarFim, Rodar, Enviar,
         FalharEnvio, CasarInicio, CasarFim, Receber, VerFim, Vencer, Fechar, Canos
<1>1. CASE Emitir
  <2>1. viva /\ \A c \in Canos : ~acabou[c]
    BY <1>1 DEF Emitir, Fins
  <2> QED
    BY <1>0, <1>1, <2>1 DEF Emitir, Fins, canais, fila
<1>2. CASE EmitirErro
  <2>1. viva /\ \A c \in Canos : ~acabou[c]
    BY <1>2 DEF EmitirErro, Fins
  <2> QED
    BY <1>0, <1>2, <2>1 DEF EmitirErro, Fins, canais, fila
<1>3. CASE Morrer
  BY <1>0, <1>3 DEF Morrer, Fins, bombas, canais, fila
<1>4. ASSUME NEW c \in Canos, Bomba(c) PROVE Fins'
  <2>0. viva' = viva /\ resultado' = resultado
    BY <1>4 DEF Bomba, Ler, Empilhar, AvisarFim, remoto, fila
  <2>1. CASE Ler(c)
    <3>1. PICK n \in 1..Len(tubo[c]) :
         /\ mao' = [mao EXCEPT ![c] = SubSeq(tubo[c], 1, n)]
         /\ tubo' = [tubo EXCEPT ![c] = SubSeq(tubo[c], n + 1, Len(tubo[c]))]
      BY <2>1 DEF Ler
    <3>2. tubo[c] # <<>>
      <4>1. tubo[c] \in Seq(Marcas) /\ Len(tubo[c]) # 0
        BY DEF TypeOK
      <4> QED
        BY <4>1
    <3>3. ~acabou[c] /\ acabou' = acabou /\ fim' = fim
      BY <2>1, <3>2 DEF Ler, Fins, canais
    <3>4. \A x \in Canos : x # c => mao'[x] = mao[x] /\ tubo'[x] = tubo[x]
      BY <3>1 DEF TypeOK
    <3> QED
      BY <1>0, <2>0, <3>3, <3>4 DEF Fins
  <2>2. CASE Empilhar(c)
    <3>1. mao' = [mao EXCEPT ![c] = <<>>] /\ UNCHANGED <<tubo, acabou, fim>>
      BY <2>2 DEF Empilhar
    <3>2. \A x \in Canos : mao[x] = <<>> => mao'[x] = <<>>
      BY <3>1 DEF TypeOK
    <3> QED
      BY <1>0, <2>0, <3>1, <3>2 DEF Fins
  <2>3. CASE AvisarFim(c)
    <3>1. /\ acabou' = [acabou EXCEPT ![c] = TRUE] /\ UNCHANGED <<tubo, mao>>
          /\ ~viva /\ mao[c] = <<>> /\ tubo[c] = <<>>
      BY <2>3 DEF AvisarFim
    <3>2. acabou'[c] /\ \A x \in Canos : x # c => acabou'[x] = acabou[x]
      BY <3>1, Zenon DEF TypeOK
    <3> QED
      BY <1>0, <2>0, <3>1, <3>2 DEF Fins
  <2> QED
    BY <1>4, <2>1, <2>2, <2>3 DEF Bomba
<1>5. CASE Rodar
  <2>0. UNCHANGED <<tubo, mao, acabou>> /\ (viva' = viva \/ viva' = FALSE)
    BY <1>5 DEF Rodar, Enviar, FalharEnvio, CasarInicio, CasarFim, Receber, VerFim, Vencer, Fechar,
                remoto, bombas
  <2>1. fim' => fim
    BY <1>5 DEF Rodar, Enviar, FalharEnvio, CasarInicio, CasarFim, Receber, VerFim, Vencer, Fechar, canais
  <2>2. ASSUME NEW k \in 1..NCmds, resultado'[k] = "caiu" PROVE ~viva'
    <3>1. CASE resultado[k] = "caiu"
      BY <3>1, <2>0 DEF Fins
    <3>2. CASE resultado[k] # "caiu"
      <4>1. VerFim
        BY <1>5, <2>2, <3>2 DEF Rodar, Enviar, FalharEnvio, CasarInicio, CasarFim, Receber, Vencer,
                            Fechar, Devolver, SemInicio, TypeOK, fila
      <4>2. PICK x \in Canos : acabou[x]
        BY <4>1 DEF VerFim, Fins
      <4> QED
        BY <4>2, <2>0 DEF Fins
    <3> QED
      BY <3>1, <3>2
  <2> QED
    BY <1>0, <2>0, <2>1, <2>2 DEF Fins
<1> QED
  BY <1>1, <1>2, <1>3, <1>4, <1>5 DEF Next, Remoto

\* Only EmitirLixo writes on stderr, and no mark.
LEMMA ErroSoLixoFica ==
  ASSUME TypeOK, ErroSoLixo, Next
  PROVE  ErroSoLixo'
<1>0. windows' = windows
  BY DEF Next, Remoto, Emitir, EmitirErro, Morrer, Bomba, Ler, Empilhar, AvisarFim, Rodar, Enviar,
         FalharEnvio, CasarInicio, CasarFim, Receber, VerFim, Vencer, Fechar
<1> SUFFICES ASSUME windows = TRUE
             PROVE  /\ \A i \in 1..Len(tubo'["stderr"]) : tubo'["stderr"][i] = Lixo
                    /\ \A i \in 1..Len(mao'["stderr"]) : mao'["stderr"][i] = Lixo
  BY <1>0 DEF ErroSoLixo, TypeOK
<1> DEFINE t == tubo["stderr"]
           m == mao["stderr"]
<1>1. /\ t \in Seq(Marcas) /\ m \in Seq(Marcas) /\ "stderr" \in Canos
      /\ \A i \in 1..Len(t) : t[i] = Lixo
      /\ \A i \in 1..Len(m) : m[i] = Lixo
  BY DEF ErroSoLixo, TypeOK, Canos
<1>2. CASE EmitirErro
  <2>1. mao' = mao /\ tubo'["stderr"] = Append(t, Lixo)
    BY <1>1, <1>2 DEF EmitirErro, TypeOK
  <2> DEFINE l == Lixo
             u == Append(t, l)
  <2> HIDE DEF l
  <2>2. \A i \in 1..Len(u) : u[i] = l
    BY <1>1 DEF l
  <2> QED
    BY <1>1, <2>1, <2>2 DEF l
<1>3. CASE Emitir
  BY <1>1, <1>3 DEF Emitir, TypeOK
<1>4. CASE Morrer \/ Rodar
  <2>1. UNCHANGED <<tubo, mao>>
    BY <1>4 DEF Morrer, Rodar, Enviar, FalharEnvio, CasarInicio, CasarFim, Receber, VerFim, Vencer,
                Fechar, bombas
  <2> QED
    BY <1>1, <2>1
<1>5. ASSUME NEW c \in Canos, Bomba(c)
      PROVE  /\ \A i \in 1..Len(tubo'["stderr"]) : tubo'["stderr"][i] = Lixo
             /\ \A i \in 1..Len(mao'["stderr"]) : mao'["stderr"][i] = Lixo
  <2>1. CASE Ler(c)
    <3> PICK n \in 1..Len(tubo[c]) :
         /\ mao' = [mao EXCEPT ![c] = SubSeq(tubo[c], 1, n)]
         /\ tubo' = [tubo EXCEPT ![c] = SubSeq(tubo[c], n + 1, Len(tubo[c]))]
      BY <2>1 DEF Ler
    <3>1. CASE c = "stderr"
      <4>1. mao'["stderr"] = SubSeq(t, 1, n) /\ tubo'["stderr"] = SubSeq(t, n + 1, Len(t)) /\ n \in 1..Len(t)
        BY <3>1 DEF TypeOK
      <4>2. \A i \in 1..Len(SubSeq(t, 1, n)) : SubSeq(t, 1, n)[i] = Lixo
        BY <1>1, <4>1
      <4>3. \A i \in 1..Len(SubSeq(t, n + 1, Len(t))) : SubSeq(t, n + 1, Len(t))[i] = Lixo
        BY <1>1, <4>1
      <4> QED
        BY <4>1, <4>2, <4>3
    <3>2. CASE c # "stderr"
      BY <1>1, <3>2 DEF TypeOK
    <3> QED
      BY <3>1, <3>2
  <2>2. CASE Empilhar(c)
    <3>1. tubo' = tubo /\ (mao'["stderr"] = m \/ mao'["stderr"] = <<>>)
      BY <1>1, <2>2 DEF Empilhar, TypeOK
    <3> QED
      BY <1>1, <3>1
  <2>3. CASE AvisarFim(c)
    BY <1>1, <2>3 DEF AvisarFim
  <2> QED
    BY <1>5, <2>1, <2>2, <2>3 DEF Bomba
<1> QED
  BY <1>2, <1>3, <1>4, <1>5 DEF Next, Remoto

\* Only CasarFim ends a command well, and only with its own marks.
LEMMA SaidaFica ==
  ASSUME TypeOK, Leituras, Ordem, CadaSaidaNoSeu, Next
  PROVE  CadaSaidaNoSeu'
<1>0. windows' = windows /\ windows \in BOOLEAN
  BY DEF Next, Remoto, Emitir, EmitirErro, Morrer, Bomba, Ler, Empilhar, AvisarFim, Rodar, Enviar,
         FalharEnvio, CasarInicio, CasarFim, Receber, VerFim, Vencer, Fechar, TypeOK
<1> SUFFICES ASSUME windows = FALSE, NEW k \in 1..NCmds, resultado'[k] = "ok"
             PROVE  k \in origem'[k] /\ origem'[k] \subseteq {0, k}
  BY <1>0 DEF CadaSaidaNoSeu, SaidaCerta
<1>1. resultado[k] = "ok" => k \in origem[k] /\ origem[k] \subseteq {0, k}
  BY DEF CadaSaidaNoSeu, SaidaCerta
<1>2. CASE CasarFim
  <2> DEFINE o == Onde(acc, "fim")
             X == {acc[j].de : j \in 1..o}
  <2>1. o \in 1..Len(acc) /\ acc[o].t = "fim"
    <3>1. o # 0
      BY <1>2 DEF CasarFim, Casa
    <3>2. acc \in Seq(Marcas)
      BY DEF TypeOK
    <3> QED
      BY <3>1, <3>2, OndeAcha
  <2>2. origem' = [origem EXCEPT ![enviados] = X] /\ passo = "fim"
    BY <1>2 DEF CasarFim
  <2>3. resultado' = [resultado EXCEPT ![enviados] = "ok"]
    BY <1>2 DEF CasarFim, Devolver
  <2> HIDE DEF o
  <2>4. CASE k = enviados
    <3> PICK a, b, c, d, e \in Nat : Trecho(a, b, c, d, e) /\ (~windows => Posicao(a))
      BY DEF Ordem
    <3>1. /\ b = a /\ c = a + Len(acc) /\ c <= 3 * enviados /\ Len(acc) \in Nat
          /\ enviados \in 1..NCmds
          /\ \A i \in 1..Len(acc) : acc[i] = Marca(a + i)
      BY <2>2, NoLinux
    <3>2. a = 3 * (enviados - 1) + 1
      BY <2>2 DEF Posicao
    <3>3. \A j \in 1..o : acc[j].de = enviados
      <4>1. PICK r \in Nat : r + 1 = enviados /\ a = 3 * r + 1 /\ a + Len(acc) <= 3 * r + 3
        <5>1. enviados - 1 \in Nat /\ enviados - 1 + 1 = enviados
          BY <3>1
        <5> QED
          BY <5>1, <3>1, <3>2
      <4>2. o \in 1..Len(acc) /\ Len(acc) \in Nat /\ acc[o].t = "fim"
        BY <2>1, <3>1
      <4>3. \A i \in 1..Len(acc) : acc[i] = Marca(a + i)
        BY <3>1
      <4>4. \A j \in 1..o : acc[j].de = r + 1
        <5>1. /\ o \in 1..Len(acc) /\ Len(acc) \in Nat /\ acc[o].t = "fim"
              /\ a + Len(acc) <= 3 * r + 3 /\ a = 3 * r + 1
          BY <4>1, <4>2
        <5>2. NoFim(acc, a, o, r)
          BY <4>3, <5>1 DEF NoFim
        <5>3. a \in Nat /\ r \in Nat
          OBVIOUS
        <5> SUFFICES ASSUME NEW i \in 1..o PROVE acc[i].de = r + 1
          OBVIOUS
        <5> QED
          BY <5>2, <5>3, FimNoLugar
      <4> QED
        BY <4>1, <4>4
    <3>4. X = {k}
      <4>1. 1 \in 1..o
        BY <2>1
      <4> QED
        BY <3>3, <4>1, <2>4
    <3>5. origem'[k] = X
      BY <2>2, <2>4 DEF TypeOK
    <3> QED
      BY <3>4, <3>5
  <2>5. CASE k # enviados
    <3>1. origem'[k] = origem[k] /\ resultado'[k] = resultado[k]
      BY <2>2, <2>3, <2>5 DEF TypeOK
    <3> QED
      BY <1>1, <3>1
  <2> QED
    BY <2>4, <2>5
<1>3. CASE ~CasarFim
  <2>1. origem' = origem
    BY <1>3 DEF Next, Remoto, Emitir, EmitirErro, Morrer, Bomba, Ler, Empilhar, AvisarFim, Rodar, Enviar,
           FalharEnvio, CasarInicio, Receber, VerFim, Vencer, Fechar, fila
  <2>2. resultado[k] = "ok"
    BY <1>3 DEF Next, Remoto, Emitir, EmitirErro, Morrer, Bomba, Ler, Empilhar, AvisarFim, Rodar, Enviar,
           FalharEnvio, CasarInicio, Receber, VerFim, Vencer, Fechar, fila, Devolver, SemInicio, TypeOK
  <2> QED
    BY <1>1, <2>1, <2>2
<1> QED
  BY <1>2, <1>3

\* Only VerFim takes the session for lost, and it drained the channel first.
LEMMA FimFica ==
  ASSUME TypeOK, Leituras, Fins, Ordem, FimNaoSePerde, Next
  PROVE  FimNaoSePerde'
<1>0. windows' = windows /\ windows \in BOOLEAN
  BY DEF Next, Remoto, Emitir, EmitirErro, Morrer, Bomba, Ler, Empilhar, AvisarFim, Rodar, Enviar,
         FalharEnvio, CasarInicio, CasarFim, Receber, VerFim, Vencer, Fechar, TypeOK
<1> SUFFICES ASSUME windows = FALSE, NEW k \in 1..NCmds, resultado'[k] = "caiu"
             PROVE  emitidas' < 3 * k
  BY <1>0 DEF FimNaoSePerde, FimLido
<1>1. resultado[k] = "caiu" => emitidas < 3 * k /\ ~viva
  BY DEF FimNaoSePerde, FimLido, Fins
<1>2. CASE VerFim /\ resultado[k] # "caiu"
  <2> DEFINE f == FlattenSeq(dados)
             s == acc \o f
  <2>1. /\ fim /\ passo # "parado" /\ emitidas' = emitidas /\ ~Casa(s) /\ k = enviados
    <3>1. ~Casa(s)
      BY <1>2 DEF VerFim
    <3>2. resultado' = [resultado EXCEPT ![enviados] = "caiu"]
      BY <1>2, <3>1 DEF VerFim, Devolver
    <3>3. k = enviados
      BY <1>2, <3>2 DEF TypeOK
    <3> QED
      BY <1>2, <3>1, <3>3 DEF VerFim, Esperando, remoto
  <2> PICK a, b, c, d, e \in Nat : Trecho(a, b, c, d, e) /\ (~windows => Posicao(a))
    BY DEF Ordem
  <2>2. mao["stdout"] = <<>> /\ tubo["stdout"] = <<>>
    BY <2>1 DEF Fins, Canos
  <2>3. f \in Seq(Marcas) /\ Segue(f, c, d, windows) /\ acc \in Seq(Marcas)
    BY CadeiaPlana DEF Trecho, TypeOK
  <2>4. d = emitidas
    <3>1. Segue(<<>>, d, e, windows) /\ Segue(<<>>, e, emitidas, windows)
      BY <2>2 DEF Trecho
    <3> QED
      BY <3>1, SegueNada
  <2>5. a = b
    BY <2>1, SegueNada DEF Trecho, Leituras
  <2>6. s \in Seq(Marcas) /\ Segue(s, a, emitidas, FALSE)
    <3>1. Segue(acc, a, c, windows) /\ Segue(f, c, emitidas, windows)
      BY <2>3, <2>4, <2>5 DEF Trecho
    <3>2. Segue(acc \o f, a, emitidas, windows)
      BY <2>3, <3>1, SegueConcat
    <3>3. acc \o f \in Seq(Marcas)
      BY <2>3
    <3> HIDE DEF f
    <3> QED
      BY <3>2, <3>3
  <2> HIDE DEF s
  <2>7. emitidas = a + Len(s) /\ \A i \in 1..Len(s) : s[i] = Marca(a + i)
    BY <2>6, SegueSemLixo
  <2>8. \A i \in 1..Len(s) : s[i].t # passo
    BY <2>1, <2>6, OndeAcha DEF Casa
  <2>9. \/ (passo = "inic" /\ a <= 3 * (k - 1))
        \/ (passo = "fim" /\ a = 3 * (k - 1) + 1)
    BY <2>1 DEF Posicao, TypeOK
  <2>10. Len(s) \in Nat /\ k \in Nat /\ k > 0
    BY <2>6
  <2>11. a + Len(s) < 3 * k
    BY <2>7, <2>8, <2>9, <2>10, SemMarcador
  <2> QED
    BY <2>1, <2>7, <2>11
<1>3. CASE ~(VerFim /\ resultado[k] # "caiu")
  <2>1. resultado[k] = "caiu"
    BY <1>3 DEF Next, Remoto, Emitir, EmitirErro, Morrer, Bomba, Ler, Empilhar, AvisarFim, Rodar, Enviar,
           FalharEnvio, CasarInicio, CasarFim, Receber, Vencer, Fechar, fila, Devolver, SemInicio, TypeOK
  <2>2. ~Emitir
    BY <1>1, <2>1 DEF Emitir
  <2>3. emitidas' = emitidas
    BY <2>2 DEF Next, Remoto, EmitirErro, Morrer, Bomba, Ler, Empilhar, AvisarFim, Rodar, Enviar,
           FalharEnvio, CasarInicio, CasarFim, Receber, VerFim, Vencer, Fechar, remoto
  <2> QED
    BY <1>1, <2>1, <2>3
<1> QED
  BY <1>2, <1>3

-----------------------------------------------------------------------------
\* The inductive invariant.
LeitorInv ==
  /\ TypeOK /\ Leituras /\ Fins /\ ErroSoLixo /\ Ordem
  /\ CadaSaidaNoSeu /\ FimNaoSePerde

\* Every reachable state of the reader satisfies the inductive invariant: for
\* every number of commands, of pieces of stderr and of timeouts, on Linux and
\* on Windows, the pieces under way towards Rodar are one gapless stretch.
THEOREM LeitorInvariante == Spec => []LeitorInv
<1>1. Init => LeitorInv
  <2> SUFFICES ASSUME Init PROVE LeitorInv
    OBVIOUS
  <2>1. TypeOK /\ Ordem
    BY TiposNoInicio, OrdemNoInicio
  <2>2. Leituras /\ Fins /\ ErroSoLixo
    BY DEF Init, Leituras, Fins, ErroSoLixo, Canos
  <2>3. CadaSaidaNoSeu /\ FimNaoSePerde
    BY DEF Init, CadaSaidaNoSeu, SaidaCerta, FimNaoSePerde, FimLido
  <2> QED
    BY <2>1, <2>2, <2>3 DEF LeitorInv
<1>2. LeitorInv /\ [Next]_vars => LeitorInv'
  <2> SUFFICES ASSUME LeitorInv, [Next]_vars PROVE LeitorInv'
    OBVIOUS
  <2>1. CASE Next
    <3>1. TypeOK /\ Leituras /\ Fins /\ ErroSoLixo /\ Ordem /\ CadaSaidaNoSeu /\ FimNaoSePerde
      BY DEF LeitorInv
    <3>2. Remoto \/ Rodar \/ \E c \in Canos : Bomba(c)
      BY <2>1 DEF Next
    <3>3. TypeOK' /\ Ordem'
      BY <3>1, <3>2, TiposDoRemoto, TiposDaBomba, TiposDeRodar, OrdemDoRemoto, OrdemDaBomba, OrdemDeRodar
    <3>4. Leituras' /\ Fins' /\ ErroSoLixo'
      BY <3>1, <2>1, LeiturasFica, FinsFica, ErroSoLixoFica
    <3>5. CadaSaidaNoSeu' /\ FimNaoSePerde'
      BY <3>1, <2>1, SaidaFica, FimFica
    <3> QED
      BY <3>3, <3>4, <3>5 DEF LeitorInv
  <2>2. CASE UNCHANGED vars
    <3>1. UNCHANGED <<windows, enviados, emitidas, viva, lixo, tubo, mao, acabou, dados, fim, buf, acc,
                      passo, resultado, origem, fechada, timeouts>>
      BY <2>2 DEF vars, remoto, bombas, canais, leitura, fila
    <3>2. TypeOK'
      BY <3>1 DEF LeitorInv, TypeOK, Canos
    <3>3. Leituras' /\ ErroSoLixo'
      BY <3>1 DEF LeitorInv, Leituras, ErroSoLixo
    <3>4. Fins'
      BY <3>1 DEF LeitorInv, Fins, Canos
    <3>5. Ordem'
      <4> PICK a, b, c, d, e \in Nat : Trecho(a, b, c, d, e) /\ (~windows => Posicao(a))
        BY DEF LeitorInv, Ordem
      <4>1. Trecho(a, b, c, d, e)'
        BY <3>1 DEF Trecho
      <4>2. ~windows' => Posicao(a)'
        BY <3>1, PosicaoFica
      <4> QED
        BY <4>1, <4>2 DEF Ordem
    <3>6. CadaSaidaNoSeu' /\ FimNaoSePerde'
      BY <3>1 DEF LeitorInv, CadaSaidaNoSeu, SaidaCerta, FimNaoSePerde, FimLido
    <3> QED
      BY <3>2, <3>3, <3>4, <3>5, <3>6 DEF LeitorInv
  <2> QED
    BY <2>1, <2>2
<1> QED
  BY <1>1, <1>2, PTL DEF Spec

\* The variables of the session, the pumps and Rodar keep their types
\* (leitor.go).
THEOREM LeitorTipos == Spec => []TypeOK
<1>1. LeitorInv => TypeOK
  BY DEF LeitorInv
<1> QED
  BY <1>1, LeitorInvariante, PTL

\* The output Rodar returns for a command was printed by it: no output of one
\* command is given to another, whatever the cuts of the reads and the timeouts
\* before it (Rodar, leitor.go).
THEOREM SaidaDeCadaComando == Spec => []CadaSaidaNoSeu
<1>1. LeitorInv => CadaSaidaNoSeu
  BY DEF LeitorInv
<1> QED
  BY <1>1, LeitorInvariante, PTL

\* A command whose end marker reached the channel is never said to have lost
\* the connection (fimPos and the draining of dados, leitor.go).
THEOREM FimDeCadaComando == Spec => []FimNaoSePerde
<1>1. LeitorInv => FimNaoSePerde
  BY DEF LeitorInv
<1> QED
  BY <1>1, LeitorInvariante, PTL

\* What is between the shell and the reader is what the shell printed last, each
\* piece once and in order (bombear and the channel dados, leitor.go).
THEOREM LeituraEmOrdem == Spec => []NadaForaDeOrdem
<1>1. LeitorInv => NadaForaDeOrdem
  <2> SUFFICES ASSUME LeitorInv PROVE NadaForaDeOrdem
    OBVIOUS
  <2> PICK a, b, c, d, e \in Nat : Trecho(a, b, c, d, e)
    BY DEF LeitorInv, Ordem
  <2> DEFINE f == FlattenSeq(dados)
             m == mao["stdout"]
             t == tubo["stdout"]
  <2>1. /\ buf \in Seq(Marcas) /\ acc \in Seq(Marcas) /\ f \in Seq(Marcas)
        /\ m \in Seq(Marcas) /\ t \in Seq(Marcas)
    BY CadeiaPlana DEF LeitorInv, TypeOK, Trecho, Canos
  <2>2. /\ Segue(buf, a, b, windows) /\ Segue(acc, b, c, windows) /\ Segue(f, c, d, windows)
        /\ Segue(m, d, e, windows) /\ Segue(t, e, emitidas, windows)
    BY CadeiaPlana DEF LeitorInv, TypeOK, Trecho
  <2> HIDE DEF f, m, t
  <2> DEFINE s2 == buf \o acc
             s3 == s2 \o f
             s4 == s3 \o m
             s5 == s4 \o t
  <2>3. s2 \in Seq(Marcas) /\ Segue(s2, a, c, windows)
    BY <2>1, <2>2, SegueConcat
  <2> HIDE DEF s2
  <2>4. s3 \in Seq(Marcas) /\ Segue(s3, a, d, windows)
    BY <2>1, <2>2, <2>3, SegueConcat
  <2> HIDE DEF s3
  <2>5. s4 \in Seq(Marcas) /\ Segue(s4, a, e, windows)
    BY <2>1, <2>2, <2>4, SegueConcat
  <2> HIDE DEF s4
  <2>6. s5 \in Seq(Marcas) /\ Segue(s5, a, emitidas, windows)
    BY <2>1, <2>2, <2>5, SegueConcat
  <2> HIDE DEF s5
  <2>7. EmTransito = s5
    BY Zenon DEF EmTransito, f, m, t, s2, s3, s4, s5
  <2> DEFINE s == EmTransito
  <2>8. s \in Seq(Marcas) /\ Segue(s, a, emitidas, windows)
    BY <2>6, <2>7
  <2> HIDE DEF s
  <2>9. \A i \in 1..Len(s) : s[i] # Lixo => s[i] = Marca(emitidas - Cardinality(MarcasDepois(s, i)))
    BY <2>8, Numeracao
  <2> QED
    BY <2>9, Zenon DEF NadaForaDeOrdem, s
<1> QED
  BY <1>1, LeitorInvariante, PTL
=============================================================================
