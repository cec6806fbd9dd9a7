-------------------------- MODULE MCJanela_proofs --------------------------
(***************************************************************************)
(* Proofs about the window: the strip of tabs and the windows of their own *)
(* (Janelas), the panel with its probes (Painel), the search box (Busca),  *)
(* each on its own, and MCJanela, where one run checks the three.          *)
(*                                                                         *)
(* They hold for every set of connections and machines, every number of    *)
(* tabs, workers, boxes and requests, every room of the queues, and under  *)
(* any scheduling: fairness plays no part in them.  Each part has its      *)
(* inductive invariant: InvJa, InvPa, InvBu.                               *)
(***************************************************************************)
EXTENDS MCJanela, FiniteSetTheorems, SequenceTheorems, WellFoundedInduction, TLAPS

-----------------------------------------------------------------------------
(* The strip of tabs and the windows: the invariant.                       *)

UmaTira == [abas : Seq(0..MaxAbas), idx : Nat]
UmaAbaJa == [chave : Chaves \union {SemChave}, viva : BOOLEAN, fase : FasesJa]
Devolucoes == [tipo : {"devolver"}, aba : IdsJa, chave : {SemChave}]
UmLaco == [fase : {"topo", "dorme", "botoes", "tira", "conteudo", "fecha", "fecha2", "saiu"},
           pedido : BOOLEAN, marca : 0..MaxAbas, fechar : BOOLEAN]
UmModal == [modal : Chaves \union {"nenhum", "outro"}, cofre : BOOLEAN]
Limites == [pedidos : Nat, grupos : Nat, prazo : SUBSET IdsJa]

InvTiposJa ==
  /\ tiraJa \in UmaTira /\ abaJa \in [IdsJa -> UmaAbaJa] /\ destJa \subseteq IdsJa
  /\ filaJa \in Seq(PedidosJa \union Devolucoes) /\ Len(filaJa) <= Teto
  /\ lacoJa \in UmLaco /\ modalJa \in UmModal /\ limJa \in Limites

\* The strip by itself.
TiraInteira == /\ tiraJa.abas[1] = Painel /\ tiraJa.idx \in 1..Len(tiraJa.abas)
               /\ \A i, j \in 1..Len(tiraJa.abas) : tiraJa.abas[i] = tiraJa.abas[j] => i = j

\* A tab is where its phase says: in the strip, with a window, on its way back.
Janeladas == {"nasce", "aberta", "encerra", "devolve"}
CadaUmaNoSeu ==
  \A a \in IdsJa :
    /\ a \in NaTira => abaJa[a].fase = "tira"
    /\ abaJa[a].fase = "tira" /\ abaJa[a].viva => a \in NaTira
    /\ a \in destJa => abaJa[a].fase \in Janeladas
    /\ abaJa[a].fase \in {"nasce", "aberta"} => a \in destJa
    /\ abaJa[a].fase \in {"nunca", "fechada"} => ~abaJa[a].viva
    /\ abaJa[a].fase = "perdida" => a \in limJa.prazo

\* What waits in the queue to be given back is on its way, once.
NaFilaUmaVez ==
  /\ \A i \in 1..Len(filaJa) :
       filaJa[i].tipo = "devolver" => abaJa[filaJa[i].aba].fase = "transito"
  /\ \A i, j \in 1..Len(filaJa) :
       filaJa[i].tipo = "devolver" /\ filaJa[j].tipo = "devolver"
         /\ filaJa[i].aba = filaJa[j].aba => i = j

\* Only closing ends a session: in the strip until the loop closes it, elsewhere
\* until the process exits.
VivaAteFechar ==
  /\ lacoJa.fase \notin {"fecha2", "saiu"} => \A a \in NaTira \ {Painel} : abaJa[a].viva
  /\ lacoJa.fase \in {"fecha2", "saiu"} => \A a \in NaTira \ {Painel} : ~abaJa[a].viva
  /\ lacoJa.fase # "saiu" =>
       \A a \in IdsJa : abaJa[a].fase \in Janeladas \union {"transito"} => abaJa[a].viva
  /\ lacoJa.fase = "saiu" => \A a \in destJa : ~abaJa[a].viva

\* Between two frames, with none asked for, the marked tab is the one shown.
MarcaEntreQuadros ==
  lacoJa.fase \in {"topo", "dorme"} /\ ~lacoJa.pedido => lacoJa.marca = Ativa

InvJa == /\ InvTiposJa /\ TiraInteira /\ CadaUmaNoSeu /\ NaFilaUmaVez /\ VivaAteFechar
         /\ MarcaEntreQuadros

\* What a strip has to be, whatever tab it shows.
TiraBoa(t) ==
  /\ t \in UmaTira /\ t.abas[1] = Painel /\ t.idx \in 1..Len(t.abas)
  /\ \A i, j \in 1..Len(t.abas) : t.abas[i] = t.abas[j] => i = j

LEMMA TiraBoaDoInv == InvTiposJa /\ TiraInteira <=> InvTiposJa /\ TiraBoa(tiraJa)
BY DEF InvTiposJa, TiraInteira, TiraBoa

\* The tabs of a strip are what is at its positions.
LEMMA AbasDaTira ==
  ASSUME NEW S, NEW s \in Seq(S)
  PROVE  ToSet(s) = {s[i] : i \in 1..Len(s)} /\ DOMAIN s = 1..Len(s)
<1>1. DOMAIN s = 1..Len(s)
  BY LenProperties
<1>. QED BY <1>1 DEF ToSet

\* Taking one position out keeps the order of the others.
LEMMA SemUm ==
  ASSUME NEW S, NEW s \in Seq(S), NEW i \in 1..Len(s)
  PROVE  /\ RemoveAt(s, i) \in Seq(S) /\ Len(RemoveAt(s, i)) = Len(s) - 1
         /\ \A k \in 1..(Len(s) - 1) : RemoveAt(s, i)[k] = IF k < i THEN s[k] ELSE s[k + 1]
<1>. DEFINE e == SubSeq(s, 1, i - 1)
            d == SubSeq(s, i + 1, Len(s))
<1>0. Len(s) \in Nat /\ \A k \in 1..Len(s) : s[k] \in S
  BY LenProperties, ElementOfSeq
<1>1. /\ e \in Seq(S) /\ Len(e) = i - 1
      /\ \A k \in 1..(i - 1) : e[k] = s[k]
  <2>1. \A k \in 1..(i - 1) : s[k] \in S
    BY <1>0
  <2>2. /\ e \in Seq(S) /\ Len(e) = IF 1 <= i - 1 THEN (i - 1) - 1 + 1 ELSE 0
        /\ \A k \in 1..((i - 1) - 1 + 1) : e[k] = s[1 + k - 1]
    BY <1>0, <2>1, SubSeqProperties
  <2>. HIDE DEF e
  <2>3. (i - 1) - 1 + 1 = i - 1 /\ \A k \in 1..(i - 1) : 1 + k - 1 = k
    BY <1>0
  <2>. QED BY <1>0, <2>2, <2>3
<1>2. /\ d \in Seq(S) /\ Len(d) = Len(s) - i
      /\ \A k \in 1..(Len(s) - i) : d[k] = s[i + k]
  <2>1. \A k \in (i + 1)..Len(s) : s[k] \in S
    BY <1>0
  <2>2. /\ d \in Seq(S) /\ Len(d) = IF i + 1 <= Len(s) THEN Len(s) - (i + 1) + 1 ELSE 0
        /\ \A k \in 1..(Len(s) - (i + 1) + 1) : d[k] = s[(i + 1) + k - 1]
    BY <1>0, <2>1, SubSeqProperties
  <2>. HIDE DEF d, e
  <2>3. Len(d) = Len(s) - i
    BY <1>0, <2>2
  <2>4. Len(s) - (i + 1) + 1 = Len(s) - i
    BY <1>0
  <2>5. ASSUME NEW k \in 1..(Len(s) - i) PROVE d[k] = s[i + k]
    <3>1. (i + 1) + k - 1 = i + k
      BY <1>0
    <3>2. d[k] = s[(i + 1) + k - 1]
      BY <2>2, <2>4
    <3>. QED BY <3>1, <3>2
  <2>. QED BY <2>2, <2>3, <2>5
<1>3. RemoveAt(s, i) = e \o d
  BY DEF RemoveAt
<1>. HIDE DEF e, d
<1>4. /\ e \o d \in Seq(S) /\ Len(e \o d) = Len(e) + Len(d)
      /\ \A k \in 1..(Len(e) + Len(d)) : (e \o d)[k] = IF k <= Len(e) THEN e[k] ELSE d[k - Len(e)]
  BY <1>1, <1>2, ConcatProperties
<1>5. Len(e) + Len(d) = Len(s) - 1
  BY <1>0, <1>1, <1>2
<1>6. ASSUME NEW k \in 1..(Len(s) - 1)
      PROVE  (e \o d)[k] = IF k < i THEN s[k] ELSE s[k + 1]
  <2>1. (e \o d)[k] = IF k <= Len(e) THEN e[k] ELSE d[k - Len(e)]
    BY <1>4, <1>5
  <2>2. CASE k < i
    <3>1. k \in 1..(i - 1) /\ k <= Len(e)
      BY <1>0, <1>1, <2>2
    <3>. QED BY <1>1, <2>1, <2>2, <3>1
  <2>3. CASE ~(k < i)
    <3>1. k - Len(e) \in 1..(Len(s) - i) /\ ~(k <= Len(e)) /\ i + (k - Len(e)) = k + 1
      BY <1>0, <1>1, <2>3
    <3>. QED BY <1>2, <2>1, <2>3, <3>1
  <2>. QED BY <2>2, <2>3
<1>. QED BY <1>3, <1>4, <1>5, <1>6

LEMMA SaiDaTira ==
  ASSUME InvJa, NEW i \in DOMAIN tiraJa.abas, tiraJa.abas[i] # Painel
  PROVE  /\ TiraBoa(SemPosicao(tiraJa, i))
         /\ ToSet(SemPosicao(tiraJa, i).abas) = NaTira \ {tiraJa.abas[i]}
<1>. DEFINE s == tiraJa.abas
            r == RemoveAt(s, i)
            t == SemPosicao(tiraJa, i)
<1>1. s \in Seq(0..MaxAbas) /\ tiraJa.idx \in 1..Len(s) /\ s[1] = Painel
  BY DEF InvJa, InvTiposJa, UmaTira, TiraInteira
<1>2. \A k, j \in 1..Len(s) : s[k] = s[j] => k = j
  BY DEF InvJa, TiraInteira
<1>3. Len(s) \in Nat /\ DOMAIN s = 1..Len(s) /\ i \in 1..Len(s)
  BY <1>1, LenProperties
<1>4. i # 1
  BY <1>1
<1>5. /\ r \in Seq(0..MaxAbas) /\ Len(r) = Len(s) - 1
      /\ \A k \in 1..(Len(s) - 1) : r[k] = IF k < i THEN s[k] ELSE s[k + 1]
  BY <1>1, <1>3, SemUm
<1>6. t = [abas |-> r, idx |-> IF tiraJa.idx > Len(r) THEN Len(r) ELSE tiraJa.idx]
  BY DEF SemPosicao
<1>7. ToSet(s) = {s[k] : k \in 1..Len(s)}
  BY <1>1, AbasDaTira
<1>8. ToSet(r) = {r[k] : k \in 1..Len(r)}
  BY <1>5, AbasDaTira
<1>. HIDE DEF t, r
<1>9. t.abas = r /\ t.idx \in 1..Len(r) /\ t \in UmaTira
  BY <1>1, <1>3, <1>4, <1>5, <1>6 DEF UmaTira
<1>10. r[1] = Painel
  BY <1>1, <1>3, <1>4, <1>5
<1>11. ASSUME NEW k \in 1..Len(r), NEW j \in 1..Len(r), r[k] = r[j] PROVE k = j
  <2>1. k \in 1..(Len(s) - 1) /\ j \in 1..(Len(s) - 1)
    BY <1>5
  <2>. DEFINE kk == IF k < i THEN k ELSE k + 1
              jj == IF j < i THEN j ELSE j + 1
  <2>2. kk \in 1..Len(s) /\ s[kk] = r[k]
    BY <1>3, <1>5, <2>1
  <2>4. jj \in 1..Len(s) /\ s[jj] = r[j]
    BY <1>3, <1>5, <2>1
  <2>3. kk = jj
    <3>. HIDE DEF kk, jj
    <3>. QED BY <1>2, <1>11, <2>2, <2>4
  <2>. QED BY <1>3, <2>1, <2>3
<1>12. ToSet(r) = ToSet(s) \ {s[i]}
  <2>1. ASSUME NEW k \in 1..Len(r) PROVE r[k] \in ToSet(s) \ {s[i]}
    <3>. DEFINE kk == IF k < i THEN k ELSE k + 1
    <3>1. kk \in 1..Len(s) /\ s[kk] = r[k] /\ kk # i
      BY <1>3, <1>5
    <3>. HIDE DEF kk
    <3>. QED BY <1>2, <1>3, <1>7, <3>1
  <2>2. ASSUME NEW k \in 1..Len(s), s[k] # s[i] PROVE s[k] \in ToSet(r)
    <3>. DEFINE kk == IF k < i THEN k ELSE k - 1
    <3>1. kk \in 1..Len(r) /\ r[kk] = s[k]
      BY <1>3, <1>5, <2>2
    <3>. HIDE DEF kk
    <3>. QED BY <1>8, <3>1
  <2>. QED BY <1>7, <1>8, <2>1, <2>2
<1>. QED BY <1>9, <1>10, <1>11, <1>12 DEF TiraBoa, t, NaTira

LEMMA EntraNaTira ==
  ASSUME InvJa, NEW a \in IdsJa, a \notin NaTira, NEW t,
         t \in {Acrescentar(tiraJa, a), AcrescentarFundo(tiraJa, a)}
  PROVE  TiraBoa(t) /\ ToSet(t.abas) = NaTira \union {a}
<1>. DEFINE s == tiraJa.abas
            r == Append(s, a)
<1>1. s \in Seq(0..MaxAbas) /\ tiraJa.idx \in 1..Len(s) /\ s[1] = Painel
  BY DEF InvJa, InvTiposJa, UmaTira, TiraInteira
<1>2. \A k, j \in 1..Len(s) : s[k] = s[j] => k = j
  BY DEF InvJa, TiraInteira
<1>3. Len(s) \in Nat /\ a \in 0..MaxAbas
  BY <1>1, LenProperties, JanelasAssumption DEF IdsJa
<1>4. /\ r \in Seq(0..MaxAbas) /\ Len(r) = Len(s) + 1
      /\ \A k \in 1..Len(s) : r[k] = s[k]
      /\ r[Len(s) + 1] = a
  BY <1>1, <1>3, AppendProperties
<1>5. t = [abas |-> r, idx |-> Len(s) + 1] \/ t = [abas |-> r, idx |-> tiraJa.idx]
  BY DEF Acrescentar, AcrescentarFundo
<1>6. ToSet(s) = {s[k] : k \in 1..Len(s)} /\ ToSet(r) = {r[k] : k \in 1..Len(r)}
  BY <1>1, <1>4, AbasDaTira
<1>. HIDE DEF r
<1>7. t.abas = r /\ t.idx \in 1..Len(r) /\ t \in UmaTira
  BY <1>1, <1>3, <1>4, <1>5 DEF UmaTira
<1>8. r[1] = Painel
  BY <1>1, <1>3, <1>4
<1>9. \A k \in 1..Len(s) : s[k] # a
  BY <1>6 DEF NaTira
<1>10. ASSUME NEW k \in 1..Len(r), NEW j \in 1..Len(r), r[k] = r[j] PROVE k = j
  <2>1. CASE k = Len(s) + 1
    BY <1>3, <1>4, <1>9, <1>10, <2>1
  <2>2. CASE j = Len(s) + 1
    BY <1>3, <1>4, <1>9, <1>10, <2>2
  <2>3. CASE k \in 1..Len(s) /\ j \in 1..Len(s)
    BY <1>2, <1>4, <1>10, <2>3
  <2>. QED BY <1>3, <1>4, <2>1, <2>2, <2>3
<1>11. ToSet(r) = ToSet(s) \union {a}
  <2>1. ASSUME NEW k \in 1..Len(r) PROVE r[k] \in ToSet(s) \union {a}
    <3>1. k = Len(s) + 1 \/ k \in 1..Len(s)
      BY <1>3, <1>4
    <3>2. CASE k \in 1..Len(s)
      BY <1>4, <1>6, <3>2
    <3>. QED BY <1>4, <3>1, <3>2
  <2>2. ASSUME NEW k \in 1..Len(s) PROVE s[k] \in ToSet(r)
    BY <1>3, <1>4, <1>6
  <2>3. a \in ToSet(r)
    BY <1>3, <1>4, <1>6
  <2>. QED BY <1>6, <2>1, <2>2, <2>3
<1>. QED BY <1>7, <1>8, <1>10, <1>11 DEF TiraBoa, NaTira

\* Showing another tab moves no tab.
LEMMA MostraOutra ==
  ASSUME InvJa, NEW i, NEW t, t = Selecionar(tiraJa, i)
  PROVE  TiraBoa(t) /\ t.abas = tiraJa.abas
<1>1. tiraJa \in UmaTira /\ TiraBoa(tiraJa)
  BY TiraBoaDoInv DEF InvJa, TiraBoa
<1>2. DOMAIN tiraJa.abas = 1..Len(tiraJa.abas)
  BY <1>1, LenProperties DEF UmaTira
<1>3. CASE i \in DOMAIN tiraJa.abas
  <2>1. t = [tiraJa EXCEPT !.idx = i]
    BY <1>3 DEF Selecionar
  <2>2. i \in Nat /\ i \in 1..Len(tiraJa.abas)
    BY <1>2, <1>3
  <2>. QED BY <1>1, <2>1, <2>2 DEF TiraBoa, UmaTira
<1>4. CASE i \notin DOMAIN tiraJa.abas
  BY <1>1, <1>4 DEF Selecionar
<1>. QED BY <1>3, <1>4

-----------------------------------------------------------------------------
(* The queue of the main window.                                           *)

NaFila == PedidosJa \union Devolucoes

\* The queue stays the queue, or loses its head, and who was on the way is still.
LEMMA FilaSegue ==
  ASSUME InvJa, filaJa' = filaJa \/ (filaJa # <<>> /\ filaJa' = Tail(filaJa)),
         \A b \in IdsJa : abaJa[b].fase = "transito" => abaJa'[b].fase = "transito"
  PROVE  filaJa' \in Seq(NaFila) /\ Len(filaJa') <= Teto /\ NaFilaUmaVez'
<1>1. filaJa \in Seq(NaFila) /\ Len(filaJa) <= Teto /\ Len(filaJa) \in Nat /\ Teto \in Nat
  BY JanelasAssumption, LenProperties DEF InvJa, InvTiposJa, NaFila
<1>2. \A i \in 1..Len(filaJa) :
        filaJa[i].tipo = "devolver" =>
          filaJa[i].aba \in IdsJa /\ abaJa[filaJa[i].aba].fase = "transito"
  <2>. SUFFICES ASSUME NEW i \in 1..Len(filaJa), filaJa[i].tipo = "devolver"
                PROVE  filaJa[i].aba \in IdsJa /\ abaJa[filaJa[i].aba].fase = "transito"
    OBVIOUS
  <2>1. filaJa[i] \in NaFila
    BY <1>1, ElementOfSeq
  <2>2. filaJa[i].aba \in IdsJa
    BY <2>1 DEF NaFila, PedidosJa, Devolucoes
  <2>. QED BY <2>2 DEF InvJa, NaFilaUmaVez
<1>3. \A i, j \in 1..Len(filaJa) :
        filaJa[i].tipo = "devolver" /\ filaJa[j].tipo = "devolver"
          /\ filaJa[i].aba = filaJa[j].aba => i = j
  BY DEF InvJa, NaFilaUmaVez
<1>4. CASE filaJa' = filaJa
  BY <1>1, <1>2, <1>3, <1>4 DEF NaFilaUmaVez
<1>5. CASE filaJa # <<>> /\ filaJa' = Tail(filaJa)
  <2>1. /\ Tail(filaJa) \in Seq(NaFila) /\ Len(Tail(filaJa)) = Len(filaJa) - 1
        /\ \A i \in 1..Len(Tail(filaJa)) : Tail(filaJa)[i] = filaJa[i + 1]
    BY <1>1, <1>5, HeadTailProperties
  <2>. DEFINE f == Tail(filaJa)
  <2>2. f \in Seq(NaFila) /\ Len(f) = Len(filaJa) - 1
        /\ \A i \in 1..Len(f) : i + 1 \in 1..Len(filaJa) /\ f[i] = filaJa[i + 1]
    BY <1>1, <2>1
  <2>3. filaJa' = f
    BY <1>5
  <2>. HIDE DEF f
  <2>4. ASSUME NEW i \in 1..Len(f), f[i].tipo = "devolver"
        PROVE  abaJa'[f[i].aba].fase = "transito"
    BY <1>2, <2>2, <2>4
  <2>5. ASSUME NEW i \in 1..Len(f), NEW j \in 1..Len(f), f[i].tipo = "devolver",
               f[j].tipo = "devolver", f[i].aba = f[j].aba
        PROVE  i = j
    <3>1. i + 1 = j + 1
      BY <1>3, <2>2, <2>5
    <3>. QED BY <2>5, <3>1
  <2>6. NaFilaUmaVez'
    BY <2>3, <2>4, <2>5 DEF NaFilaUmaVez
  <2>. QED BY <1>1, <2>2, <2>3, <2>6
<1>. QED BY <1>4, <1>5

\* Something joins the queue.
LEMMA FilaCresce ==
  ASSUME InvJa, NEW p \in NaFila, Len(filaJa) < Teto, filaJa' = Append(filaJa, p),
         p.tipo = "devolver" => abaJa'[p.aba].fase = "transito" /\ abaJa[p.aba].fase # "transito",
         \A b \in IdsJa : abaJa[b].fase = "transito" => abaJa'[b].fase = "transito"
  PROVE  filaJa' \in Seq(NaFila) /\ Len(filaJa') <= Teto /\ NaFilaUmaVez'
<1>1. filaJa \in Seq(NaFila) /\ Len(filaJa) \in Nat /\ Teto \in Nat
  BY JanelasAssumption, LenProperties DEF InvJa, InvTiposJa, NaFila
<1>2. \A i \in 1..Len(filaJa) :
        filaJa[i].tipo = "devolver" =>
          filaJa[i].aba \in IdsJa /\ abaJa[filaJa[i].aba].fase = "transito"
  <2>. SUFFICES ASSUME NEW i \in 1..Len(filaJa), filaJa[i].tipo = "devolver"
                PROVE  filaJa[i].aba \in IdsJa /\ abaJa[filaJa[i].aba].fase = "transito"
    OBVIOUS
  <2>1. filaJa[i] \in NaFila
    BY <1>1, ElementOfSeq
  <2>2. filaJa[i].aba \in IdsJa
    BY <2>1 DEF NaFila, PedidosJa, Devolucoes
  <2>. QED BY <2>2 DEF InvJa, NaFilaUmaVez
<1>3. \A i, j \in 1..Len(filaJa) :
        filaJa[i].tipo = "devolver" /\ filaJa[j].tipo = "devolver"
          /\ filaJa[i].aba = filaJa[j].aba => i = j
  BY DEF InvJa, NaFilaUmaVez
<1>. DEFINE f == Append(filaJa, p)
            n == Len(filaJa) + 1
<1>4. /\ f \in Seq(NaFila) /\ Len(f) = n /\ f[n] = p
      /\ \A i \in 1..Len(filaJa) : f[i] = filaJa[i]
  BY <1>1, AppendProperties
<1>5. filaJa' = f
  OBVIOUS
<1>6. \A i \in 1..n : i \in 1..Len(filaJa) \/ i = n
  BY <1>1
<1>7. n <= Teto
  BY <1>1
<1>. HIDE DEF f, n
<1>8. ASSUME NEW i \in 1..n, f[i].tipo = "devolver"
      PROVE  abaJa'[f[i].aba].fase = "transito"
  <2>1. CASE i = n
    BY <1>4, <1>8, <2>1
  <2>2. CASE i \in 1..Len(filaJa)
    BY <1>2, <1>4, <1>8, <2>2
  <2>. QED BY <1>6, <2>1, <2>2
<1>9. ASSUME NEW i \in 1..n, NEW j \in 1..n, f[i].tipo = "devolver",
             f[j].tipo = "devolver", f[i].aba = f[j].aba
      PROVE  i = j
  <2>1. CASE i = n /\ j = n
    BY <2>1
  <2>2. CASE i = n /\ j \in 1..Len(filaJa)
    BY <1>2, <1>4, <1>9, <2>2
  <2>3. CASE j = n /\ i \in 1..Len(filaJa)
    BY <1>2, <1>4, <1>9, <2>3
  <2>4. CASE i \in 1..Len(filaJa) /\ j \in 1..Len(filaJa)
    BY <1>3, <1>4, <1>9, <2>4
  <2>. QED BY <1>6, <2>1, <2>2, <2>3, <2>4
<1>10. NaFilaUmaVez'
  BY <1>4, <1>5, <1>8, <1>9 DEF NaFilaUmaVez
<1>. QED BY <1>4, <1>5, <1>7, <1>10

-----------------------------------------------------------------------------
(* The loop, the queue and the dialog, with the tabs left alone.           *)

\* What a step of the loop that touches no tab may do to it.
LacoSegue ==
  /\ lacoJa' \in UmLaco
  /\ lacoJa'.fase \in {"fecha2", "saiu"} <=> lacoJa.fase \in {"fecha2", "saiu"}
  /\ lacoJa'.fase = "saiu" <=> lacoJa.fase = "saiu"
  /\ lacoJa'.fase \in {"topo", "dorme"} /\ ~lacoJa'.pedido => lacoJa'.marca = Ativa

LEMMA SoOLaco ==
  ASSUME InvJa, LacoSegue, UNCHANGED <<tiraJa, abaJa, destJa>>,
         filaJa' \in Seq(NaFila), Len(filaJa') <= Teto, NaFilaUmaVez',
         modalJa' \in UmModal, limJa' \in Limites, limJa'.prazo = limJa.prazo
  PROVE  InvJa'
<1>1. InvTiposJa'
  BY DEF InvJa, InvTiposJa, LacoSegue, NaFila
<1>2. TiraInteira'
  BY DEF InvJa, TiraInteira
<1>3. NaTira' = NaTira /\ Ativa' = Ativa
  BY DEF NaTira, Ativa
<1>4. CadaUmaNoSeu'
  BY <1>3 DEF InvJa, CadaUmaNoSeu
<1>5. VivaAteFechar'
  BY <1>3 DEF InvJa, VivaAteFechar, LacoSegue
<1>6. MarcaEntreQuadros'
  BY <1>3 DEF MarcaEntreQuadros, LacoSegue
<1>. QED BY <1>1, <1>2, <1>4, <1>5, <1>6 DEF InvJa

\* Asking for a frame asks nothing else of the loop.
LEMMA PedeSegue ==
  ASSUME InvJa, lacoJa' = Pede(lacoJa)
  PROVE  /\ LacoSegue /\ lacoJa'.pedido = TRUE
         /\ lacoJa'.fase = lacoJa.fase
<1>1. lacoJa \in UmLaco
  BY DEF InvJa, InvTiposJa
<1>. QED BY <1>1 DEF Pede, LacoSegue, UmLaco

LEMMA TiposDoInv ==
  ASSUME InvJa
  PROVE  /\ tiraJa \in UmaTira /\ abaJa \in [IdsJa -> UmaAbaJa] /\ destJa \subseteq IdsJa
         /\ filaJa \in Seq(NaFila) /\ Len(filaJa) <= Teto /\ NaFilaUmaVez
         /\ lacoJa \in UmLaco /\ modalJa \in UmModal /\ limJa \in Limites
         /\ Ativa \in 0..MaxAbas /\ NaTira \subseteq 0..MaxAbas
         /\ TiraBoa(tiraJa) /\ DOMAIN tiraJa.abas = 1..Len(tiraJa.abas)
<1>1. tiraJa \in UmaTira /\ TiraBoa(tiraJa)
  BY TiraBoaDoInv DEF InvJa, TiraBoa
<1>2. tiraJa.abas \in Seq(0..MaxAbas) /\ tiraJa.idx \in 1..Len(tiraJa.abas)
  BY <1>1 DEF UmaTira, TiraBoa
<1>3. Ativa \in 0..MaxAbas
  BY <1>2, ElementOfSeq DEF Ativa
<1>4. NaTira = {tiraJa.abas[i] : i \in 1..Len(tiraJa.abas)} /\ DOMAIN tiraJa.abas = 1..Len(tiraJa.abas)
  BY <1>2, AbasDaTira DEF NaTira
<1>5. NaTira \subseteq 0..MaxAbas
  BY <1>2, <1>4, ElementOfSeq
<1>. QED BY <1>1, <1>3, <1>4, <1>5 DEF InvJa, InvTiposJa, NaFila

\* The steps of the loop that touch no tab.
LEMMA LacoJa ==
  ASSUME InvJa,
         \/ Dormir \/ Acordar \/ AcordarPelaFila \/ PedirFechar \/ AbrirQuadro \/ PassarTira
         \/ FecharQuadro \/ FecharDialogo \/ TomarDialogo \/ Destruir
  PROVE  InvJa'
<1>. DEFINE Comum == /\ UNCHANGED <<tiraJa, abaJa, destJa>>
                     /\ UNCHANGED filaJa /\ UNCHANGED limJa
<1>1. Comum
  BY DEF Dormir, Acordar, AcordarPelaFila, PedirFechar, AbrirQuadro, PassarTira, FecharQuadro,
         FecharDialogo, TomarDialogo, Destruir
<1>2. lacoJa \in UmLaco /\ modalJa \in UmModal /\ Ativa \in 0..MaxAbas
  BY TiposDoInv
<1>3. lacoJa.fase \in {"topo", "dorme"} /\ ~lacoJa.pedido => lacoJa.marca = Ativa
  BY DEF InvJa, MarcaEntreQuadros
<1>4. LacoSegue
  <2>1. CASE Dormir
    BY <1>2, <1>3, <2>1 DEF Dormir, LacoSegue, UmLaco
  <2>2. CASE Acordar \/ AcordarPelaFila
    BY <1>2, <1>3, <2>2 DEF Acordar, AcordarPelaFila, Pede, LacoSegue, UmLaco
  <2>3. CASE PedirFechar
    BY <1>2, <1>3, <2>3 DEF PedirFechar, Pede, LacoSegue, UmLaco
  <2>4. CASE AbrirQuadro
    BY <1>2, <2>4 DEF AbrirQuadro, LacoSegue, UmLaco
  <2>7. CASE PassarTira
    BY <1>2, <2>7 DEF PassarTira, LacoSegue, UmLaco
  <2>8. CASE Destruir
    BY <1>2, <2>8 DEF Destruir, LacoSegue, UmLaco
  <2>5. CASE FecharQuadro
    BY <1>2, <2>5 DEF FecharQuadro, LacoSegue, UmLaco
  <2>6. CASE FecharDialogo \/ TomarDialogo
    BY <1>2, <1>3, <2>6 DEF FecharDialogo, TomarDialogo, LacoSegue
  <2>. QED BY <2>1, <2>2, <2>3, <2>4, <2>5, <2>6, <2>7, <2>8
<1>5. modalJa' \in UmModal
  <2>1. CASE FecharDialogo \/ TomarDialogo
    BY <1>2, <2>1 DEF FecharDialogo, TomarDialogo, UmModal
  <2>2. CASE UNCHANGED modalJa
    BY <1>2, <2>2
  <2>. QED BY <2>1, <2>2 DEF Dormir, Acordar, AcordarPelaFila, PedirFechar, AbrirQuadro,
                             PassarTira, FecharQuadro, Destruir
<1>6. filaJa' \in Seq(NaFila) /\ Len(filaJa') <= Teto /\ NaFilaUmaVez'
  BY <1>1, FilaSegue
<1>7. limJa' \in Limites /\ limJa'.prazo = limJa.prazo
  BY <1>1, TiposDoInv
<1>. QED BY <1>1, <1>4, <1>5, <1>6, <1>7, SoOLaco

\* A request of the search box or of a second invocation.
LEMMA PedirJa ==
  ASSUME InvJa, NEW p \in PedidosJa, PedirAbrir(p)
  PROVE  InvJa'
<1>1. /\ UNCHANGED <<tiraJa, abaJa, destJa>> /\ UNCHANGED modalJa
      /\ limJa' = [limJa EXCEPT !.pedidos = @ + 1]
  BY DEF PedirAbrir
<1>2. limJa' \in Limites /\ limJa'.prazo = limJa.prazo
  BY <1>1, TiposDoInv DEF Limites
<1>3. modalJa' \in UmModal
  BY <1>1, TiposDoInv
<1>4. p \in NaFila /\ p.tipo # "devolver"
  BY DEF NaFila, PedidosJa
<1>5. CASE Len(filaJa) < Teto
  <2>1. filaJa' = Append(filaJa, p) /\ lacoJa' = Pede(lacoJa)
    BY <1>5 DEF PedirAbrir
  <2>2. filaJa' \in Seq(NaFila) /\ Len(filaJa') <= Teto /\ NaFilaUmaVez'
    BY <1>1, <1>4, <1>5, <2>1, FilaCresce
  <2>3. LacoSegue
    BY <2>1, PedeSegue
  <2>. QED BY <1>1, <1>2, <1>3, <2>2, <2>3, SoOLaco
<1>6. CASE ~(Len(filaJa) < Teto)
  <2>1. UNCHANGED <<filaJa, lacoJa>>
    BY <1>6 DEF PedirAbrir
  <2>2. filaJa' \in Seq(NaFila) /\ Len(filaJa') <= Teto /\ NaFilaUmaVez'
    BY <1>1, <2>1, FilaSegue
  <2>3. LacoSegue
    BY <2>1, TiposDoInv DEF LacoSegue, InvJa, MarcaEntreQuadros
  <2>. QED BY <1>1, <1>2, <1>3, <2>2, <2>3, SoOLaco
<1>. QED BY <1>5, <1>6

-----------------------------------------------------------------------------
(* Opening.                                                                *)

\* What an opening may do: another tab is shown, or one that was never open joins
\* the strip.
AbrePode ==
  /\ TiraBoa(tiraJa')
  /\ \/ abaJa' = abaJa /\ ToSet(tiraJa'.abas) = NaTira
     \/ \E a \in IdsJa, c \in Chaves \union {SemChave} :
          /\ abaJa[a].fase = "nunca" /\ abaJa' = Nova(c, a)
          /\ ToSet(tiraJa'.abas) = NaTira \union {a}

LEMMA CriaPode ==
  ASSUME InvJa, NEW c \in Chaves \union {SemChave}, NEW fundo, CriarAba(c, fundo)
  PROVE  AbrePode
<1>1. CASE UNCHANGED <<tiraJa, abaJa>>
  BY <1>1, TiposDoInv DEF AbrePode, NaTira
<1>2. CASE \E a \in Vago :
             /\ abaJa' = Nova(c, a)
             /\ tiraJa' = IF fundo THEN AcrescentarFundo(tiraJa, a) ELSE Acrescentar(tiraJa, a)
  <2>1. PICK a \in Vago :
             /\ abaJa' = Nova(c, a)
             /\ tiraJa' = IF fundo THEN AcrescentarFundo(tiraJa, a) ELSE Acrescentar(tiraJa, a)
    BY <1>2
  <2>2. a \in IdsJa /\ abaJa[a].fase = "nunca"
    BY DEF Vago
  <2>3. a \notin NaTira
    BY <2>2 DEF InvJa, CadaUmaNoSeu
  <2>4. tiraJa' \in {Acrescentar(tiraJa, a), AcrescentarFundo(tiraJa, a)}
    BY <2>1
  <2>5. TiraBoa(tiraJa') /\ ToSet(tiraJa'.abas) = NaTira \union {a}
    BY <2>2, <2>3, <2>4, EntraNaTira
  <2>. QED BY <2>1, <2>2, <2>5 DEF AbrePode
<1>. QED BY <1>1, <1>2 DEF CriarAba

LEMMA AbreConexao ==
  ASSUME InvJa, NEW c \in Chaves, NEW fundo, NEW m \in UmModal, AbrirConexao(c, fundo, m)
  PROVE  AbrePode /\ modalJa' \in UmModal
<1>1. CASE ComChave(c) # {}
  <2>. DEFINE i == Min(ComChave(c))
  <2>1. tiraJa' = Selecionar(tiraJa, i) /\ modalJa' = m /\ UNCHANGED abaJa
    BY <1>1 DEF AbrirConexao
  <2>. HIDE DEF i
  <2>2. TiraBoa(tiraJa') /\ tiraJa'.abas = tiraJa.abas
    BY <2>1, MostraOutra
  <2>. QED BY <2>1, <2>2 DEF AbrePode, NaTira
<1>2. CASE ComChave(c) = {} /\ c \in NoCofre /\ ~m.cofre
  <2>1. modalJa' \in {m, [m EXCEPT !.modal = c]} /\ UNCHANGED <<tiraJa, abaJa>>
    BY <1>2 DEF AbrirConexao
  <2>2. modalJa' \in UmModal
    BY <2>1 DEF UmModal
  <2>. QED BY <2>1, <2>2, TiposDoInv DEF AbrePode, NaTira
<1>3. CASE ComChave(c) = {} /\ ~(c \in NoCofre /\ ~m.cofre)
  <2>1. CriarAba(c, fundo) /\ modalJa' = m
    BY <1>3 DEF AbrirConexao
  <2>. QED BY <2>1, CriaPode
<1>. QED BY <1>1, <1>2, <1>3

LEMMA AbrePreserva ==
  ASSUME InvJa, AbrePode, modalJa' \in UmModal, lacoJa' = Pede(lacoJa),
         lacoJa.fase \in {"topo", "conteudo"}, UNCHANGED <<destJa, limJa>>,
         filaJa' = filaJa \/ (filaJa # <<>> /\ filaJa' = Tail(filaJa))
  PROVE  InvJa'
<1>1. LacoSegue /\ lacoJa'.pedido = TRUE /\ lacoJa'.fase = lacoJa.fase
  BY PedeSegue
<1>2. CASE abaJa' = abaJa /\ ToSet(tiraJa'.abas) = NaTira
  <2>1. filaJa' \in Seq(NaFila) /\ Len(filaJa') <= Teto /\ NaFilaUmaVez'
    BY <1>2, FilaSegue
  <2>2. NaTira' = NaTira
    BY <1>2 DEF NaTira
  <2>3. InvTiposJa' /\ TiraInteira'
    BY <1>1, <1>2, <2>1, TiposDoInv
       DEF AbrePode, TiraBoa, InvTiposJa, TiraInteira, NaFila, LacoSegue
  <2>4. CadaUmaNoSeu' /\ VivaAteFechar'
    BY <1>1, <1>2, <2>2 DEF InvJa, CadaUmaNoSeu, VivaAteFechar
  <2>5. MarcaEntreQuadros'
    BY <1>1 DEF MarcaEntreQuadros
  <2>. QED BY <2>1, <2>3, <2>4, <2>5 DEF InvJa
<1>3. CASE \E a \in IdsJa, c \in Chaves \union {SemChave} :
             /\ abaJa[a].fase = "nunca" /\ abaJa' = Nova(c, a)
             /\ ToSet(tiraJa'.abas) = NaTira \union {a}
  <2>1. PICK a \in IdsJa, c \in Chaves \union {SemChave} :
             /\ abaJa[a].fase = "nunca" /\ abaJa' = Nova(c, a)
             /\ ToSet(tiraJa'.abas) = NaTira \union {a}
    BY <1>3
  <2>2. /\ abaJa' \in [IdsJa -> UmaAbaJa]
        /\ abaJa'[a].fase = "tira" /\ abaJa'[a].viva = TRUE
        /\ \A b \in IdsJa : b # a => abaJa'[b] = abaJa[b]
    BY <2>1, TiposDoInv DEF Nova, UmaAbaJa, FasesJa
  <2>3. \A b \in IdsJa : abaJa[b].fase = "transito" => abaJa'[b].fase = "transito"
    BY <2>1, <2>2
  <2>4. filaJa' \in Seq(NaFila) /\ Len(filaJa') <= Teto /\ NaFilaUmaVez'
    BY <2>3, FilaSegue
  <2>5. NaTira' = NaTira \union {a}
    BY <2>1 DEF NaTira
  <2>6. InvTiposJa' /\ TiraInteira'
    BY <1>1, <2>2, <2>4, TiposDoInv
       DEF AbrePode, TiraBoa, InvTiposJa, TiraInteira, NaFila, LacoSegue
  <2>7. a \notin destJa /\ a \notin NaTira
    BY <2>1 DEF InvJa, CadaUmaNoSeu, Janeladas
  <2>8. CadaUmaNoSeu'
    <3>. SUFFICES ASSUME NEW b \in IdsJa
                  PROVE  /\ b \in NaTira' => abaJa'[b].fase = "tira"
                         /\ abaJa'[b].fase = "tira" /\ abaJa'[b].viva => b \in NaTira'
                         /\ b \in destJa' => abaJa'[b].fase \in Janeladas
                         /\ abaJa'[b].fase \in {"nasce", "aberta"} => b \in destJa'
                         /\ abaJa'[b].fase \in {"nunca", "fechada"} => ~abaJa'[b].viva
                         /\ abaJa'[b].fase = "perdida" => b \in limJa'.prazo
      BY DEF CadaUmaNoSeu
    <3>1. CASE b = a
      BY <2>2, <2>5, <2>7, <3>1
    <3>2. CASE b # a
      <4>1. abaJa'[b] = abaJa[b]
        BY <2>2, <3>2
      <4>. QED BY <2>5, <3>2, <4>1 DEF InvJa, CadaUmaNoSeu
    <3>. QED BY <3>1, <3>2
  <2>9. VivaAteFechar'
    <3>1. \A b \in NaTira' \ {Painel} : abaJa'[b].viva
      <4>. SUFFICES ASSUME NEW b \in NaTira', b # Painel PROVE abaJa'[b].viva
        OBVIOUS
      <4>1. CASE b = a
        BY <2>2, <4>1
      <4>2. CASE b # a
        <5>1. b \in NaTira /\ b \in IdsJa
          BY <2>5, <4>2, TiposDoInv, JanelasAssumption DEF IdsJa, Painel
        <5>. QED BY <2>2, <4>2, <5>1 DEF InvJa, VivaAteFechar
      <4>. QED BY <4>1, <4>2
    <3>2. \A b \in IdsJa : abaJa'[b].fase \in Janeladas \union {"transito"} => abaJa'[b].viva
      BY <2>2 DEF InvJa, VivaAteFechar
    <3>. QED BY <1>1, <3>1, <3>2 DEF VivaAteFechar
  <2>10. MarcaEntreQuadros'
    BY <1>1 DEF MarcaEntreQuadros
  <2>. QED BY <2>4, <2>6, <2>8, <2>9, <2>10 DEF InvJa
<1>. QED BY <1>2, <1>3 DEF AbrePode

\* DrenarFila when the head is an opening, and the clicks that open.
LEMMA AbrirJa ==
  ASSUME InvJa,
         \/ DrenarFila /\ Head(filaJa).tipo # "devolver"
         \/ \E c \in Chaves : AbrirCofre(c) \/ \E fundo \in BOOLEAN : ClicarCartao(c, fundo)
  PROVE  InvJa'
<1>1. CASE DrenarFila /\ Head(filaJa).tipo # "devolver"
  <2>. DEFINE p == Head(filaJa)
  <2>1. p \in PedidosJa
    <3>1. p \in NaFila
      BY <1>1, TiposDoInv, HeadTailProperties DEF DrenarFila
    <3>. QED BY <1>1, <3>1 DEF NaFila, Devolucoes
  <2>2. /\ lacoJa.fase = "topo" /\ filaJa # <<>> /\ filaJa' = Tail(filaJa)
        /\ lacoJa' = Pede(lacoJa) /\ UNCHANGED <<destJa, limJa>>
        /\ AplicarPedidoDeAbrir(p)
    BY <1>1 DEF DrenarFila
  <2>. HIDE DEF p
  <2>3. AbrePode /\ modalJa' \in UmModal
    <3>1. CASE p.tipo = "maquina"
      <4>1. p.chave \in Chaves /\ AbrirConexao(p.chave, grupoJa.fundo, modalJa)
        BY <2>1, <2>2, <3>1 DEF PedidosJa, AplicarPedidoDeAbrir
      <4>. QED BY <4>1, AbreConexao, TiposDoInv
    <3>2. CASE p.tipo # "maquina"
      <4>1. CriarAba(SemChave, FALSE) /\ UNCHANGED modalJa
        BY <2>2, <3>2 DEF AplicarPedidoDeAbrir
      <4>. QED BY <4>1, CriaPode, TiposDoInv
    <3>. QED BY <3>1, <3>2
  <2>. QED BY <2>2, <2>3, AbrePreserva
<1>2. ASSUME NEW c \in Chaves, AbrirCofre(c)
      PROVE  InvJa'
  <2>1. [modal |-> "nenhum", cofre |-> TRUE] \in UmModal
    BY DEF UmModal
  <2>2. AbrePode /\ modalJa' \in UmModal
    BY <1>2, <2>1, AbreConexao DEF AbrirCofre
  <2>. QED BY <1>2, <2>2, AbrePreserva DEF AbrirCofre
<1>3. ASSUME NEW c \in Chaves, NEW fundo \in BOOLEAN, ClicarCartao(c, fundo)
      PROVE  InvJa'
  <2>1. AbrePode /\ modalJa' \in UmModal
    BY <1>3, AbreConexao, TiposDoInv DEF ClicarCartao
  <2>. QED BY <1>3, <2>1, AbrePreserva DEF ClicarCartao
<1>. QED BY <1>1, <1>2, <1>3

-----------------------------------------------------------------------------
(* The strip.                                                              *)

\* Another tab is shown.
LEMMA MostrarJa ==
  ASSUME InvJa,
         \/ \E i \in DOMAIN tiraJa.abas : ClicarAba(i)
         \/ \E passo \in {-1, 1} : Rolar(passo)
  PROVE  InvJa'
<1>1. \E i : tiraJa' = Selecionar(tiraJa, i)
  BY DEF ClicarAba, Rolar
<1>2. TiraBoa(tiraJa') /\ tiraJa'.abas = tiraJa.abas
  BY <1>1, MostraOutra
<1>3. /\ UNCHANGED <<abaJa, destJa, filaJa, lacoJa, modalJa, limJa>>
      /\ lacoJa.fase = "tira"
  BY DEF ClicarAba, Rolar
<1>4. NaTira' = NaTira
  BY <1>2 DEF NaTira
<1>5. filaJa' \in Seq(NaFila) /\ Len(filaJa') <= Teto /\ NaFilaUmaVez'
  BY <1>3, FilaSegue
<1>6. InvTiposJa' /\ TiraInteira'
  BY <1>2, <1>3, <1>5, TiposDoInv DEF TiraBoa, InvTiposJa, TiraInteira, NaFila
<1>7. CadaUmaNoSeu' /\ VivaAteFechar'
  BY <1>3, <1>4 DEF InvJa, CadaUmaNoSeu, VivaAteFechar
<1>8. MarcaEntreQuadros'
  BY <1>3 DEF MarcaEntreQuadros
<1>. QED BY <1>5, <1>6, <1>7, <1>8 DEF InvJa

\* A tab of the strip.
LEMMA NaPosicao ==
  ASSUME InvJa, NEW i \in DOMAIN tiraJa.abas
  PROVE  /\ tiraJa.abas[i] \in NaTira
         /\ tiraJa.abas[i] # Painel => tiraJa.abas[i] \in IdsJa
<1>1. i \in 1..Len(tiraJa.abas) /\ tiraJa.abas \in Seq(0..MaxAbas)
  BY TiposDoInv DEF UmaTira
<1>2. NaTira = {tiraJa.abas[k] : k \in 1..Len(tiraJa.abas)}
  BY <1>1, AbasDaTira DEF NaTira
<1>3. tiraJa.abas[i] \in NaTira
  BY <1>1, <1>2
<1>4. tiraJa.abas[i] \in 0..MaxAbas
  BY <1>3, TiposDoInv
<1>. QED BY <1>3, <1>4, JanelasAssumption DEF IdsJa, Painel

\* One tab leaves the strip: closed, or to a window of its own.
LEMMA TirarJa ==
  ASSUME InvJa, NEW i, PodeSair(i), tiraJa' = SemPosicao(tiraJa, i),
         lacoJa.fase \in {"botoes", "tira"}, lacoJa' \in UmLaco, lacoJa'.fase \in {"botoes", "tira"},
         UNCHANGED <<filaJa, modalJa, limJa>>,
         NEW a, a = tiraJa.abas[i],
         NEW o \in UmaAbaJa, abaJa' = [abaJa EXCEPT ![a] = o],
         \/ o.fase = "tira" /\ ~o.viva /\ destJa' = destJa
         \/ o.fase = "nasce" /\ o.viva /\ destJa' = destJa \union {a}
  PROVE  InvJa'
<1>1. /\ i \in DOMAIN tiraJa.abas /\ a # Painel /\ i \in 1..Len(tiraJa.abas)
      /\ tiraJa.abas \in Seq(0..MaxAbas)
  BY TiposDoInv DEF PodeSair, UmaTira
<1>2. a \in IdsJa /\ a \in NaTira
  BY <1>1, NaPosicao
<1>3. TiraBoa(tiraJa') /\ NaTira' = NaTira \ {a}
  BY <1>1, SaiDaTira DEF NaTira
<1>4. abaJa[a].fase = "tira"
  BY <1>2 DEF InvJa, CadaUmaNoSeu
<1>5. /\ abaJa' \in [IdsJa -> UmaAbaJa] /\ abaJa'[a] = o
      /\ \A b \in IdsJa : b # a => abaJa'[b] = abaJa[b]
  BY <1>2, TiposDoInv
<1>6. \A b \in IdsJa : abaJa[b].fase = "transito" => abaJa'[b].fase = "transito"
  BY <1>4, <1>5
<1>7. filaJa' \in Seq(NaFila) /\ Len(filaJa') <= Teto /\ NaFilaUmaVez'
  BY <1>6, FilaSegue
<1>8. destJa' \subseteq IdsJa
  BY <1>2, TiposDoInv
<1>9. InvTiposJa' /\ TiraInteira'
  BY <1>3, <1>5, <1>7, <1>8, TiposDoInv DEF TiraBoa, InvTiposJa, TiraInteira, NaFila
<1>10. CadaUmaNoSeu'
  <2>. SUFFICES ASSUME NEW b \in IdsJa
                PROVE  /\ b \in NaTira' => abaJa'[b].fase = "tira"
                       /\ abaJa'[b].fase = "tira" /\ abaJa'[b].viva => b \in NaTira'
                       /\ b \in destJa' => abaJa'[b].fase \in Janeladas
                       /\ abaJa'[b].fase \in {"nasce", "aberta"} => b \in destJa'
                       /\ abaJa'[b].fase \in {"nunca", "fechada"} => ~abaJa'[b].viva
                       /\ abaJa'[b].fase = "perdida" => b \in limJa'.prazo
    BY DEF CadaUmaNoSeu
  <2>0. a \notin destJa
    BY <1>2, <1>4 DEF InvJa, CadaUmaNoSeu, Janeladas
  <2>1. CASE b = a
    BY <1>3, <1>5, <2>0, <2>1 DEF Janeladas
  <2>2. CASE b # a
    <3>1. abaJa'[b] = abaJa[b]
      BY <1>5, <2>2
    <3>. QED BY <1>3, <2>2, <3>1 DEF InvJa, CadaUmaNoSeu
  <2>. QED BY <2>1, <2>2
<1>11. VivaAteFechar'
  <2>1. \A b \in NaTira' \ {Painel} : abaJa'[b].viva
    <3>. SUFFICES ASSUME NEW b \in NaTira', b # Painel PROVE abaJa'[b].viva
      OBVIOUS
    <3>1. b \in NaTira /\ b # a /\ b \in IdsJa
      BY <1>3, TiposDoInv, JanelasAssumption DEF IdsJa, Painel
    <3>. QED BY <1>5, <3>1 DEF InvJa, VivaAteFechar
  <2>2. \A b \in IdsJa : abaJa'[b].fase \in Janeladas \union {"transito"} => abaJa'[b].viva
    BY <1>5 DEF InvJa, VivaAteFechar, Janeladas
  <2>. QED BY <2>1, <2>2 DEF VivaAteFechar
<1>12. MarcaEntreQuadros'
  BY DEF MarcaEntreQuadros
<1>. QED BY <1>7, <1>9, <1>10, <1>11, <1>12 DEF InvJa

\* A closed tab: the X, the middle button, Ctrl+W.
LEMMA FecharUma ==
  ASSUME InvJa, NEW i, Fechar(i),
         lacoJa.fase \in {"botoes", "tira"}, lacoJa' \in UmLaco, lacoJa'.fase \in {"botoes", "tira"},
         UNCHANGED <<destJa, filaJa, modalJa, limJa>>
  PROVE  InvJa'
<1>. DEFINE a == tiraJa.abas[i]
            o == [abaJa[a] EXCEPT !.viva = FALSE]
<1>1. /\ PodeSair(i) /\ tiraJa' = SemPosicao(tiraJa, i)
      /\ abaJa' = [abaJa EXCEPT ![a].viva = FALSE]
  BY DEF Fechar
<1>2. a \in IdsJa /\ a \in NaTira
  <2>1. i \in DOMAIN tiraJa.abas /\ a # Painel
    BY <1>1 DEF PodeSair
  <2>. QED BY <2>1, NaPosicao
<1>. HIDE DEF a
<1>3. abaJa[a] \in UmaAbaJa /\ abaJa[a].fase = "tira"
  BY <1>2, TiposDoInv DEF InvJa, CadaUmaNoSeu
<1>4. o \in UmaAbaJa /\ o.fase = "tira" /\ ~o.viva
  BY <1>3 DEF UmaAbaJa
<1>5. abaJa' = [abaJa EXCEPT ![a] = o]
  BY <1>1
<1>. HIDE DEF o
<1>. QED BY <1>1, <1>4, <1>5, TirarJa DEF a

LEMMA TiraMenosJa ==
  ASSUME InvJa, Destacar \/ CloseActive \/ \E i \in DOMAIN tiraJa.abas : FecharAba(i)
  PROVE  InvJa'
<1>0. lacoJa \in UmLaco
  BY TiposDoInv
<1>1. CASE Destacar
  <2>. DEFINE a == Ativa
              o == [abaJa[a] EXCEPT !.fase = "nasce"]
  <2>1. /\ PodeSair(tiraJa.idx) /\ tiraJa' = SemPosicao(tiraJa, tiraJa.idx)
        /\ abaJa' = [abaJa EXCEPT ![a].fase = "nasce"] /\ destJa' = destJa \union {a}
        /\ UNCHANGED <<filaJa, lacoJa, modalJa, limJa>> /\ lacoJa.fase = "botoes"
        /\ a # Painel
    BY <1>1 DEF Destacar, Retirar
  <2>2. a \in IdsJa /\ a \in NaTira
    <3>1. tiraJa.idx \in DOMAIN tiraJa.abas
      BY <2>1 DEF PodeSair
    <3>2. a \in NaTira /\ (a # Painel => a \in IdsJa)
      BY <3>1, NaPosicao DEF Ativa
    <3>. QED BY <2>1, <3>2
  <2>3. a = tiraJa.abas[tiraJa.idx]
    BY DEF Ativa
  <2>. HIDE DEF a
  <2>4. abaJa[a] \in UmaAbaJa /\ abaJa[a].viva
    <3>1. a \in NaTira \ {Painel} /\ lacoJa.fase \notin {"fecha2", "saiu"}
      BY <2>1, <2>2
    <3>. QED BY <2>2, <3>1, TiposDoInv DEF InvJa, VivaAteFechar
  <2>5. o \in UmaAbaJa /\ o.fase = "nasce" /\ o.viva
    BY <2>4 DEF UmaAbaJa, FasesJa
  <2>6. abaJa' = [abaJa EXCEPT ![a] = o]
    BY <2>1
  <2>. HIDE DEF o
  <2>7. lacoJa' \in UmLaco /\ lacoJa'.fase \in {"botoes", "tira"}
    BY <1>0, <2>1
  <2>8. lacoJa.fase \in {"botoes", "tira"} /\ UNCHANGED <<filaJa, modalJa, limJa>>
    BY <2>1
  <2>9. PodeSair(tiraJa.idx) /\ tiraJa' = SemPosicao(tiraJa, tiraJa.idx) /\ destJa' = destJa \union {a}
    BY <2>1
  <2>. QED BY <2>3, <2>5, <2>6, <2>7, <2>8, <2>9, TirarJa
<1>2. CASE CloseActive
  <2>1. lacoJa' \in UmLaco /\ lacoJa'.fase = "tira" /\ lacoJa.fase = "botoes"
    BY <1>0, <1>2 DEF CloseActive, UmLaco
  <2>2. UNCHANGED <<destJa, filaJa, modalJa, limJa>>
    BY <1>2 DEF CloseActive
  <2>3. CASE Fechar(tiraJa.idx)
    BY <2>1, <2>2, <2>3, FecharUma
  <2>4. CASE UNCHANGED <<tiraJa, abaJa>>
    <3>1. filaJa' \in Seq(NaFila) /\ Len(filaJa') <= Teto /\ NaFilaUmaVez'
      BY <2>2, <2>4, FilaSegue
    <3>2. LacoSegue
      BY <2>1 DEF LacoSegue
    <3>. QED BY <2>2, <2>4, <3>1, <3>2, TiposDoInv, SoOLaco
  <2>. QED BY <1>2, <2>3, <2>4 DEF CloseActive
<1>3. ASSUME NEW i \in DOMAIN tiraJa.abas, FecharAba(i) PROVE InvJa'
  BY <1>0, <1>3, FecharUma DEF FecharAba
<1>. QED BY <1>1, <1>2, <1>3

\* A tab that was given back is put in the strip.
LEMMA RecolocarJa ==
  ASSUME InvJa, DrenarFila, Head(filaJa).tipo = "devolver"
  PROVE  InvJa'
<1>. DEFINE p == Head(filaJa)
            a == p.aba
            o == [abaJa[a] EXCEPT !.fase = "tira"]
<1>1. /\ lacoJa.fase = "topo" /\ filaJa # <<>> /\ filaJa' = Tail(filaJa)
      /\ lacoJa' = Pede(lacoJa) /\ UNCHANGED <<destJa, limJa, modalJa>>
      /\ tiraJa' = Acrescentar(tiraJa, a) /\ abaJa' = [abaJa EXCEPT ![a].fase = "tira"]
  BY DEF DrenarFila, RecolocarAba
<1>2. filaJa \in Seq(NaFila) /\ Len(filaJa) \in Nat /\ Len(filaJa) <= Teto /\ Teto \in Nat
  BY TiposDoInv, LenProperties, JanelasAssumption
<1>3. /\ p \in NaFila /\ p = filaJa[1] /\ 1 \in 1..Len(filaJa)
      /\ Tail(filaJa) \in Seq(NaFila) /\ Len(Tail(filaJa)) = Len(filaJa) - 1
      /\ \A i \in 1..Len(Tail(filaJa)) : Tail(filaJa)[i] = filaJa[i + 1]
  BY <1>1, <1>2, HeadTailProperties, EmptySeq
<1>4. p.tipo = "devolver"
  OBVIOUS
<1>. HIDE DEF p
<1>5. a \in IdsJa
  BY <1>3, <1>4 DEF NaFila, PedidosJa, Devolucoes
<1>6. abaJa[a].fase = "transito"
  BY <1>3, <1>4 DEF InvJa, NaFilaUmaVez
<1>7. a \notin NaTira /\ a \notin destJa
  BY <1>5, <1>6 DEF InvJa, CadaUmaNoSeu, Janeladas
<1>8. abaJa[a].viva
  BY <1>1, <1>5, <1>6 DEF InvJa, VivaAteFechar
<1>. HIDE DEF a
<1>9. o \in UmaAbaJa /\ o.fase = "tira" /\ o.viva
  BY <1>5, <1>8, TiposDoInv DEF UmaAbaJa, FasesJa
<1>10. abaJa' = [abaJa EXCEPT ![a] = o]
  BY <1>1
<1>. HIDE DEF o
<1>11. /\ abaJa' \in [IdsJa -> UmaAbaJa] /\ abaJa'[a] = o
       /\ \A b \in IdsJa : b # a => abaJa'[b] = abaJa[b]
  BY <1>5, <1>9, <1>10, TiposDoInv
<1>12. TiraBoa(tiraJa') /\ NaTira' = NaTira \union {a}
  BY <1>1, <1>5, <1>7, EntraNaTira DEF NaTira
<1>13. LacoSegue /\ lacoJa'.pedido = TRUE /\ lacoJa'.fase = lacoJa.fase
  BY <1>1, PedeSegue
<1>14. NaFilaUmaVez'
  <2>. DEFINE f == Tail(filaJa)
  <2>1. /\ filaJa' = f
        /\ \A i \in 1..Len(f) : i + 1 \in 1..Len(filaJa) /\ f[i] = filaJa[i + 1] /\ i + 1 # 1
    BY <1>1, <1>2, <1>3
  <2>. HIDE DEF f
  <2>2. ASSUME NEW i \in 1..Len(f), f[i].tipo = "devolver"
        PROVE  abaJa'[f[i].aba].fase = "transito"
    <3>1. i + 1 \in 1..Len(filaJa) /\ f[i] = filaJa[i + 1] /\ i + 1 # 1
      BY <2>1
    <3>2. filaJa[i + 1] \in NaFila
      BY <1>2, <3>1, ElementOfSeq
    <3>3. f[i].aba \in IdsJa /\ abaJa[f[i].aba].fase = "transito"
      BY <2>2, <3>1, <3>2 DEF NaFila, PedidosJa, Devolucoes, InvJa, NaFilaUmaVez
    <3>4. f[i].aba # a
      BY <1>3, <1>4, <2>2, <3>1 DEF InvJa, NaFilaUmaVez, a
    <3>. QED BY <1>11, <3>3, <3>4
  <2>3. ASSUME NEW i \in 1..Len(f), NEW j \in 1..Len(f), f[i].tipo = "devolver",
               f[j].tipo = "devolver", f[i].aba = f[j].aba
        PROVE  i = j
    <3>1. i + 1 = j + 1
      BY <2>1, <2>3 DEF InvJa, NaFilaUmaVez
    <3>. QED BY <2>3, <3>1
  <2>. QED BY <2>1, <2>2, <2>3 DEF NaFilaUmaVez
<1>15. filaJa' \in Seq(NaFila) /\ Len(filaJa') <= Teto
  BY <1>1, <1>2, <1>3
<1>16. InvTiposJa' /\ TiraInteira'
  BY <1>1, <1>11, <1>12, <1>13, <1>15, TiposDoInv
     DEF TiraBoa, InvTiposJa, TiraInteira, NaFila, LacoSegue
<1>17. CadaUmaNoSeu'
  <2>. SUFFICES ASSUME NEW b \in IdsJa
                PROVE  /\ b \in NaTira' => abaJa'[b].fase = "tira"
                       /\ abaJa'[b].fase = "tira" /\ abaJa'[b].viva => b \in NaTira'
                       /\ b \in destJa' => abaJa'[b].fase \in Janeladas
                       /\ abaJa'[b].fase \in {"nasce", "aberta"} => b \in destJa'
                       /\ abaJa'[b].fase \in {"nunca", "fechada"} => ~abaJa'[b].viva
                       /\ abaJa'[b].fase = "perdida" => b \in limJa'.prazo
    BY DEF CadaUmaNoSeu
  <2>1. CASE b = a
    BY <1>1, <1>7, <1>9, <1>11, <1>12, <2>1
  <2>2. CASE b # a
    <3>1. abaJa'[b] = abaJa[b]
      BY <1>11, <2>2
    <3>. QED BY <1>1, <1>12, <2>2, <3>1 DEF InvJa, CadaUmaNoSeu
  <2>. QED BY <2>1, <2>2
<1>18. VivaAteFechar'
  <2>1. \A b \in NaTira' \ {Painel} : abaJa'[b].viva
    <3>. SUFFICES ASSUME NEW b \in NaTira', b # Painel PROVE abaJa'[b].viva
      OBVIOUS
    <3>1. CASE b = a
      BY <1>9, <1>11, <3>1
    <3>2. CASE b # a
      <4>1. b \in NaTira /\ b \in IdsJa
        BY <1>12, <3>2, TiposDoInv, JanelasAssumption DEF IdsJa, Painel
      <4>. QED BY <1>1, <1>11, <3>2, <4>1 DEF InvJa, VivaAteFechar
    <3>. QED BY <3>1, <3>2
  <2>2. \A b \in IdsJa : abaJa'[b].fase \in Janeladas \union {"transito"} => abaJa'[b].viva
    BY <1>1, <1>9, <1>11 DEF InvJa, VivaAteFechar
  <2>. QED BY <1>1, <1>13, <2>1, <2>2 DEF VivaAteFechar
<1>19. MarcaEntreQuadros'
  BY <1>13 DEF MarcaEntreQuadros
<1>. QED BY <1>14, <1>16, <1>17, <1>18, <1>19 DEF InvJa

-----------------------------------------------------------------------------
(* The windows of their own.                                               *)

\* A tab that is not in the strip changes phase, and it alone.
LEMMA JanelaJa ==
  ASSUME InvJa, NEW a \in IdsJa, abaJa[a].fase \in Janeladas, lacoJa.fase # "saiu",
         NEW o \in UmaAbaJa, abaJa' = [abaJa EXCEPT ![a] = o],
         o.fase \in {"aberta", "encerra", "devolve", "transito", "fechada", "perdida"},
         o.viva = (o.fase # "fechada"),
         o.fase = "aberta" => a \in destJa,
         o.fase \notin Janeladas => a \notin destJa,
         UNCHANGED <<tiraJa, destJa, modalJa>>,
         limJa' \in Limites, limJa.prazo \subseteq limJa'.prazo,
         o.fase = "perdida" => a \in limJa'.prazo,
         filaJa' \in Seq(NaFila), Len(filaJa') <= Teto, NaFilaUmaVez', LacoSegue
  PROVE  InvJa'
<1>1. a \notin NaTira
  BY DEF InvJa, CadaUmaNoSeu, Janeladas
<1>2. NaTira' = NaTira /\ Ativa' = Ativa
  BY DEF NaTira, Ativa
<1>3. /\ abaJa' \in [IdsJa -> UmaAbaJa] /\ abaJa'[a] = o
      /\ \A b \in IdsJa : b # a => abaJa'[b] = abaJa[b]
  BY TiposDoInv
<1>4. InvTiposJa' /\ TiraInteira'
  BY <1>3, TiposDoInv DEF InvJa, InvTiposJa, TiraInteira, NaFila, LacoSegue
<1>5. CadaUmaNoSeu'
  <2>. SUFFICES ASSUME NEW b \in IdsJa
                PROVE  /\ b \in NaTira' => abaJa'[b].fase = "tira"
                       /\ abaJa'[b].fase = "tira" /\ abaJa'[b].viva => b \in NaTira'
                       /\ b \in destJa' => abaJa'[b].fase \in Janeladas
                       /\ abaJa'[b].fase \in {"nasce", "aberta"} => b \in destJa'
                       /\ abaJa'[b].fase \in {"nunca", "fechada"} => ~abaJa'[b].viva
                       /\ abaJa'[b].fase = "perdida" => b \in limJa'.prazo
    BY DEF CadaUmaNoSeu
  <2>1. CASE b = a
    BY <1>1, <1>2, <1>3, <2>1
  <2>2. CASE b # a
    <3>1. abaJa'[b] = abaJa[b]
      BY <1>3, <2>2
    <3>. QED BY <1>2, <3>1 DEF InvJa, CadaUmaNoSeu
  <2>. QED BY <2>1, <2>2
<1>6. VivaAteFechar'
  <2>1. ASSUME NEW b \in NaTira', b # Painel
        PROVE  b \in NaTira /\ abaJa'[b] = abaJa[b]
    <3>1. b \in NaTira /\ b # a /\ b \in IdsJa
      BY <1>1, <1>2, <2>1, TiposDoInv, JanelasAssumption DEF IdsJa, Painel
    <3>. QED BY <1>3, <3>1
  <2>2. lacoJa'.fase \notin {"fecha2", "saiu"} => \A b \in NaTira' \ {Painel} : abaJa'[b].viva
    BY <2>1 DEF InvJa, VivaAteFechar, LacoSegue
  <2>3. lacoJa'.fase \in {"fecha2", "saiu"} => \A b \in NaTira' \ {Painel} : ~abaJa'[b].viva
    BY <2>1 DEF InvJa, VivaAteFechar, LacoSegue
  <2>4. \A b \in IdsJa : abaJa'[b].fase \in Janeladas \union {"transito"} => abaJa'[b].viva
    <3>. SUFFICES ASSUME NEW b \in IdsJa, abaJa'[b].fase \in Janeladas \union {"transito"}
                  PROVE  abaJa'[b].viva
      OBVIOUS
    <3>1. CASE b = a
      BY <1>3, <3>1 DEF Janeladas
    <3>2. CASE b # a
      BY <1>3, <3>2 DEF InvJa, VivaAteFechar
    <3>. QED BY <3>1, <3>2
  <2>5. lacoJa'.fase # "saiu"
    BY DEF LacoSegue
  <2>. QED BY <2>2, <2>3, <2>4, <2>5 DEF VivaAteFechar
<1>7. MarcaEntreQuadros'
  BY <1>2 DEF MarcaEntreQuadros, LacoSegue
<1>. QED BY <1>4, <1>5, <1>6, <1>7 DEF InvJa

\* What PorFase does to a tab that has, or had, a window.
LEMMA FaseSegue ==
  ASSUME InvJa, NEW a \in IdsJa, NEW de \in Janeladas,
         NEW para \in {"aberta", "encerra", "devolve", "transito", "fechada", "perdida"},
         PorFase(a, de, para)
  PROVE  /\ abaJa[a].fase = de /\ lacoJa.fase # "saiu"
         /\ \E o \in UmaAbaJa : /\ o.fase = para /\ o.viva = (para # "fechada")
                                /\ abaJa' = [abaJa EXCEPT ![a] = o]
<1>1. /\ abaJa[a].fase = de /\ lacoJa.fase # "saiu"
      /\ abaJa' = [abaJa EXCEPT ![a].fase = para, ![a].viva = @ /\ para # "fechada"]
  BY DEF PorFase
<1>2. abaJa[a] \in UmaAbaJa /\ abaJa[a].viva
  BY <1>1, TiposDoInv DEF InvJa, VivaAteFechar
<1>. DEFINE o == [abaJa[a] EXCEPT !.fase = para, !.viva = @ /\ para # "fechada"]
<1>3. o \in UmaAbaJa /\ o.fase = para /\ o.viva = (para # "fechada")
  BY <1>2 DEF UmaAbaJa, FasesJa
<1>4. abaJa' = [abaJa EXCEPT ![a] = o]
  BY <1>1, TiposDoInv DEF UmaAbaJa
<1>. HIDE DEF o
<1>. QED BY <1>1, <1>3, <1>4

LEMMA OLacoFica ==
  ASSUME InvJa, UNCHANGED lacoJa
  PROVE  LacoSegue
BY TiposDoInv DEF LacoSegue, InvJa, MarcaEntreQuadros

LEMMA JanelasPasso ==
  ASSUME InvJa, NEW a \in IdsJa,
         \/ NascerJanela(a) \/ Desmarcar(a) \/ EncerrarJanela(a)
         \/ DevolverAba(a) \/ PrazoDaVaga(a)
         \/ \E encerrar \in BOOLEAN : FecharJanela(a, encerrar)
  PROVE  InvJa'
<1>. DEFINE Parado == UNCHANGED <<tiraJa, destJa, modalJa>>
<1>0. /\ limJa \in Limites /\ limJa.prazo \subseteq IdsJa
      /\ abaJa[a].fase \in {"nasce", "aberta"} => a \in destJa
  BY TiposDoInv DEF InvJa, CadaUmaNoSeu, Limites
<1>1. CASE NascerJanela(a)
  <2>1. /\ PorFase(a, "nasce", "aberta") /\ Parado /\ UNCHANGED <<filaJa, lacoJa, limJa>>
    BY <1>1 DEF NascerJanela
  <2>2. PICK o \in UmaAbaJa : /\ o.fase = "aberta" /\ o.viva = ("aberta" # "fechada")
                              /\ abaJa' = [abaJa EXCEPT ![a] = o]
    BY <2>1, FaseSegue DEF Janeladas
  <2>3. abaJa[a].fase = "nasce" /\ lacoJa.fase # "saiu"
    BY <2>1 DEF PorFase
  <2>4. \A b \in IdsJa : abaJa[b].fase = "transito" => abaJa'[b].fase = "transito"
    BY <2>2, <2>3, TiposDoInv
  <2>5. filaJa' \in Seq(NaFila) /\ Len(filaJa') <= Teto /\ NaFilaUmaVez' /\ LacoSegue
    BY <2>1, <2>4, FilaSegue, OLacoFica
  <2>6. abaJa[a].fase \in Janeladas /\ o.fase \in Janeladas /\ a \in destJa
    BY <1>0, <2>2, <2>3 DEF Janeladas
  <2>. QED BY <1>0, <2>1, <2>2, <2>3, <2>5, <2>6, JanelaJa
<1>2. ASSUME NEW encerrar \in BOOLEAN, FecharJanela(a, encerrar)
      PROVE  InvJa'
  <2>. DEFINE para == IF encerrar THEN "encerra" ELSE "devolve"
  <2>1. /\ PorFase(a, "aberta", para) /\ Parado /\ UNCHANGED <<filaJa, lacoJa, limJa>>
    BY <1>2 DEF FecharJanela
  <2>0. para \in {"encerra", "devolve"}
    OBVIOUS
  <2>. HIDE DEF para
  <2>2. PICK o \in UmaAbaJa : /\ o.fase = para /\ o.viva = (para # "fechada")
                              /\ abaJa' = [abaJa EXCEPT ![a] = o]
    BY <2>0, <2>1, FaseSegue DEF Janeladas
  <2>3. abaJa[a].fase = "aberta" /\ lacoJa.fase # "saiu"
    BY <2>1 DEF PorFase
  <2>4. \A b \in IdsJa : abaJa[b].fase = "transito" => abaJa'[b].fase = "transito"
    BY <2>2, <2>3, TiposDoInv
  <2>5. filaJa' \in Seq(NaFila) /\ Len(filaJa') <= Teto /\ NaFilaUmaVez' /\ LacoSegue
    BY <2>1, <2>4, FilaSegue, OLacoFica
  <2>6. abaJa[a].fase \in Janeladas /\ o.fase \in Janeladas
    BY <2>0, <2>2, <2>3 DEF Janeladas
  <2>. QED BY <1>0, <2>0, <2>1, <2>2, <2>3, <2>5, <2>6, JanelaJa
<1>3. CASE EncerrarJanela(a)
  <2>1. /\ PorFase(a, "encerra", "fechada") /\ Parado /\ UNCHANGED <<filaJa, lacoJa, limJa>>
        /\ a \notin destJa
    BY <1>3 DEF EncerrarJanela
  <2>2. PICK o \in UmaAbaJa : /\ o.fase = "fechada" /\ o.viva = ("fechada" # "fechada")
                              /\ abaJa' = [abaJa EXCEPT ![a] = o]
    BY <2>1, FaseSegue DEF Janeladas
  <2>3. abaJa[a].fase = "encerra" /\ lacoJa.fase # "saiu"
    BY <2>1 DEF PorFase
  <2>4. \A b \in IdsJa : abaJa[b].fase = "transito" => abaJa'[b].fase = "transito"
    BY <2>2, <2>3, TiposDoInv
  <2>5. filaJa' \in Seq(NaFila) /\ Len(filaJa') <= Teto /\ NaFilaUmaVez' /\ LacoSegue
    BY <2>1, <2>4, FilaSegue, OLacoFica
  <2>6. abaJa[a].fase \in Janeladas
    BY <2>3 DEF Janeladas
  <2>. QED BY <1>0, <2>1, <2>2, <2>3, <2>5, <2>6, JanelaJa
<1>4. CASE DevolverAba(a)
  <2>. DEFINE p == [tipo |-> "devolver", aba |-> a, chave |-> SemChave]
  <2>1. /\ PorFase(a, "devolve", "transito") /\ Parado /\ limJa' = limJa
        /\ filaJa' = Append(filaJa, p) /\ lacoJa' = Pede(lacoJa)
        /\ a \notin destJa /\ Len(filaJa) < Teto
    BY <1>4 DEF DevolverAba
  <2>0. p \in NaFila /\ p.aba = a
    BY DEF NaFila, Devolucoes
  <2>. HIDE DEF p
  <2>2. PICK o \in UmaAbaJa : /\ o.fase = "transito" /\ o.viva = ("transito" # "fechada")
                              /\ abaJa' = [abaJa EXCEPT ![a] = o]
    BY <2>1, FaseSegue DEF Janeladas
  <2>3. abaJa[a].fase = "devolve" /\ lacoJa.fase # "saiu"
    BY <2>1 DEF PorFase
  <2>4. /\ \A b \in IdsJa : abaJa[b].fase = "transito" => abaJa'[b].fase = "transito"
        /\ abaJa'[a].fase = "transito"
    BY <2>2, <2>3, TiposDoInv
  <2>5. filaJa' \in Seq(NaFila) /\ Len(filaJa') <= Teto /\ NaFilaUmaVez'
    BY <2>0, <2>1, <2>3, <2>4, FilaCresce
  <2>7. LacoSegue
    BY <2>1, PedeSegue
  <2>6. abaJa[a].fase \in Janeladas
    BY <2>3 DEF Janeladas
  <2>. QED BY <1>0, <2>1, <2>2, <2>3, <2>5, <2>6, <2>7, JanelaJa
<1>5. CASE PrazoDaVaga(a)
  <2>1. /\ PorFase(a, "devolve", "perdida") /\ Parado /\ UNCHANGED <<filaJa, lacoJa>>
        /\ limJa' = [limJa EXCEPT !.prazo = @ \union {a}] /\ a \notin destJa
    BY <1>5 DEF PrazoDaVaga
  <2>2. PICK o \in UmaAbaJa : /\ o.fase = "perdida" /\ o.viva = ("perdida" # "fechada")
                              /\ abaJa' = [abaJa EXCEPT ![a] = o]
    BY <2>1, FaseSegue DEF Janeladas
  <2>3. abaJa[a].fase = "devolve" /\ lacoJa.fase # "saiu"
    BY <2>1 DEF PorFase
  <2>4. \A b \in IdsJa : abaJa[b].fase = "transito" => abaJa'[b].fase = "transito"
    BY <2>2, <2>3, TiposDoInv
  <2>5. filaJa' \in Seq(NaFila) /\ Len(filaJa') <= Teto /\ NaFilaUmaVez' /\ LacoSegue
    BY <2>1, <2>4, FilaSegue, OLacoFica
  <2>6. abaJa[a].fase \in Janeladas
    BY <2>3 DEF Janeladas
  <2>7. limJa' \in Limites /\ limJa'.prazo = limJa.prazo \union {a}
    BY <1>0, <2>1 DEF Limites
  <2>. QED BY <2>1, <2>2, <2>3, <2>5, <2>6, <2>7, JanelaJa
<1>6. CASE Desmarcar(a)
  <2>1. /\ UNCHANGED <<tiraJa, abaJa, filaJa, lacoJa, modalJa, limJa>>
        /\ destJa' = destJa \ {a} /\ abaJa[a].fase \in {"encerra", "devolve"}
        /\ lacoJa.fase # "saiu"
    BY <1>6 DEF Desmarcar
  <2>2. NaTira' = NaTira /\ Ativa' = Ativa
    BY <2>1 DEF NaTira, Ativa
  <2>3. InvTiposJa' /\ TiraInteira' /\ NaFilaUmaVez'
    BY <2>1 DEF InvJa, InvTiposJa, TiraInteira, NaFilaUmaVez
  <2>4. CadaUmaNoSeu'
    BY <2>1, <2>2 DEF InvJa, CadaUmaNoSeu
  <2>5. VivaAteFechar'
    BY <2>1, <2>2 DEF InvJa, VivaAteFechar
  <2>6. MarcaEntreQuadros'
    BY <2>1, <2>2 DEF InvJa, MarcaEntreQuadros
  <2>. QED BY <2>3, <2>4, <2>5, <2>6 DEF InvJa
<1>. QED BY <1>1, <1>2, <1>3, <1>4, <1>5, <1>6

-----------------------------------------------------------------------------
(* The end.                                                                *)

LEMMA FimJa ==
  ASSUME InvJa, FecharTira \/ FecharDestacadas
  PROVE  InvJa'
<1>. DEFINE S == IF lacoJa.fase = "fecha" THEN NaTira ELSE destJa
<1>1. /\ abaJa' = [a \in IdsJa |-> [abaJa[a] EXCEPT !.viva = @ /\ a \notin S]]
      /\ UNCHANGED <<tiraJa, destJa, filaJa, modalJa, limJa>>
      /\ \/ lacoJa.fase = "fecha" /\ lacoJa' = [lacoJa EXCEPT !.fase = "fecha2"]
         \/ lacoJa.fase = "fecha2" /\ lacoJa' = [lacoJa EXCEPT !.fase = "saiu"]
  BY DEF FecharTira, FecharDestacadas, AbasForaDaTira
<1>3. lacoJa.fase = "fecha" => S = NaTira
  OBVIOUS
<1>4. lacoJa.fase = "fecha2" => S = destJa
  OBVIOUS
<1>. HIDE DEF S
<1>5. /\ abaJa' \in [IdsJa -> UmaAbaJa]
      /\ \A b \in IdsJa : /\ abaJa'[b].fase = abaJa[b].fase
                          /\ abaJa'[b].viva = (abaJa[b].viva /\ b \notin S)
  BY <1>1, TiposDoInv DEF UmaAbaJa
<1>6. lacoJa' \in UmLaco
  BY <1>1, TiposDoInv DEF UmLaco
<1>7. NaTira' = NaTira
  BY <1>1 DEF NaTira
<1>8. filaJa' \in Seq(NaFila) /\ Len(filaJa') <= Teto /\ NaFilaUmaVez'
  BY <1>1, <1>5, FilaSegue
<1>9. InvTiposJa' /\ TiraInteira'
  BY <1>1, <1>5, <1>6, <1>8 DEF InvJa, InvTiposJa, TiraInteira, NaFila
<1>10. CadaUmaNoSeu'
  BY <1>1, <1>5, <1>7 DEF InvJa, CadaUmaNoSeu
<1>11. NaTira \ {Painel} \subseteq IdsJa
  BY TiposDoInv, JanelasAssumption DEF IdsJa, Painel
<1>12. VivaAteFechar'
  <2>1. CASE lacoJa.fase = "fecha"
    <3>1. lacoJa'.fase = "fecha2"
      BY <1>1, <2>1, TiposDoInv DEF UmLaco
    <3>2. \A b \in NaTira' \ {Painel} : ~abaJa'[b].viva
      BY <1>3, <1>5, <1>7, <1>11, <2>1
    <3>3. \A b \in IdsJa : abaJa'[b].fase \in Janeladas \union {"transito"} => abaJa'[b].viva
      BY <1>3, <1>5, <2>1 DEF InvJa, VivaAteFechar, CadaUmaNoSeu, Janeladas
    <3>. QED BY <3>1, <3>2, <3>3 DEF VivaAteFechar
  <2>2. CASE lacoJa.fase = "fecha2"
    <3>1. lacoJa'.fase = "saiu"
      BY <1>1, <2>2, TiposDoInv DEF UmLaco
    <3>2. \A b \in NaTira' \ {Painel} : ~abaJa'[b].viva
      BY <1>5, <1>7, <1>11, <2>2 DEF InvJa, VivaAteFechar
    <3>3. \A b \in destJa' : ~abaJa'[b].viva
      BY <1>1, <1>4, <1>5, <2>2, TiposDoInv
    <3>. QED BY <3>1, <3>2, <3>3 DEF VivaAteFechar
  <2>. QED BY <1>1, <2>1, <2>2
<1>13. MarcaEntreQuadros'
  BY <1>1, TiposDoInv DEF UmLaco, MarcaEntreQuadros
<1>. QED BY <1>8, <1>9, <1>10, <1>12, <1>13 DEF InvJa

-----------------------------------------------------------------------------
(* The theorem.                                                            *)

LEMMA InicioJa == InitJa => InvJa
<1>. SUFFICES ASSUME InitJa PROVE InvJa
  OBVIOUS
<1>1. /\ tiraJa.abas = <<Painel>> /\ tiraJa.idx = 1 /\ Len(tiraJa.abas) = 1
      /\ tiraJa.abas[1] = Painel /\ Painel \in 0..MaxAbas
  BY JanelasAssumption DEF InitJa, Painel
<1>2. tiraJa.abas \in Seq(0..MaxAbas)
  BY <1>1
<1>3. NaTira = {Painel}
  <2>1. NaTira = {tiraJa.abas[i] : i \in 1..Len(tiraJa.abas)}
    BY <1>2, AbasDaTira DEF NaTira
  <2>2. \A i \in 1..Len(tiraJa.abas) : i = 1
    BY <1>1
  <2>3. 1 \in 1..Len(tiraJa.abas)
    BY <1>1
  <2>. QED BY <1>1, <2>1, <2>2, <2>3
<1>4. InvTiposJa
  <2>1. tiraJa \in UmaTira
    BY <1>1, <1>2 DEF InitJa, UmaTira
  <2>2. abaJa \in [IdsJa -> UmaAbaJa]
    BY DEF InitJa, UmaAbaJa, FasesJa
  <2>3. lacoJa \in UmLaco /\ modalJa \in UmModal /\ limJa \in Limites /\ destJa \subseteq IdsJa
    BY JanelasAssumption DEF InitJa, UmLaco, UmModal, Limites, Painel
  <2>4. filaJa \in Seq(PedidosJa \union Devolucoes) /\ Len(filaJa) <= Teto
    BY JanelasAssumption DEF InitJa
  <2>. QED BY <2>1, <2>2, <2>3, <2>4 DEF InvTiposJa
<1>5. TiraInteira
  BY <1>1 DEF TiraInteira
<1>6. CadaUmaNoSeu
  BY <1>3, JanelasAssumption DEF InitJa, CadaUmaNoSeu, IdsJa, Painel
<1>7. NaFilaUmaVez
  BY DEF InitJa, NaFilaUmaVez
<1>8. VivaAteFechar
  BY <1>3 DEF InitJa, VivaAteFechar, Janeladas
<1>9. MarcaEntreQuadros
  BY DEF InitJa, MarcaEntreQuadros
<1>. QED BY <1>4, <1>5, <1>6, <1>7, <1>8, <1>9 DEF InvJa

LEMMA PassoJa == InvJa /\ [NextTira]_varsJa => InvJa'
<1>. SUFFICES ASSUME InvJa, [NextTira]_varsJa PROVE InvJa'
  OBVIOUS
<1>1. CASE DrenarFila
  BY <1>1, AbrirJa, RecolocarJa
<1>2. CASE \/ Dormir \/ Acordar \/ AcordarPelaFila \/ PedirFechar \/ AbrirQuadro \/ PassarTira
           \/ FecharQuadro \/ FecharDialogo \/ TomarDialogo \/ Destruir
  BY <1>2, LacoJa
<1>3. CASE Destacar \/ CloseActive \/ \E i \in DOMAIN tiraJa.abas : FecharAba(i)
  BY <1>3, TiraMenosJa
<1>4. CASE \/ \E i \in DOMAIN tiraJa.abas : ClicarAba(i)
           \/ \E passo \in {-1, 1} : Rolar(passo)
  BY <1>4, MostrarJa
<1>5. CASE \E c \in Chaves : AbrirCofre(c) \/ \E fundo \in BOOLEAN : ClicarCartao(c, fundo)
  BY <1>5, AbrirJa
<1>6. CASE \E a \in IdsJa : \/ NascerJanela(a) \/ Desmarcar(a) \/ EncerrarJanela(a)
                            \/ DevolverAba(a) \/ PrazoDaVaga(a)
                            \/ \E encerrar \in BOOLEAN : FecharJanela(a, encerrar)
  BY <1>6, JanelasPasso
<1>7. CASE \E p \in PedidosJa : PedirAbrir(p)
  BY <1>7, PedirJa
<1>8. CASE FecharTira \/ FecharDestacadas
  BY <1>8, FimJa
<1>9. CASE UNCHANGED varsJa
  <2>1. UNCHANGED <<tiraJa, abaJa, destJa, filaJa, lacoJa, modalJa, limJa>>
    BY <1>9 DEF varsJa
  <2>2. filaJa' \in Seq(NaFila) /\ Len(filaJa') <= Teto /\ NaFilaUmaVez' /\ LacoSegue
    BY <2>1, FilaSegue, OLacoFica
  <2>. QED BY <2>1, <2>2, TiposDoInv, SoOLaco
<1>. QED BY <1>1, <1>2, <1>3, <1>4, <1>5, <1>6, <1>7, <1>8, <1>9 DEF NextTira

LEMMA InvBastaJa == InvJa => TiposJa /\ JanelasCertas
<1>. SUFFICES ASSUME InvJa PROVE TiposJa /\ JanelasCertas
  OBVIOUS
<1>1. TiposJa
  BY TiposDoInv DEF TiposJa, UmaTira, UmaAbaJa, UmLaco, UmModal
<1>2. TiraCoerente
  <2>1. IsInjective(tiraJa.abas)
    BY TiposDoInv DEF TiraBoa, IsInjective
  <2>2. NaTira \intersect destJa = {}
    BY TiposDoInv DEF InvJa, CadaUmaNoSeu, Janeladas
  <2>. QED BY <2>1, <2>2, TiposDoInv DEF TiraCoerente, TiraBoa, InvJa, VivaAteFechar
<1>3. SemOrfa /\ SoEmTransito
  <2>1. ASSUME NEW a \in Vivas PROVE a \in NaTira \/ a \in destJa \/ EmTransito(a)
    <3>1. a \in IdsJa /\ abaJa[a].viva /\ abaJa[a].fase \in FasesJa
      BY TiposDoInv DEF Vivas, UmaAbaJa
    <3>. QED BY <3>1 DEF InvJa, CadaUmaNoSeu, FasesJa, EmTransito
  <2>2. ASSUME lacoJa.fase = "saiu", NEW a \in Vivas PROVE EmTransito(a)
    <3>1. a \in IdsJa /\ abaJa[a].viva /\ a # Painel
      BY JanelasAssumption DEF Vivas, IdsJa, Painel
    <3>2. a \notin NaTira /\ a \notin destJa
      BY <2>2, <3>1 DEF InvJa, VivaAteFechar
    <3>. QED BY <2>1, <3>2
  <2>. QED BY <2>1, <2>2 DEF SemOrfa, SoEmTransito
<1>4. MarcaCerta
  BY DEF InvJa, MarcaEntreQuadros, MarcaCerta
<1>. QED BY <1>1, <1>2, <1>3, <1>4 DEF JanelasCertas

\* The strip begins with the Panel, shows a tab it has and has none twice, and
\* shares none with the windows of their own; a session that lives is in the
\* strip, in a window or on its way between them, unless the ten seconds ran out;
\* the process that exits closed every other; and a loop that sleeps marked the
\* tab on the screen: for every set of connections, number of tabs, room of the
\* queue and number of requests (tabbar.go, janela.go, filajanela.go, main.go).
THEOREM JanelasSempreCertas ==
  InitJa /\ [][NextTira]_varsJa => [](TiposJa /\ JanelasCertas)
BY InicioJa, PassoJa, InvBastaJa, PTL

-----------------------------------------------------------------------------
(* The panel.                                                              *)

TelasPa == [aba : {"painel", "sessao"}, painel : Termos, lateral : Termos,
            ultimo : Termos, filtroL : Termos, abertosP : SUBSET Caminhos(Fichas),
            abertosL : SUBSET Caminhos(Fichas), trava : 0..2, oculta : BOOLEAN,
            proto : Range(Protocolos),
            aberta : SUBSET [cx : Fichas, p : Range(Protocolos), foco : BOOLEAN]]
EscolhasPa == [marcadas : SUBSET Fichas, pergunta : SUBSET Fichas, pedido : SUBSET Fichas]
VidasPa == [sabido : [Hosts -> Estados], naFila : SUBSET Hosts,
            fila : Seq(Fichas), sonda : [Sondadores -> SUBSET Fichas],
            recente : BOOLEAN, pedido : BOOLEAN, pintado : [Hosts -> Estados]]
UsosPa == [gestos : 0..MaxGestosPa, recargas : 0..MaxRecargas]

\* What the window shows, and what it opened.
TelaBoa(t) == t \in TelasPa /\ \A a \in t.aberta : Tem(a.cx, a.p)

\* The hosts of the queue, and those in the hands of the workers.
HostsDaFila(v) == {v.fila[i].host : i \in 1..Len(v.fila)}
HostsEmMaos(v) == {cx.host : cx \in UNION {v.sonda[s] : s \in Sondadores}}

\* The queue names a host once, and none that a worker has.
FilaSemRepetir(v) ==
  /\ \A i, j \in 1..Len(v.fila) : v.fila[i].host = v.fila[j].host => i = j
  /\ \A i \in 1..Len(v.fila), s \in Sondadores :
       \A cx \in v.sonda[s] : v.fila[i].host # cx.host

\* A worker has one card at most, and no two have the same host.
MaosDistintas(v) ==
  /\ \A s \in Sondadores : \A cx, dx \in v.sonda[s] : cx = dx
  /\ \A s, u \in Sondadores : \A cx \in v.sonda[s], dx \in v.sonda[u] :
       cx.host = dx.host => s = u

\* The probe: the marks are the hosts asked about, of which nothing is known.
VidaBoa(v) ==
  /\ v \in VidasPa
  /\ v.naFila = HostsDaFila(v) \union HostsEmMaos(v)
  /\ FilaSemRepetir(v) /\ MaosDistintas(v)
  /\ \A h \in v.naFila : v.sabido[h] = "desconhecido"

InvPa == /\ arqPa \subseteq Fichas /\ selPa \in EscolhasPa /\ usoPa \in UsosPa
         /\ TelaBoa(telaPa) /\ VidaBoa(vidaPa)

-----------------------------------------------------------------------------
(* What is drawn, and what opens.                                          *)

LEMMA OsProtocolos ==
  /\ Range(Protocolos) = {"vnc", "ssh", "rdp", "sftp"} /\ DOMAIN Protocolos = 1..4
  /\ \A i \in 1..4 : Protocolos[i] \in Range(Protocolos)
<1>1. DOMAIN Protocolos = 1..4
  BY DEF Protocolos
<1>2. /\ Protocolos[1] = "vnc" /\ Protocolos[2] = "ssh" /\ Protocolos[3] = "rdp"
      /\ Protocolos[4] = "sftp"
  BY DEF Protocolos
<1>3. Range(Protocolos) = {Protocolos[i] : i \in 1..4}
  BY <1>1 DEF Range
<1>4. \A i \in 1..4 : i \in {1, 2, 3, 4}
  OBVIOUS
<1>5. 1 \in 1..4 /\ 2 \in 1..4 /\ 3 \in 1..4 /\ 4 \in 1..4
  OBVIOUS
<1>. QED BY <1>1, <1>2, <1>3, <1>4, <1>5

\* The protocol the side list falls to, and the default one, are of the machine.
LEMMA LateralTem ==
  ASSUME NEW cx, NEW p \in Range(Protocolos), ProtoDaLateral(cx, p) # NadaPa
  PROVE  /\ ProtoDaLateral(cx, p) \in Range(Protocolos)
         /\ Tem(cx, ProtoDaLateral(cx, p))
<1>. DEFINE tem == {i \in DOMAIN Protocolos : Tem(cx, Protocolos[i])}
<1>1. CASE Tem(cx, p)
  BY <1>1 DEF ProtoDaLateral
<1>2. CASE ~Tem(cx, p) /\ tem = {}
  BY <1>2 DEF ProtoDaLateral
<1>3. CASE ~Tem(cx, p) /\ tem # {}
  <2>1. ProtoDaLateral(cx, p) = Protocolos[Min(tem)]
    BY <1>3 DEF ProtoDaLateral
  <2>2. \E m \in tem : \A k \in tem : m <= k
    <3>1. tem \subseteq 1..4
      BY OsProtocolos
    <3>2. PICK k \in tem : TRUE
      BY <1>3
    <3>. HIDE DEF tem
    <3>3. \A k2 \in tem : k2 \in {1, 2, 3, 4}
      BY <3>1
    <3>. QED
      <4>1. CASE 1 \in tem
        BY <3>3, <4>1
      <4>2. CASE 1 \notin tem /\ 2 \in tem
        BY <3>3, <4>2
      <4>3. CASE 1 \notin tem /\ 2 \notin tem /\ 3 \in tem
        BY <3>3, <4>3
      <4>4. CASE 1 \notin tem /\ 2 \notin tem /\ 3 \notin tem
        BY <3>2, <3>3, <4>4
      <4>. QED BY <4>1, <4>2, <4>3, <4>4
  <2>3. Min(tem) \in tem
    <3>. HIDE DEF tem
    <3>. QED BY <2>2 DEF Min
  <2>. QED BY <2>1, <2>3, OsProtocolos
<1>. QED BY <1>1, <1>2, <1>3

LEMMA PadraoTem ==
  ASSUME NEW cx, ProtocoloPadrao(cx) # NadaPa
  PROVE  ProtocoloPadrao(cx) \in Range(Protocolos) /\ Tem(cx, ProtocoloPadrao(cx))
BY OsProtocolos DEF ProtocoloPadrao

\* A tab that opens, with focus or without.
LEMMA AbreBoa ==
  ASSUME NEW t, TelaBoa(t), NEW cx \in Fichas, NEW p \in Range(Protocolos), Tem(cx, p),
         NEW focar \in BOOLEAN
  PROVE  TelaBoa(AbrirEm(t, cx, p, focar))
<1>. DEFINE a == [cx |-> cx, p |-> p, foco |-> focar]
            ab == {a}
<1>1. ab \subseteq [cx : Fichas, p : Range(Protocolos), foco : BOOLEAN]
  OBVIOUS
<1>2. \A b \in ab : Tem(b.cx, b.p)
  OBVIOUS
<1>3. AbrirEm(t, cx, p, focar) = [t EXCEPT !.aberta = ab, !.aba = IF focar THEN "sessao" ELSE @]
  BY DEF AbrirEm
<1>. HIDE DEF ab
<1>. QED BY <1>1, <1>2, <1>3 DEF TelaBoa, TelasPa

LEMMA LateralBoa ==
  ASSUME NEW t, TelaBoa(t)
  PROVE  TelaBoa(LayoutLateral(t))
BY DEF LayoutLateral, TelaBoa, TelasPa

LEMMA PainelBom ==
  ASSUME NEW t, TelaBoa(t)
  PROVE  TelaBoa(LayoutPainel(t))
<1>1. TelaBoa(SincronizarBusca(t))
  BY DEF SincronizarBusca, TelaBoa, TelasPa
<1>. DEFINE u == SincronizarBusca(t)
<1>. HIDE DEF u
<1>2. TelaBoa(u)
  BY <1>1 DEF u
<1>3. TelaBoa([u EXCEPT !.trava = IF @ > 0 THEN @ - 1 ELSE 0])
  <2>1. u \in TelasPa /\ u.trava \in 0..2
    BY <1>2 DEF TelaBoa, TelasPa
  <2>2. (IF u.trava > 0 THEN u.trava - 1 ELSE 0) \in 0..2
    BY <2>1
  <2>. DEFINE n == IF u.trava > 0 THEN u.trava - 1 ELSE 0
  <2>. HIDE DEF n
  <2>3. n \in 0..2
    BY <2>2 DEF n
  <2>4. TelaBoa([u EXCEPT !.trava = n])
    BY <1>2, <2>3 DEF TelaBoa, TelasPa
  <2>. QED BY <2>4 DEF n
<1>. QED BY <1>3 DEF LayoutPainel, u

LEMMA DesenhaFichas ==
  ASSUME NEW t, NEW arq \in SUBSET Fichas
  PROVE  Desenhados(t, arq) \subseteq arq
BY DEF Desenhados, CardsDoPainel, Filtrar

-----------------------------------------------------------------------------
(* The probe.                                                              *)

LEMMA SetEmSeq ==
  ASSUME NEW S, IsFiniteSet(S)
  PROVE  /\ SetToSeq(S) \in Seq(S) /\ Len(SetToSeq(S)) = Cardinality(S)
         /\ \A i, j \in 1..Cardinality(S) : SetToSeq(S)[i] = SetToSeq(S)[j] => i = j
         /\ S = {SetToSeq(S)[i] : i \in 1..Cardinality(S)}
         /\ Cardinality(S) \in Nat
<1>. DEFINE n == Cardinality(S)
            f == SetToSeq(S)
<1>1. n \in Nat /\ ExistsBijection(1..n, S)
  BY FS_CardinalityType
<1>2. \E g \in [1..n -> S] : IsInjective(g)
  BY <1>1 DEF ExistsBijection, Bijection, Injection
<1>3. f \in [1..n -> S] /\ IsInjective(f)
  BY <1>2, Zenon DEF SetToSeq
<1>. HIDE DEF f
<1>4. f \in Seq(S) /\ Len(f) = n
  BY <1>1, <1>3, SeqDef, LenProperties
<1>5. f \in Injection(1..n, S)
  BY <1>3 DEF Injection
<1>6. IsFiniteSet(1..n) /\ Cardinality(1..n) = n
  BY <1>1, FS_Interval
<1>7. f \in Surjection(1..n, S)
  BY <1>5, <1>6, FS_Injection
<1>8. S = {f[i] : i \in 1..n}
  BY <1>3, <1>7 DEF Surjection
<1>9. \A i, j \in 1..n : f[i] = f[j] => i = j
  BY <1>3 DEF IsInjective
<1>. QED BY <1>1, <1>4, <1>8, <1>9 DEF f

\* The set a quantified choice leaves: one card of each host.
LEMMA UmPorHost ==
  ASSUME NEW C \in SUBSET Fichas
  PROVE  LET um == {CHOOSE cx \in C : cx.host = h : h \in {cx.host : cx \in C}}
         IN  /\ um \subseteq C
             /\ \A a, b \in um : a.host = b.host => a = b
<1>. DEFINE H == {cx.host : cx \in C}
            De(h) == CHOOSE cx \in C : cx.host = h
<1>1. \A h \in H : De(h) \in C /\ De(h).host = h
  OBVIOUS
<1>2. {De(h) : h \in H} \subseteq C
  BY <1>1
<1>3. ASSUME NEW a \in {De(h) : h \in H}, NEW b \in {De(h) : h \in H}, a.host = b.host
      PROVE  a = b
  <2>1. PICK h \in H : a = De(h)
    OBVIOUS
  <2>2. PICK k \in H : b = De(k)
    OBVIOUS
  <2>3. h = k
    BY <1>1, <1>3, <2>1, <2>2
  <2>. QED BY <2>1, <2>2, <2>3
<1>. QED BY <1>2, <1>3

\* The queue takes new hosts, each once.
LEMMA FilaRecebe ==
  ASSUME NEW v, VidaBoa(v), NEW g \in Seq(Fichas),
         \A i, j \in 1..Len(g) : g[i].host = g[j].host => i = j,
         \A i \in 1..Len(g) : g[i].host \notin v.naFila /\ v.sabido[g[i].host] = "desconhecido"
  PROVE  VidaBoa([v EXCEPT !.fila = @ \o g, !.naFila = @ \union {cx.host : cx \in Range(g)}])
<1>. DEFINE w == [v EXCEPT !.fila = @ \o g, !.naFila = @ \union {cx.host : cx \in Range(g)}]
            s == v.fila
            f == s \o g
            H == {g[i].host : i \in 1..Len(g)}
<1>1. v \in VidasPa /\ s \in Seq(Fichas) /\ Len(s) \in Nat /\ Len(g) \in Nat
  BY LenProperties DEF VidaBoa, VidasPa
<1>2. {cx.host : cx \in Range(g)} = H /\ H \subseteq Hosts
  <2>1. DOMAIN g = 1..Len(g) /\ \A i \in 1..Len(g) : g[i] \in Fichas
    BY LenProperties, ElementOfSeq
  <2>. QED BY <2>1 DEF Range, Hosts
<1>3. /\ f \in Seq(Fichas) /\ Len(f) = Len(s) + Len(g)
      /\ \A i \in 1..(Len(s) + Len(g)) : f[i] = IF i <= Len(s) THEN s[i] ELSE g[i - Len(s)]
  BY <1>1, ConcatProperties
<1>4. ASSUME NEW i \in 1..Len(f)
      PROVE  \/ i \in 1..Len(s) /\ f[i] = s[i]
             \/ i - Len(s) \in 1..Len(g) /\ f[i] = g[i - Len(s)] /\ i \notin 1..Len(s)
  <2>. HIDE DEF f
  <2>1. CASE i <= Len(s)
    <3>1. i \in 1..Len(s) /\ i \in 1..(Len(s) + Len(g))
      BY <1>1, <1>3, <2>1
    <3>. QED BY <1>3, <2>1, <3>1
  <2>2. CASE ~(i <= Len(s))
    <3>1. i - Len(s) \in 1..Len(g) /\ i \notin 1..Len(s) /\ i \in 1..(Len(s) + Len(g))
      BY <1>1, <1>3, <2>2
    <3>. QED BY <1>3, <2>2, <3>1
  <2>. QED BY <2>1, <2>2
<1>5. /\ \A i \in 1..Len(s) : i \in 1..Len(f) /\ f[i] = s[i]
      /\ \A i \in 1..Len(g) : Len(s) + i \in 1..Len(f) /\ f[Len(s) + i] = g[i]
  <2>. HIDE DEF f
  <2>1. ASSUME NEW i \in 1..Len(s) PROVE i \in 1..Len(f) /\ f[i] = s[i]
    BY <1>1, <1>3
  <2>2. ASSUME NEW i \in 1..Len(g) PROVE Len(s) + i \in 1..Len(f) /\ f[Len(s) + i] = g[i]
    <3>1. /\ Len(s) + i \in 1..(Len(s) + Len(g)) /\ ~(Len(s) + i <= Len(s))
          /\ (Len(s) + i) - Len(s) = i
      BY <1>1
    <3>. QED BY <1>3, <3>1
  <2>. QED BY <2>1, <2>2
<1>6. w.fila = f /\ w.naFila = v.naFila \union H /\ w.sonda = v.sonda /\ w.sabido = v.sabido
  BY <1>1, <1>2 DEF VidasPa
<1>7. w \in VidasPa
  <2>. HIDE DEF f
  <2>1. w = [v EXCEPT !.fila = f, !.naFila = v.naFila \union H]
    BY <1>1, <1>2 DEF VidasPa, f
  <2>. HIDE DEF w, H
  <2>2. v.naFila \union H \in SUBSET Hosts
    BY <1>1, <1>2 DEF VidasPa
  <2>. QED BY <1>1, <1>3, <2>1, <2>2 DEF VidasPa
<1>0. s = v.fila /\ \A h \in H : \E i \in 1..Len(g) : g[i].host = h
  OBVIOUS
<1>00. \A i \in 1..Len(g) : g[i].host \in H
  OBVIOUS
<1>. HIDE DEF w, f, s, H
<1>8. HostsEmMaos(w) = HostsEmMaos(v)
  BY <1>6 DEF HostsEmMaos
<1>9. HostsDaFila(w) = HostsDaFila(v) \union H
  <2>0. HostsDaFila(v) = {s[i].host : i \in 1..Len(s)} /\ HostsDaFila(w) = {f[i].host : i \in 1..Len(f)}
    BY <1>0, <1>6 DEF HostsDaFila
  <2>1. ASSUME NEW i \in 1..Len(f) PROVE f[i].host \in HostsDaFila(v) \union H
    <3>1. CASE i \in 1..Len(s)
      BY <1>5, <2>0, <3>1
    <3>2. CASE i \notin 1..Len(s)
      BY <1>4, <1>00, <3>2
    <3>. QED BY <3>1, <3>2
  <2>2. ASSUME NEW h \in HostsDaFila(v) \union H PROVE \E i \in 1..Len(f) : f[i].host = h
    <3>1. CASE h \in HostsDaFila(v)
      <4>1. PICK i \in 1..Len(s) : s[i].host = h
        BY <2>0, <3>1
      <4>. QED BY <1>5, <4>1
    <3>2. CASE h \in H
      <4>1. PICK i \in 1..Len(g) : g[i].host = h
        BY <1>0, <3>2
      <4>. QED BY <1>5, <4>1
    <3>. QED BY <3>1, <3>2
  <2>3. HostsDaFila(w) \subseteq HostsDaFila(v) \union H
    BY <2>0, <2>1
  <2>4. HostsDaFila(v) \union H \subseteq HostsDaFila(w)
    <3>1. ASSUME NEW h \in HostsDaFila(v) \union H PROVE h \in HostsDaFila(w)
      <4>1. PICK i \in 1..Len(f) : f[i].host = h
        BY <2>2
      <4>2. f[i].host \in HostsDaFila(w)
        BY <2>0
      <4>. QED BY <4>1, <4>2
    <3>. QED BY <3>1
  <2>. QED BY <2>3, <2>4
<1>10. w.naFila = HostsDaFila(w) \union HostsEmMaos(w)
  BY <1>6, <1>8, <1>9 DEF VidaBoa
<1>11. MaosDistintas(w)
  BY <1>6 DEF VidaBoa, MaosDistintas
<1>12. FilaSemRepetir(w)
  <2>0. \A i \in 1..Len(s) : s[i].host \in v.naFila
    BY <1>0 DEF VidaBoa, HostsDaFila
  <2>00. ASSUME NEW i \in 1..Len(f), i \notin 1..Len(s)
         PROVE  /\ i - Len(s) \in 1..Len(g) /\ f[i] = g[i - Len(s)]
                /\ f[i].host \notin v.naFila
    <3>1. i - Len(s) \in 1..Len(g) /\ f[i] = g[i - Len(s)]
      BY <1>4, <2>00
    <3>. DEFINE k == i - Len(s)
    <3>. HIDE DEF k
    <3>2. k \in 1..Len(g) /\ f[i] = g[k]
      BY <3>1 DEF k
    <3>. QED BY <3>1, <3>2
  <2>1. ASSUME NEW i \in 1..Len(f), NEW j \in 1..Len(f), f[i].host = f[j].host
        PROVE  i = j
    <3>1. CASE i \in 1..Len(s) /\ j \in 1..Len(s)
      <4>1. s[i].host = s[j].host
        BY <1>5, <2>1, <3>1
      <4>. QED BY <1>0, <3>1, <4>1 DEF VidaBoa, FilaSemRepetir
    <3>2. CASE i \in 1..Len(s) /\ j \notin 1..Len(s)
      <4>1. f[i].host \in v.naFila
        <5>1. f[i] = s[i] /\ s[i].host \in v.naFila
          BY <1>5, <2>0, <3>2
        <5>. QED BY <5>1
      <4>2. f[j].host \notin v.naFila
        BY <2>00, <3>2
      <4>. QED BY <2>1, <4>1, <4>2
    <3>3. CASE i \notin 1..Len(s) /\ j \in 1..Len(s)
      <4>1. f[j].host \in v.naFila
        <5>1. f[j] = s[j] /\ s[j].host \in v.naFila
          BY <1>5, <2>0, <3>3
        <5>. QED BY <5>1
      <4>2. f[i].host \notin v.naFila
        BY <2>00, <3>3
      <4>. QED BY <2>1, <4>1, <4>2
    <3>4. CASE i \notin 1..Len(s) /\ j \notin 1..Len(s)
      <4>. DEFINE k == i - Len(s)
                  l == j - Len(s)
      <4>0. k \in 1..Len(g) /\ l \in 1..Len(g) /\ f[i] = g[k] /\ f[j] = g[l]
        BY <2>00, <3>4
      <4>a. k = l => i = j
        BY <1>1, <1>3
      <4>. HIDE DEF k, l
      <4>1. k = l
        BY <2>1, <4>0
      <4>. QED BY <4>1, <4>a
    <3>. QED BY <3>1, <3>2, <3>3, <3>4
  <2>2. ASSUME NEW i \in 1..Len(f), NEW k \in Sondadores, NEW cx \in v.sonda[k]
        PROVE  f[i].host # cx.host
    <3>1. cx.host \in v.naFila
      BY DEF VidaBoa, HostsEmMaos
    <3>2. CASE i \in 1..Len(s)
      BY <1>0, <1>5, <3>2 DEF VidaBoa, FilaSemRepetir
    <3>3. CASE i \notin 1..Len(s)
      BY <2>00, <3>1, <3>3
    <3>. QED BY <3>2, <3>3
  <2>. QED BY <1>6, <2>1, <2>2 DEF FilaSemRepetir
<1>13. \A h \in w.naFila : w.sabido[h] = "desconhecido"
  <2>1. ASSUME NEW h \in H PROVE v.sabido[h] = "desconhecido"
    <3>1. PICK i \in 1..Len(g) : g[i].host = h
      BY <1>0
    <3>. QED BY <3>1
  <2>2. \A h \in v.naFila : v.sabido[h] = "desconhecido"
    BY DEF VidaBoa
  <2>. QED BY <1>6, <2>1, <2>2
<1>. QED BY <1>7, <1>10, <1>11, <1>12, <1>13 DEF VidaBoa, w

\* The cards that are drawn ask for their hosts, as many as fit.
LEMMA EstadoBom ==
  ASSUME NEW v, VidaBoa(v), NEW cards \in SUBSET Fichas
  PROVE  VidaBoa(EstadoVida(v, cards))
<1>. DEFINE novos == {cx \in cards : v.sabido[cx.host] = "desconhecido" /\ cx.host \notin v.naFila}
            um    == {CHOOSE cx \in novos : cx.host = h : h \in {cx.host : cx \in novos}}
            m     == Min({Cardinality(um), MaxFila - Len(v.fila)})
            q     == SetToSeq(um)
            cabem == SubSeq(q, 1, m)
<1>1. um \subseteq novos /\ \A a, b \in um : a.host = b.host => a = b
  <2>1. novos \in SUBSET Fichas
    OBVIOUS
  <2>. HIDE DEF novos
  <2>. QED BY <2>1, UmPorHost
<1>2. EstadoVida(v, cards)
        = [v EXCEPT !.fila = @ \o cabem, !.naFila = @ \union {cx.host : cx \in Range(cabem)}]
  BY DEF EstadoVida
<1>. HIDE DEF um
<1>3. IsFiniteSet(um) /\ um \subseteq Fichas
  BY <1>1, FS_Subset, PainelAssumption
<1>4. /\ q \in Seq(um) /\ Len(q) = Cardinality(um) /\ Cardinality(um) \in Nat
      /\ \A i, j \in 1..Cardinality(um) : q[i] = q[j] => i = j
  BY <1>3, SetEmSeq
<1>5. m \in Int /\ m <= Cardinality(um)
  <2>1. Len(v.fila) \in Nat /\ MaxFila \in Nat
    BY LenProperties, PainelAssumption DEF VidaBoa, VidasPa
  <2>. DEFINE n == Cardinality(um)
              k == MaxFila - Len(v.fila)
              D == {n, k}
  <2>2. n \in Int /\ k \in Int
    BY <1>4, <2>1
  <2>. HIDE DEF n, k
  <2>3. \E x \in D : \A y \in D : x <= y
    BY <2>2
  <2>4. Min(D) \in D /\ \A y \in D : Min(D) <= y
    <3>. HIDE DEF D
    <3>. QED BY <2>3 DEF Min
  <2>5. m = Min(D)
    BY DEF n, k
  <2>. HIDE DEF m
  <2>. QED BY <2>2, <2>4, <2>5 DEF n
<1>. HIDE DEF q, m
<1>6. /\ cabem \in Seq(um) /\ Len(cabem) <= Len(q)
      /\ \A i \in 1..Len(cabem) : i \in 1..Len(q) /\ cabem[i] = q[i]
  <2>1. \A i \in 1..m : q[i] \in um
    <3>1. \A i \in 1..m : i \in 1..Len(q)
      BY <1>4, <1>5
    <3>. QED BY <1>4, <3>1, ElementOfSeq
  <2>2. /\ cabem \in Seq(um) /\ Len(cabem) = IF 1 <= m THEN m - 1 + 1 ELSE 0
        /\ \A i \in 1..(m - 1 + 1) : cabem[i] = q[1 + i - 1]
    BY <1>4, <1>5, <2>1, SubSeqProperties
  <2>. HIDE DEF cabem
  <2>3. Len(cabem) <= Len(q) /\ \A i \in 1..Len(cabem) : i \in 1..m /\ i \in 1..Len(q)
    BY <1>4, <1>5, <2>2
  <2>4. m - 1 + 1 = m /\ \A i \in 1..m : 1 + i - 1 = i
    BY <1>5
  <2>. QED BY <2>2, <2>3, <2>4
<1>. HIDE DEF cabem, novos
<1>7. cabem \in Seq(Fichas) /\ \A i \in 1..Len(cabem) : cabem[i] \in um
  <2>1. \A i \in 1..Len(cabem) : cabem[i] \in um
    BY <1>6, ElementOfSeq
  <2>2. DOMAIN cabem = 1..Len(cabem) /\ Len(cabem) \in Nat /\ cabem \in [1..Len(cabem) -> um]
    BY <1>6, LenProperties
  <2>3. cabem \in [1..Len(cabem) -> Fichas]
    BY <1>3, <2>2
  <2>. QED BY <2>1, <2>2, <2>3, SeqDef
<1>8. ASSUME NEW i \in 1..Len(cabem), NEW j \in 1..Len(cabem), cabem[i].host = cabem[j].host
      PROVE  i = j
  <2>1. cabem[i] = cabem[j]
    BY <1>1, <1>7, <1>8
  <2>2. i \in 1..Cardinality(um) /\ j \in 1..Cardinality(um) /\ q[i] = q[j]
    BY <1>4, <1>6, <2>1
  <2>. QED BY <1>4, <2>2
<1>9. \A i \in 1..Len(cabem) :
        cabem[i].host \notin v.naFila /\ v.sabido[cabem[i].host] = "desconhecido"
  <2>1. ASSUME NEW x \in novos PROVE x.host \notin v.naFila /\ v.sabido[x.host] = "desconhecido"
    BY DEF novos
  <2>. QED BY <1>1, <1>7, <2>1
<1>10. /\ cabem \in Seq(Fichas)
       /\ \A i, j \in 1..Len(cabem) : cabem[i].host = cabem[j].host => i = j
  BY <1>7, <1>8
<1>11. VidaBoa([v EXCEPT !.fila = @ \o cabem, !.naFila = @ \union {cx.host : cx \in Range(cabem)}])
  BY <1>9, <1>10, FilaRecebe
<1>. QED BY <1>2, <1>11

\* Fields that VidaBoa does not speak of.
LEMMA VidaPintada ==
  ASSUME NEW v, VidaBoa(v), NEW pint \in [Hosts -> Estados]
  PROVE  VidaBoa([v EXCEPT !.pintado = pint])
<1>. DEFINE w == [v EXCEPT !.pintado = pint]
<1>1. /\ w \in VidasPa /\ w.naFila = v.naFila /\ w.fila = v.fila /\ w.sonda = v.sonda
      /\ w.sabido = v.sabido
  BY DEF VidaBoa, VidasPa
<1>. HIDE DEF w
<1>2. VidaBoa(w)
  BY <1>1 DEF VidaBoa, FilaSemRepetir, MaosDistintas, HostsDaFila, HostsEmMaos
<1>. QED BY <1>2 DEF w

LEMMA VidaPedida ==
  ASSUME NEW v, VidaBoa(v), NEW p \in BOOLEAN, NEW r \in BOOLEAN
  PROVE  VidaBoa([v EXCEPT !.pedido = p, !.recente = r])
<1>. DEFINE w == [v EXCEPT !.pedido = p, !.recente = r]
<1>1. /\ w \in VidasPa /\ w.naFila = v.naFila /\ w.fila = v.fila /\ w.sonda = v.sonda
      /\ w.sabido = v.sabido
  BY DEF VidaBoa, VidasPa
<1>. HIDE DEF w
<1>2. VidaBoa(w)
  BY <1>1 DEF VidaBoa, FilaSemRepetir, MaosDistintas, HostsDaFila, HostsEmMaos
<1>. QED BY <1>2 DEF w

\* A frame draws some cards, and the probe stays as it has to be.
LEMMA VidaDoQuadro ==
  ASSUME NEW v, VidaBoa(v), NEW cards \in SUBSET Fichas
  PROVE  VidaBoa(CorDaVida(EstadoVida([v EXCEPT !.pedido = FALSE], cards), cards))
<1>. DEFINE a == [v EXCEPT !.pedido = FALSE]
            b == EstadoVida(a, cards)
            pint == [h \in Hosts |-> IF \E cx \in cards : cx.host = h
                                     THEN b.sabido[h] ELSE b.pintado[h]]
<1>1. VidaBoa(a)
  <2>1. v.recente \in BOOLEAN /\ a = [v EXCEPT !.pedido = FALSE, !.recente = v.recente]
    BY DEF VidaBoa, VidasPa
  <2>. HIDE DEF a
  <2>. QED BY <2>1, VidaPedida
<1>. HIDE DEF a
<1>2. VidaBoa(b)
  BY <1>1, EstadoBom
<1>. HIDE DEF b
<1>3. b.sabido \in [Hosts -> Estados] /\ b.pintado \in [Hosts -> Estados] /\ b \in VidasPa
  BY <1>2 DEF VidaBoa, VidasPa
<1>4. pint \in [Hosts -> Estados]
  BY <1>3
<1>5. CorDaVida(b, cards) = [b EXCEPT !.pintado = pint]
  BY <1>3 DEF CorDaVida, VidasPa
<1>. HIDE DEF pint
<1>6. VidaBoa(CorDaVida(b, cards))
  BY <1>2, <1>4, <1>5, VidaPintada
<1>. QED BY <1>6 DEF a, b

-----------------------------------------------------------------------------
(* One frame.                                                              *)

LEMMA CampoBom ==
  ASSUME NEW t, TelaBoa(t)
  PROVE  /\ \A x \in Termos : TelaBoa([t EXCEPT !.painel = x]) /\ TelaBoa([t EXCEPT !.lateral = x])
         /\ \A x \in SUBSET Caminhos(Fichas) :
              TelaBoa([t EXCEPT !.abertosP = x]) /\ TelaBoa([t EXCEPT !.abertosL = x])
         /\ \A x \in Range(Protocolos) : TelaBoa([t EXCEPT !.proto = x])
         /\ \A x \in 0..2 : TelaBoa([t EXCEPT !.trava = x])
         /\ \A x \in BOOLEAN : TelaBoa([t EXCEPT !.oculta = x])
         /\ \A x \in {"painel", "sessao"} : TelaBoa([t EXCEPT !.aba = x])
<1>1. ASSUME NEW x \in Termos
      PROVE  TelaBoa([t EXCEPT !.painel = x]) /\ TelaBoa([t EXCEPT !.lateral = x])
  BY DEF TelaBoa, TelasPa
<1>2. ASSUME NEW x \in SUBSET Caminhos(Fichas)
      PROVE  TelaBoa([t EXCEPT !.abertosP = x]) /\ TelaBoa([t EXCEPT !.abertosL = x])
  BY DEF TelaBoa, TelasPa
<1>3. ASSUME NEW x \in Range(Protocolos)
      PROVE  TelaBoa([t EXCEPT !.proto = x])
  BY DEF TelaBoa, TelasPa
<1>4. ASSUME NEW x \in 0..2
      PROVE  TelaBoa([t EXCEPT !.trava = x])
  BY DEF TelaBoa, TelasPa
<1>5. ASSUME NEW x \in BOOLEAN
      PROVE  TelaBoa([t EXCEPT !.oculta = x])
  BY DEF TelaBoa, TelasPa
<1>6. ASSUME NEW x \in {"painel", "sessao"}
      PROVE  TelaBoa([t EXCEPT !.aba = x])
  BY DEF TelaBoa, TelasPa
<1>. QED BY <1>1, <1>2, <1>3, <1>4, <1>5, <1>6

LEMMA ViraBom ==
  ASSUME NEW t, TelaBoa(t), NEW g \in Caminhos(Fichas)
  PROVE  /\ TelaBoa([t EXCEPT !.abertosP = Virar(@, g)])
         /\ TelaBoa([t EXCEPT !.abertosL = Virar(@, g)])
<1>1. /\ Virar(t.abertosP, g) \in SUBSET Caminhos(Fichas)
      /\ Virar(t.abertosL, g) \in SUBSET Caminhos(Fichas)
  <2>1. t.abertosP \in SUBSET Caminhos(Fichas) /\ t.abertosL \in SUBSET Caminhos(Fichas)
    BY DEF TelaBoa, TelasPa
  <2>. QED BY <2>1 DEF Virar
<1>2. /\ [t EXCEPT !.abertosP = Virar(@, g)] = [t EXCEPT !.abertosP = Virar(t.abertosP, g)]
      /\ [t EXCEPT !.abertosL = Virar(@, g)] = [t EXCEPT !.abertosL = Virar(t.abertosL, g)]
  OBVIOUS
<1>. QED BY <1>1, <1>2, CampoBom

LEMMA CaminhosDe ==
  ASSUME NEW arq \in SUBSET Fichas
  PROVE  Caminhos(arq) \subseteq Caminhos(Fichas)
BY DEF Caminhos

\* What the frame leaves, from what the window shows when it draws: l after
\* the side list and the tabs, c after the content.
LEMMA QuadroBom ==
  ASSUME InvPa, NEW l, TelaBoa(l), NEW c, TelaBoa(c), telaPa' = c,
         selPa' \in EscolhasPa, usoPa' \in UsosPa, arqPa' = arqPa,
         vidaPa' = CorDaVida(EstadoVida([vidaPa EXCEPT !.pedido = FALSE],
                                        Desenhados(LayoutPainel(l), arqPa)),
                             Desenhados(LayoutPainel(l), arqPa))
  PROVE  InvPa'
<1>. DEFINE cards == Desenhados(LayoutPainel(l), arqPa)
<1>1. cards \in SUBSET Fichas
  BY DesenhaFichas DEF InvPa
<1>. HIDE DEF cards
<1>2. VidaBoa(vidaPa)
  BY DEF InvPa
<1>3. VidaBoa(CorDaVida(EstadoVida([vidaPa EXCEPT !.pedido = FALSE], cards), cards))
  BY <1>1, <1>2, VidaDoQuadro
<1>4. vidaPa' = CorDaVida(EstadoVida([vidaPa EXCEPT !.pedido = FALSE], cards), cards)
  BY DEF cards
<1>5. VidaBoa(vidaPa')
  BY <1>3, <1>4
<1>6. TelaBoa(telaPa') /\ arqPa' \subseteq Fichas
  BY DEF InvPa
<1>. QED BY <1>5, <1>6 DEF InvPa

LEMMA GestoBom ==
  ASSUME InvPa, Gesto
  PROVE  usoPa' \in UsosPa /\ selPa \in EscolhasPa
<1>1. usoPa \in UsosPa /\ MaxGestosPa \in Nat
  BY PainelAssumption DEF InvPa
<1>2. usoPa.gestos \in 0..MaxGestosPa /\ usoPa.gestos < MaxGestosPa
  BY <1>1 DEF UsosPa, Gesto
<1>3. usoPa.gestos + 1 \in 0..MaxGestosPa
  BY <1>1, <1>2
<1>. DEFINE n == usoPa.gestos + 1
<1>4. usoPa' = [usoPa EXCEPT !.gestos = n]
  BY DEF Gesto
<1>. HIDE DEF n
<1>5. n \in 0..MaxGestosPa
  BY <1>3 DEF n
<1>6. usoPa' \in UsosPa
  BY <1>1, <1>4, <1>5 DEF UsosPa
<1>. QED BY <1>6 DEF InvPa

\* The window before the side list takes its click, and before the content does.
LEMMA AntesDoLado ==
  ASSUME InvPa
  PROVE  TelaBoa(LayoutLateral(telaPa)) /\ TelaBoa(LayoutPainel(LayoutLateral(telaPa)))
BY LateralBoa, PainelBom DEF InvPa

\* A frame with a click on the content leaves c, one without leaves what it drew.
LEMMA QuadroCentro ==
  ASSUME InvPa, Gesto, NEW c, NEW sel \in EscolhasPa,
         TelaBoa(LayoutPainel(LayoutLateral(telaPa))) => TelaBoa(c),
         telaPa' = c, selPa' = sel, arqPa' = arqPa,
         vidaPa' = CorDaVida(EstadoVida([vidaPa EXCEPT !.pedido = FALSE],
                               Desenhados(LayoutPainel(LayoutLateral(telaPa)), arqPa)),
                             Desenhados(LayoutPainel(LayoutLateral(telaPa)), arqPa))
  PROVE  InvPa'
<1>1. TelaBoa(LayoutLateral(telaPa)) /\ TelaBoa(c) /\ selPa' \in EscolhasPa
  BY AntesDoLado
<1>2. usoPa' \in UsosPa
  BY GestoBom
<1>. QED BY <1>1, <1>2, QuadroBom

\* A frame with a click on the side list or on the tabs, that leaves l.
LEMMA QuadroLado ==
  ASSUME InvPa, Gesto, NEW l, TelaBoa(l),
         telaPa' = LayoutPainel(l), selPa' = selPa, arqPa' = arqPa,
         vidaPa' = CorDaVida(EstadoVida([vidaPa EXCEPT !.pedido = FALSE],
                                        Desenhados(LayoutPainel(l), arqPa)),
                             Desenhados(LayoutPainel(l), arqPa))
  PROVE  InvPa'
<1>1. TelaBoa(LayoutPainel(l))
  BY PainelBom
<1>2. usoPa' \in UsosPa /\ selPa' \in EscolhasPa
  BY GestoBom
<1>. QED BY <1>1, <1>2, QuadroBom

-----------------------------------------------------------------------------
(* The clicks and the keys.                                                *)

LEMMA PQuadroAvulso == ASSUME InvPa, QuadroAvulso PROVE InvPa'
<1>. DEFINE d == LayoutPainel(LayoutLateral(telaPa))
            c == d
            e == selPa
<1>1. /\ Gesto /\ telaPa' = c /\ selPa' = e /\ arqPa' = arqPa
      /\ vidaPa' = CorDaVida(EstadoVida([vidaPa EXCEPT !.pedido = FALSE], Desenhados(d, arqPa)),
                             Desenhados(d, arqPa))
  BY DEF QuadroAvulso, Quadro, Id
<1>2. TelaBoa(d)
  BY AntesDoLado
<1>3. TelaBoa(c)
  BY <1>2
<1>4. e \in EscolhasPa
  BY <1>1, GestoBom
<1>. HIDE DEF c, e
<1>. QED BY <1>1, <1>3, <1>4, QuadroCentro DEF d

LEMMA PCampoFiltro == ASSUME InvPa, NEW t \in Termos, CampoFiltro(t) PROVE InvPa'
<1>. DEFINE d == LayoutPainel(LayoutLateral(telaPa))
            c == [d EXCEPT !.painel = t]
            e == selPa
<1>1. /\ Gesto /\ telaPa' = c /\ selPa' = e /\ arqPa' = arqPa
      /\ vidaPa' = CorDaVida(EstadoVida([vidaPa EXCEPT !.pedido = FALSE], Desenhados(d, arqPa)),
                             Desenhados(d, arqPa))
  BY DEF CampoFiltro, Quadro, Id
<1>2. TelaBoa(d)
  BY AntesDoLado
<1>3. TelaBoa(c)
  <2>. HIDE DEF d
  <2>. QED BY <1>2, CampoBom
<1>4. e \in EscolhasPa
  BY <1>1, GestoBom
<1>. HIDE DEF c, e
<1>. QED BY <1>1, <1>3, <1>4, QuadroCentro DEF d

LEMMA PCampoBusca == ASSUME InvPa, NEW t \in Termos, CampoBusca(t) PROVE InvPa'
<1>. DEFINE d == LayoutLateral(telaPa)
            l == [d EXCEPT !.lateral = t]
<1>1. /\ Gesto /\ telaPa' = LayoutPainel(l) /\ selPa' = selPa /\ arqPa' = arqPa
      /\ vidaPa' = CorDaVida(EstadoVida([vidaPa EXCEPT !.pedido = FALSE],
                                        Desenhados(LayoutPainel(l), arqPa)),
                             Desenhados(LayoutPainel(l), arqPa))
  BY DEF CampoBusca, Quadro, Id
<1>2. TelaBoa(d)
  BY AntesDoLado
<1>. HIDE DEF d
<1>3. TelaBoa(l)
  BY <1>2, CampoBom
<1>. HIDE DEF l
<1>. QED BY <1>1, <1>3, QuadroLado

LEMMA PClicarGrupo == ASSUME InvPa, NEW g \in Caminhos(Fichas), ClicarGrupo(g) PROVE InvPa'
<1>. DEFINE d == LayoutPainel(LayoutLateral(telaPa))
            c == [d EXCEPT !.abertosP = Virar(@, g)]
            e == selPa
<1>1. /\ Gesto /\ telaPa' = c /\ selPa' = e /\ arqPa' = arqPa
      /\ vidaPa' = CorDaVida(EstadoVida([vidaPa EXCEPT !.pedido = FALSE], Desenhados(d, arqPa)),
                             Desenhados(d, arqPa))
  BY DEF ClicarGrupo, Quadro, Id
<1>2. TelaBoa(d)
  BY AntesDoLado
<1>3. TelaBoa(c)
  <2>. HIDE DEF d
  <2>. QED BY <1>2, ViraBom
<1>4. e \in EscolhasPa
  BY <1>1, GestoBom
<1>. HIDE DEF c, e
<1>. QED BY <1>1, <1>3, <1>4, QuadroCentro DEF d

LEMMA PClicarRamo == ASSUME InvPa, NEW g \in Caminhos(Fichas), ClicarRamo(g) PROVE InvPa'
<1>. DEFINE d == LayoutLateral(telaPa)
            l == [d EXCEPT !.abertosL = Virar(@, g)]
<1>1. /\ Gesto /\ telaPa' = LayoutPainel(l) /\ selPa' = selPa /\ arqPa' = arqPa
      /\ vidaPa' = CorDaVida(EstadoVida([vidaPa EXCEPT !.pedido = FALSE],
                                        Desenhados(LayoutPainel(l), arqPa)),
                             Desenhados(LayoutPainel(l), arqPa))
  BY DEF ClicarRamo, Quadro, Id
<1>2. TelaBoa(d)
  BY AntesDoLado
<1>. HIDE DEF d
<1>3. TelaBoa(l)
  BY <1>2, ViraBom
<1>. HIDE DEF l
<1>. QED BY <1>1, <1>3, QuadroLado

LEMMA PRecolherTudo == ASSUME InvPa, RecolherTudo PROVE InvPa'
<1>. DEFINE d == LayoutPainel(LayoutLateral(telaPa))
            c == [d EXCEPT !.abertosP = {}]
            e == selPa
<1>1. /\ Gesto /\ telaPa' = c /\ selPa' = e /\ arqPa' = arqPa
      /\ vidaPa' = CorDaVida(EstadoVida([vidaPa EXCEPT !.pedido = FALSE], Desenhados(d, arqPa)),
                             Desenhados(d, arqPa))
  BY DEF RecolherTudo, Quadro, Id
<1>2. TelaBoa(d)
  BY AntesDoLado
<1>3. TelaBoa(c)
  <2>. HIDE DEF d
  <2>1. {} \in SUBSET Caminhos(Fichas)
    OBVIOUS
  <2>. QED BY <1>2, <2>1, CampoBom
<1>4. e \in EscolhasPa
  BY <1>1, GestoBom
<1>. HIDE DEF c, e
<1>. QED BY <1>1, <1>3, <1>4, QuadroCentro DEF d

LEMMA PExpandirTudo == ASSUME InvPa, ExpandirTudo PROVE InvPa'
<1>. DEFINE d == LayoutPainel(LayoutLateral(telaPa))
            c == [d EXCEPT !.abertosP = @ \union Caminhos(arqPa)]
            e == selPa
<1>1. /\ Gesto /\ telaPa' = c /\ selPa' = e /\ arqPa' = arqPa
      /\ vidaPa' = CorDaVida(EstadoVida([vidaPa EXCEPT !.pedido = FALSE], Desenhados(d, arqPa)),
                             Desenhados(d, arqPa))
  BY DEF ExpandirTudo, Quadro, Id
<1>2. TelaBoa(d)
  BY AntesDoLado
<1>3. TelaBoa(c)
  <2>. HIDE DEF d
  <2>1. d.abertosP \in SUBSET Caminhos(Fichas)
    BY <1>2 DEF TelaBoa, TelasPa
  <2>2. d.abertosP \union Caminhos(arqPa) \in SUBSET Caminhos(Fichas)
    BY <2>1, CaminhosDe DEF InvPa
  <2>. QED BY <1>2, <2>2, CampoBom
<1>4. e \in EscolhasPa
  BY <1>1, GestoBom
<1>. HIDE DEF c, e
<1>. QED BY <1>1, <1>3, <1>4, QuadroCentro DEF d

LEMMA PClicarIcone == ASSUME InvPa, NEW cx \in Fichas, NEW p \in Range(Protocolos), ClicarIcone(cx, p) PROVE InvPa'
<1>. DEFINE d == LayoutPainel(LayoutLateral(telaPa))
            c == IF Livre(d) THEN AbrirEm(d, cx, p, TRUE) ELSE d
            e == selPa
<1>1. /\ Gesto /\ telaPa' = c /\ selPa' = e /\ arqPa' = arqPa
      /\ vidaPa' = CorDaVida(EstadoVida([vidaPa EXCEPT !.pedido = FALSE], Desenhados(d, arqPa)),
                             Desenhados(d, arqPa))
  BY DEF ClicarIcone, Quadro, Id
<1>2. TelaBoa(d)
  BY AntesDoLado
<1>3. TelaBoa(c)
  <2>. HIDE DEF d
  <2>1. Tem(cx, p) /\ TRUE \in BOOLEAN
    BY DEF ClicarIcone
  <2>2. TelaBoa(AbrirEm(d, cx, p, TRUE))
    BY <1>2, <2>1, AbreBoa
  <2>. QED BY <1>2, <2>2
<1>4. e \in EscolhasPa
  BY <1>1, GestoBom
<1>. HIDE DEF c, e
<1>. QED BY <1>1, <1>3, <1>4, QuadroCentro DEF d

LEMMA PLinhaHost == ASSUME InvPa, NEW cx \in Fichas, LinhaHost(cx) PROVE InvPa'
<1>. DEFINE d == LayoutLateral(telaPa)
            l == IF ProtoDaLateral(cx, telaPa.proto) = NadaPa THEN d
                 ELSE AbrirEm(d, cx, ProtoDaLateral(cx, telaPa.proto), TRUE)
<1>1. /\ Gesto /\ telaPa' = LayoutPainel(l) /\ selPa' = selPa /\ arqPa' = arqPa
      /\ vidaPa' = CorDaVida(EstadoVida([vidaPa EXCEPT !.pedido = FALSE],
                                        Desenhados(LayoutPainel(l), arqPa)),
                             Desenhados(LayoutPainel(l), arqPa))
  BY DEF LinhaHost, Quadro, Id
<1>2. TelaBoa(d)
  BY AntesDoLado
<1>. HIDE DEF d
<1>3. TelaBoa(l)
  <2>1. telaPa.proto \in Range(Protocolos) /\ TRUE \in BOOLEAN
    BY DEF InvPa, TelaBoa, TelasPa
  <2>2. CASE ProtoDaLateral(cx, telaPa.proto) # NadaPa
    <3>1. /\ ProtoDaLateral(cx, telaPa.proto) \in Range(Protocolos)
          /\ Tem(cx, ProtoDaLateral(cx, telaPa.proto))
      BY <2>1, <2>2, LateralTem
    <3>2. TelaBoa(AbrirEm(d, cx, ProtoDaLateral(cx, telaPa.proto), TRUE))
      BY <1>2, <2>1, <3>1, AbreBoa
    <3>. QED BY <2>2, <3>2
  <2>3. CASE ProtoDaLateral(cx, telaPa.proto) = NadaPa
    BY <1>2, <2>3
  <2>. QED BY <2>2, <2>3
<1>. HIDE DEF l
<1>. QED BY <1>1, <1>3, QuadroLado

LEMMA PTiraProtocolo == ASSUME InvPa, NEW p \in Range(Protocolos), TiraProtocolo(p) PROVE InvPa'
<1>. DEFINE d == LayoutLateral(telaPa)
            l == [d EXCEPT !.proto = p]
<1>1. /\ Gesto /\ telaPa' = LayoutPainel(l) /\ selPa' = selPa /\ arqPa' = arqPa
      /\ vidaPa' = CorDaVida(EstadoVida([vidaPa EXCEPT !.pedido = FALSE],
                                        Desenhados(LayoutPainel(l), arqPa)),
                             Desenhados(LayoutPainel(l), arqPa))
  BY DEF TiraProtocolo, Quadro, Id
<1>2. TelaBoa(d)
  BY AntesDoLado
<1>. HIDE DEF d
<1>3. TelaBoa(l)
  BY <1>2, CampoBom
<1>. HIDE DEF l
<1>. QED BY <1>1, <1>3, QuadroLado

LEMMA PBotaoDoMeio == ASSUME InvPa, NEW cx \in Fichas, NEW sob \in Range(Protocolos) \union {NadaPa}, BotaoDoMeio(cx, sob) PROVE InvPa'
<1>. DEFINE d == LayoutPainel(LayoutLateral(telaPa))
            c == IF (IF sob = NadaPa THEN ProtocoloPadrao(cx) ELSE sob) = NadaPa THEN d
                 ELSE AbrirEm(d, cx, IF sob = NadaPa THEN ProtocoloPadrao(cx) ELSE sob, FALSE)
            e == selPa
<1>1. /\ Gesto /\ telaPa' = c /\ selPa' = e /\ arqPa' = arqPa
      /\ vidaPa' = CorDaVida(EstadoVida([vidaPa EXCEPT !.pedido = FALSE], Desenhados(d, arqPa)),
                             Desenhados(d, arqPa))
  BY DEF BotaoDoMeio, Quadro, Id
<1>2. TelaBoa(d)
  BY AntesDoLado
<1>3. TelaBoa(c)
  <2>. DEFINE p == IF sob = NadaPa THEN ProtocoloPadrao(cx) ELSE sob
  <2>1. p # NadaPa => p \in Range(Protocolos) /\ Tem(cx, p)
    BY PadraoTem DEF BotaoDoMeio
  <2>2. c = IF p = NadaPa THEN d ELSE AbrirEm(d, cx, p, FALSE)
    OBVIOUS
  <2>. HIDE DEF p, c, d
  <2>3. p # NadaPa => TelaBoa(AbrirEm(d, cx, p, FALSE))
    BY <1>2, <2>1, AbreBoa
  <2>. QED BY <1>2, <2>2, <2>3
<1>4. e \in EscolhasPa
  BY <1>1, GestoBom
<1>. HIDE DEF c, e
<1>. QED BY <1>1, <1>3, <1>4, QuadroCentro DEF d

LEMMA PMeioNaLateral == ASSUME InvPa, NEW cx \in Fichas, MeioNaLateral(cx) PROVE InvPa'
<1>. DEFINE d == LayoutLateral(telaPa)
            l == AbrirEm(d, cx, ProtocoloPadrao(cx), FALSE)
<1>1. /\ Gesto /\ telaPa' = LayoutPainel(l) /\ selPa' = selPa /\ arqPa' = arqPa
      /\ vidaPa' = CorDaVida(EstadoVida([vidaPa EXCEPT !.pedido = FALSE],
                                        Desenhados(LayoutPainel(l), arqPa)),
                             Desenhados(LayoutPainel(l), arqPa))
  BY DEF MeioNaLateral, Quadro, Id
<1>2. TelaBoa(d)
  BY AntesDoLado
<1>. HIDE DEF d
<1>3. TelaBoa(l)
  <2>1. FALSE \in BOOLEAN /\ ProtocoloPadrao(cx) \in Range(Protocolos) /\ Tem(cx, ProtocoloPadrao(cx))
    BY PadraoTem DEF MeioNaLateral
  <2>. QED BY <1>2, <2>1, AbreBoa
<1>. HIDE DEF l
<1>. QED BY <1>1, <1>3, QuadroLado

LEMMA PBotaoDireito == ASSUME InvPa, BotaoDireito PROVE InvPa'
<1>. DEFINE d == LayoutPainel(LayoutLateral(telaPa))
            c == [d EXCEPT !.trava = 2]
            e == selPa
<1>1. /\ Gesto /\ telaPa' = c /\ selPa' = e /\ arqPa' = arqPa
      /\ vidaPa' = CorDaVida(EstadoVida([vidaPa EXCEPT !.pedido = FALSE], Desenhados(d, arqPa)),
                             Desenhados(d, arqPa))
  BY DEF BotaoDireito, Quadro, Id
<1>2. TelaBoa(d)
  BY AntesDoLado
<1>3. TelaBoa(c)
  <2>. HIDE DEF d
  <2>1. 2 \in 0..2
    OBVIOUS
  <2>. QED BY <1>2, <2>1, CampoBom
<1>4. e \in EscolhasPa
  BY <1>1, GestoBom
<1>. HIDE DEF c, e
<1>. QED BY <1>1, <1>3, <1>4, QuadroCentro DEF d

LEMMA PCiclar == ASSUME InvPa, Ciclar PROVE InvPa'
<1>. DEFINE d == LayoutLateral(telaPa)
            l == [d EXCEPT !.oculta = ~@]
<1>1. /\ Gesto /\ telaPa' = LayoutPainel(l) /\ selPa' = selPa /\ arqPa' = arqPa
      /\ vidaPa' = CorDaVida(EstadoVida([vidaPa EXCEPT !.pedido = FALSE],
                                        Desenhados(LayoutPainel(l), arqPa)),
                             Desenhados(LayoutPainel(l), arqPa))
  BY DEF Ciclar, Quadro, Id
<1>2. TelaBoa(d)
  BY AntesDoLado
<1>. HIDE DEF d
<1>3. TelaBoa(l)
  <2>1. (~d.oculta) \in BOOLEAN
    OBVIOUS
  <2>. QED BY <1>2, <2>1, CampoBom
<1>. HIDE DEF l
<1>. QED BY <1>1, <1>3, QuadroLado

LEMMA PTrocarAba == ASSUME InvPa, TrocarAba PROVE InvPa'
<1>. DEFINE d == LayoutLateral(telaPa)
            l == [d EXCEPT !.aba = IF @ = "painel" THEN "sessao" ELSE "painel"]
<1>1. /\ Gesto /\ telaPa' = LayoutPainel(l) /\ selPa' = selPa /\ arqPa' = arqPa
      /\ vidaPa' = CorDaVida(EstadoVida([vidaPa EXCEPT !.pedido = FALSE],
                                        Desenhados(LayoutPainel(l), arqPa)),
                             Desenhados(LayoutPainel(l), arqPa))
  BY DEF TrocarAba, Quadro, Id
<1>2. TelaBoa(d)
  BY AntesDoLado
<1>. HIDE DEF d
<1>3. TelaBoa(l)
  <2>1. (IF d.aba = "painel" THEN "sessao" ELSE "painel") \in {"painel", "sessao"}
    OBVIOUS
  <2>. QED BY <1>2, <2>1, CampoBom
<1>. HIDE DEF l
<1>. QED BY <1>1, <1>3, QuadroLado

LEMMA PCaixaSelecao == ASSUME InvPa, NEW cx \in Fichas, CaixaSelecao(cx) PROVE InvPa'
<1>. DEFINE d == LayoutPainel(LayoutLateral(telaPa))
            c == d
            e == [selPa EXCEPT !.marcadas = AlternarSelecao(@, cx)]
<1>1. /\ Gesto /\ telaPa' = c /\ selPa' = e /\ arqPa' = arqPa
      /\ vidaPa' = CorDaVida(EstadoVida([vidaPa EXCEPT !.pedido = FALSE], Desenhados(d, arqPa)),
                             Desenhados(d, arqPa))
  BY DEF CaixaSelecao, Quadro, Id
<1>2. TelaBoa(d)
  BY AntesDoLado
<1>3. TelaBoa(c)
  BY <1>2
<1>4. e \in EscolhasPa
  <2>1. selPa \in EscolhasPa /\ selPa.marcadas \in SUBSET Fichas
    BY DEF InvPa, EscolhasPa
  <2>2. AlternarSelecao(selPa.marcadas, cx) \in SUBSET Fichas
    BY <2>1 DEF AlternarSelecao, SemAs
  <2>. QED BY <2>1, <2>2 DEF EscolhasPa
<1>. HIDE DEF c, e
<1>. QED BY <1>1, <1>3, <1>4, QuadroCentro DEF d

LEMMA PCaixaGrupo == ASSUME InvPa, NEW g \in Caminhos(Fichas), CaixaGrupo(g) PROVE InvPa'
<1>. DEFINE d == LayoutPainel(LayoutLateral(telaPa))
            c == d
            e == [selPa EXCEPT !.marcadas = AlternarGrupo(@, TodasDoGrupo(arqPa, g))]
<1>1. /\ Gesto /\ telaPa' = c /\ selPa' = e /\ arqPa' = arqPa
      /\ vidaPa' = CorDaVida(EstadoVida([vidaPa EXCEPT !.pedido = FALSE], Desenhados(d, arqPa)),
                             Desenhados(d, arqPa))
  BY DEF CaixaGrupo, Quadro, Id
<1>2. TelaBoa(d)
  BY AntesDoLado
<1>3. TelaBoa(c)
  BY <1>2
<1>4. e \in EscolhasPa
  <2>1. selPa \in EscolhasPa /\ selPa.marcadas \in SUBSET Fichas
    BY DEF InvPa, EscolhasPa
  <2>2. TodasDoGrupo(arqPa, g) \in SUBSET Fichas
    BY DEF InvPa, TodasDoGrupo
  <2>3. AlternarGrupo(selPa.marcadas, TodasDoGrupo(arqPa, g)) \in SUBSET Fichas
    BY <2>1, <2>2 DEF AlternarGrupo, SemAs
  <2>. QED BY <2>1, <2>3 DEF EscolhasPa
<1>. HIDE DEF c, e
<1>. QED BY <1>1, <1>3, <1>4, QuadroCentro DEF d

LEMMA PLimparSelecao == ASSUME InvPa, LimparSelecao PROVE InvPa'
<1>. DEFINE d == LayoutPainel(LayoutLateral(telaPa))
            c == d
            e == [selPa EXCEPT !.marcadas = {}]
<1>1. /\ Gesto /\ telaPa' = c /\ selPa' = e /\ arqPa' = arqPa
      /\ vidaPa' = CorDaVida(EstadoVida([vidaPa EXCEPT !.pedido = FALSE], Desenhados(d, arqPa)),
                             Desenhados(d, arqPa))
  BY DEF LimparSelecao, Quadro, Id
<1>2. TelaBoa(d)
  BY AntesDoLado
<1>3. TelaBoa(c)
  BY <1>2
<1>4. e \in EscolhasPa
  BY DEF InvPa, EscolhasPa
<1>. HIDE DEF c, e
<1>. QED BY <1>1, <1>3, <1>4, QuadroCentro DEF d

LEMMA PExecutarMassa == ASSUME InvPa, ExecutarMassa PROVE InvPa'
<1>. DEFINE d == LayoutPainel(LayoutLateral(telaPa))
            c == d
            e == IF ListaSelecionada = {} THEN selPa ELSE [selPa EXCEPT !.pedido = ListaSelecionada]
<1>1. /\ Gesto /\ telaPa' = c /\ selPa' = e /\ arqPa' = arqPa
      /\ vidaPa' = CorDaVida(EstadoVida([vidaPa EXCEPT !.pedido = FALSE], Desenhados(d, arqPa)),
                             Desenhados(d, arqPa))
  BY DEF ExecutarMassa, Quadro, Id
<1>2. TelaBoa(d)
  BY AntesDoLado
<1>3. TelaBoa(c)
  BY <1>2
<1>4. e \in EscolhasPa
  <2>1. ListaSelecionada \in SUBSET Fichas
    BY DEF InvPa, ListaSelecionada
  <2>. QED BY <2>1 DEF InvPa, EscolhasPa
<1>. HIDE DEF c, e
<1>. QED BY <1>1, <1>3, <1>4, QuadroCentro DEF d

LEMMA PExcluirMassa == ASSUME InvPa, ExcluirMassa PROVE InvPa'
<1>. DEFINE d == LayoutPainel(LayoutLateral(telaPa))
            c == d
            e == [selPa EXCEPT !.pergunta = ListaSelecionada]
<1>1. /\ Gesto /\ telaPa' = c /\ selPa' = e /\ arqPa' = arqPa
      /\ vidaPa' = CorDaVida(EstadoVida([vidaPa EXCEPT !.pedido = FALSE], Desenhados(d, arqPa)),
                             Desenhados(d, arqPa))
  BY DEF ExcluirMassa, Quadro, Id
<1>2. TelaBoa(d)
  BY AntesDoLado
<1>3. TelaBoa(c)
  BY <1>2
<1>4. e \in EscolhasPa
  <2>1. ListaSelecionada \in SUBSET Fichas
    BY DEF InvPa, ListaSelecionada
  <2>. QED BY <2>1 DEF InvPa, EscolhasPa
<1>. HIDE DEF c, e
<1>. QED BY <1>1, <1>3, <1>4, QuadroCentro DEF d

-----------------------------------------------------------------------------
(* The workers of the probe, and what goes on without a frame.             *)

LEMMA PQuadroPedido == ASSUME InvPa, QuadroPedido PROVE InvPa'
<1>. DEFINE l == LayoutLateral(telaPa)
<1>1. /\ telaPa' = LayoutPainel(l) /\ selPa' = selPa /\ arqPa' = arqPa /\ usoPa' = usoPa
      /\ vidaPa' = CorDaVida(EstadoVida([vidaPa EXCEPT !.pedido = FALSE],
                                        Desenhados(LayoutPainel(l), arqPa)),
                             Desenhados(LayoutPainel(l), arqPa))
  BY DEF QuadroPedido, Quadro, Id
<1>2. TelaBoa(l) /\ TelaBoa(LayoutPainel(l))
  BY AntesDoLado
<1>. HIDE DEF l
<1>3. usoPa' \in UsosPa /\ selPa' \in EscolhasPa
  BY <1>1 DEF InvPa
<1>. QED BY <1>1, <1>2, <1>3, QuadroBom

LEMMA PCancelarExclusao == ASSUME InvPa, CancelarExclusao PROVE InvPa'
BY DEF InvPa, EscolhasPa, CancelarExclusao

LEMMA PConfirmarExclusao == ASSUME InvPa, ConfirmarExclusao PROVE InvPa'
<1>1. selPa' = [selPa EXCEPT !.marcadas = {}, !.pergunta = {}] /\ selPa \in EscolhasPa
  BY DEF InvPa, ConfirmarExclusao
<1>2. selPa' \in EscolhasPa
  BY <1>1 DEF EscolhasPa
<1>3. arqPa' \subseteq Fichas
  BY DEF InvPa, ConfirmarExclusao
<1>4. telaPa' = telaPa /\ vidaPa' = vidaPa /\ usoPa' = usoPa
  BY DEF ConfirmarExclusao
<1>. QED BY <1>2, <1>3, <1>4 DEF InvPa

LEMMA PRecarregarCom ==
  ASSUME InvPa, NEW novo \in SUBSET Fichas, RecarregarCom(novo) PROVE InvPa'
<1>1. usoPa \in UsosPa /\ MaxRecargas \in Nat
  BY PainelAssumption DEF InvPa
<1>2. usoPa.recargas \in 0..MaxRecargas /\ usoPa.recargas < MaxRecargas
  BY <1>1 DEF UsosPa, RecarregarCom
<1>3. usoPa.recargas + 1 \in 0..MaxRecargas
  BY <1>1, <1>2
<1>. DEFINE n == usoPa.recargas + 1
<1>4. /\ usoPa' = [usoPa EXCEPT !.recargas = n] /\ arqPa' \subseteq Fichas
      /\ telaPa' = telaPa /\ selPa' = selPa /\ vidaPa' = vidaPa
  BY DEF RecarregarCom
<1>. HIDE DEF n
<1>5. n \in 0..MaxRecargas
  BY <1>3 DEF n
<1>6. usoPa' \in UsosPa
  BY <1>1, <1>4, <1>5 DEF UsosPa
<1>. QED BY <1>4, <1>6 DEF InvPa

LEMMA PPassarRitmo == ASSUME InvPa, PassarRitmo PROVE InvPa'
<1>1. VidaBoa(vidaPa) /\ vidaPa.pedido \in BOOLEAN /\ vidaPa \in VidasPa
  BY DEF InvPa, VidaBoa, VidasPa
<1>2. vidaPa' = [vidaPa EXCEPT !.pedido = vidaPa.pedido, !.recente = FALSE]
  BY <1>1 DEF PassarRitmo, VidasPa
<1>3. VidaBoa(vidaPa')
  BY <1>1, <1>2, VidaPedida
<1>4. telaPa' = telaPa /\ selPa' = selPa /\ arqPa' = arqPa /\ usoPa' = usoPa
  BY DEF PassarRitmo
<1>. QED BY <1>3, <1>4 DEF InvPa

\* A worker takes the card at the head of the queue.
LEMMA PPegar == ASSUME InvPa, NEW s \in Sondadores, Pegar(s) PROVE InvPa'
<1>. DEFINE v == vidaPa
            f == v.fila
            c == Head(f)
            r == Tail(f)
            m == [v.sonda EXCEPT ![s] = {c}]
            w == [v EXCEPT !.sonda = m, !.fila = r]
<1>1. v \in VidasPa /\ VidaBoa(v) /\ f \in Seq(Fichas) /\ f # <<>> /\ v.sonda[s] = {}
  BY DEF Pegar, InvPa, VidaBoa, VidasPa
<1>2. w = vidaPa' /\ w.sonda = m /\ w.fila = r /\ w.naFila = v.naFila /\ w.sabido = v.sabido
  BY <1>1 DEF Pegar, VidasPa
<1>3. /\ r \in Seq(Fichas) /\ c \in Fichas /\ Len(f) \in Nat /\ Len(f) >= 1 /\ Len(r) = Len(f) - 1
      /\ c = f[1] /\ \A i \in 1..Len(r) : r[i] = f[i + 1]
  <2>1. Len(f) \in Nat /\ Len(f) # 0
    BY <1>1, LenProperties, EmptySeq
  <2>2. f[1] \in Fichas
    <3>1. 1 \in 1..Len(f)
      BY <2>1
    <3>. QED BY <1>1, <3>1, ElementOfSeq
  <2>. QED BY <1>1, <2>1, <2>2, HeadTailProperties
<1>4. /\ v.sonda \in [Sondadores -> SUBSET Fichas] /\ m \in [Sondadores -> SUBSET Fichas]
      /\ m[s] = {c} /\ \A u \in Sondadores : u # s => m[u] = v.sonda[u]
  BY <1>1, <1>3 DEF VidasPa
<1>5. w \in VidasPa
  <2>. HIDE DEF m, r, c
  <2>. QED BY <1>1, <1>3, <1>4 DEF VidasPa
<1>6. f = vidaPa.fila /\ v = vidaPa
  OBVIOUS
<1>. HIDE DEF v, f, c, r, m, w
<1>7. /\ \A i \in 1..Len(r) : i + 1 \in 1..Len(f) /\ i + 1 # 1
      /\ \A i \in 1..Len(f) : i = 1 \/ (i - 1 \in 1..Len(r) /\ (i - 1) + 1 = i)
      /\ 1 \in 1..Len(f)
  BY <1>3
<1>8. HostsDaFila(v) = {f[i].host : i \in 1..Len(f)} /\ HostsDaFila(w) = {r[i].host : i \in 1..Len(r)}
  BY <1>2, <1>6 DEF HostsDaFila
<1>9. HostsDaFila(v) = HostsDaFila(w) \union {c.host}
  <2>1. ASSUME NEW i \in 1..Len(f) PROVE f[i].host \in HostsDaFila(w) \union {c.host}
    <3>1. CASE i = 1
      BY <1>3, <3>1
    <3>2. CASE i # 1
      <4>. DEFINE k == i - 1
      <4>1. k \in 1..Len(r) /\ k + 1 = i
        BY <1>7, <3>2
      <4>. HIDE DEF k
      <4>2. r[k] = f[i]
        BY <1>3, <4>1
      <4>3. r[k].host \in HostsDaFila(w)
        BY <1>8, <4>1
      <4>. QED BY <4>2, <4>3
    <3>. QED BY <3>1, <3>2
  <2>2. ASSUME NEW i \in 1..Len(r) PROVE r[i].host \in HostsDaFila(v)
    <3>1. r[i] = f[i + 1] /\ i + 1 \in 1..Len(f)
      BY <1>3, <1>7
    <3>2. f[i + 1].host \in HostsDaFila(v)
      BY <1>8, <3>1
    <3>. QED BY <3>1, <3>2
  <2>3. c.host \in HostsDaFila(v)
    <3>1. f[1].host \in HostsDaFila(v)
      BY <1>7, <1>8
    <3>. QED BY <1>3, <3>1
  <2>4. HostsDaFila(v) \subseteq HostsDaFila(w) \union {c.host}
    BY <1>8, <2>1
  <2>5. HostsDaFila(w) \union {c.host} \subseteq HostsDaFila(v)
    BY <1>8, <2>2, <2>3
  <2>. QED BY <2>4, <2>5
<1>10. HostsEmMaos(w) = HostsEmMaos(v) \union {c.host}
  <2>1. ASSUME NEW u \in Sondadores, NEW x \in m[u]
        PROVE  x.host \in HostsEmMaos(v) \union {c.host}
    <3>1. CASE u = s
      BY <1>4, <3>1
    <3>2. CASE u # s
      BY <1>4, <3>2 DEF HostsEmMaos
    <3>. QED BY <3>1, <3>2
  <2>2. ASSUME NEW u \in Sondadores, NEW x \in v.sonda[u]
        PROVE  x.host \in HostsEmMaos(w)
    <3>1. u # s
      BY <1>1
    <3>2. x \in m[u]
      BY <1>4, <3>1
    <3>. QED BY <1>2, <3>2 DEF HostsEmMaos
  <2>3. c.host \in HostsEmMaos(w)
    <3>1. c \in m[s]
      BY <1>4
    <3>. QED BY <1>2, <3>1 DEF HostsEmMaos
  <2>4. HostsEmMaos(w) \subseteq HostsEmMaos(v) \union {c.host}
    BY <1>2, <2>1 DEF HostsEmMaos
  <2>5. HostsEmMaos(v) \subseteq HostsEmMaos(w)
    BY <2>2 DEF HostsEmMaos
  <2>. QED BY <2>3, <2>4, <2>5
<1>11. w.naFila = HostsDaFila(w) \union HostsEmMaos(w) /\ \A h \in w.naFila : w.sabido[h] = "desconhecido"
  BY <1>1, <1>2, <1>9, <1>10 DEF VidaBoa
<1>12. /\ \A i, j \in 1..Len(f) : f[i].host = f[j].host => i = j
       /\ \A i \in 1..Len(f), u \in Sondadores : \A x \in v.sonda[u] : f[i].host # x.host
       /\ \A u \in Sondadores : \A x, y \in v.sonda[u] : x = y
       /\ \A u, t \in Sondadores : \A x \in v.sonda[u], y \in v.sonda[t] : x.host = y.host => u = t
  BY <1>1, <1>6 DEF VidaBoa, FilaSemRepetir, MaosDistintas
<1>13. FilaSemRepetir(w)
  <2>1. ASSUME NEW i \in 1..Len(r), NEW j \in 1..Len(r), r[i].host = r[j].host
        PROVE  i = j
    <3>1. r[i] = f[i + 1] /\ r[j] = f[j + 1] /\ i + 1 \in 1..Len(f) /\ j + 1 \in 1..Len(f)
      BY <1>3, <1>7
    <3>2. f[i + 1].host = f[j + 1].host
      BY <2>1, <3>1
    <3>3. i + 1 = j + 1
      BY <1>12, <3>1, <3>2
    <3>. QED BY <3>3
  <2>2. ASSUME NEW i \in 1..Len(r), NEW u \in Sondadores, NEW x \in m[u]
        PROVE  r[i].host # x.host
    <3>1. r[i] = f[i + 1] /\ i + 1 \in 1..Len(f) /\ i + 1 # 1
      BY <1>3, <1>7
    <3>. DEFINE k == i + 1
    <3>. HIDE DEF k
    <3>2. r[i] = f[k] /\ k \in 1..Len(f) /\ k # 1
      BY <3>1 DEF k
    <3>3. CASE u = s
      <4>1. x = f[1] /\ 1 \in 1..Len(f)
        BY <1>3, <1>4, <1>7, <3>3
      <4>2. f[k].host # f[1].host
        BY <1>12, <3>2, <4>1
      <4>. QED BY <3>2, <4>1, <4>2
    <3>4. CASE u # s
      <4>1. x \in v.sonda[u]
        BY <1>4, <3>4
      <4>2. f[k].host # x.host
        BY <1>12, <3>2, <4>1
      <4>. QED BY <3>2, <4>2
    <3>. QED BY <3>3, <3>4
  <2>. QED BY <1>2, <2>1, <2>2 DEF FilaSemRepetir
<1>14. MaosDistintas(w)
  <2>1. ASSUME NEW u \in Sondadores, NEW x \in m[u], NEW y \in m[u] PROVE x = y
    <3>1. CASE u = s
      BY <1>4, <3>1
    <3>2. CASE u # s
      BY <1>4, <1>12, <3>2
    <3>. QED BY <3>1, <3>2
  <2>2. ASSUME NEW u \in Sondadores, NEW x \in v.sonda[u] PROVE c.host # x.host
    <3>1. f[1].host # x.host
      BY <1>7, <1>12
    <3>. QED BY <1>3, <3>1
  <2>3. ASSUME NEW u \in Sondadores, NEW t \in Sondadores, NEW x \in m[u], NEW y \in m[t],
               x.host = y.host, u # t
        PROVE  FALSE
    <3>1. CASE u = s
      <4>1. x = c /\ y \in v.sonda[t]
        BY <1>4, <2>3, <3>1
      <4>. QED BY <2>2, <2>3, <4>1
    <3>2. CASE t = s
      <4>1. y = c /\ x \in v.sonda[u]
        BY <1>4, <2>3, <3>2
      <4>. QED BY <2>2, <2>3, <4>1
    <3>3. CASE u # s /\ t # s
      <4>1. x \in v.sonda[u] /\ y \in v.sonda[t]
        BY <1>4, <3>3
      <4>. QED BY <1>12, <2>3, <4>1
    <3>. QED BY <3>1, <3>2, <3>3
  <2>. QED BY <1>2, <2>1, <2>3 DEF MaosDistintas
<1>15. VidaBoa(w)
  BY <1>5, <1>11, <1>13, <1>14 DEF VidaBoa
<1>16. telaPa' = telaPa /\ selPa' = selPa /\ arqPa' = arqPa /\ usoPa' = usoPa
  BY DEF Pegar
<1>. QED BY <1>2, <1>15, <1>16 DEF InvPa

\* A worker answers: the host leaves the marks, and something is known of it.
LEMMA PResponder == ASSUME InvPa, NEW s \in Sondadores, Responder(s) PROVE InvPa'
<1>. DEFINE v == vidaPa
<1>1. PICK c \in v.sonda[s] :
        vidaPa' = [v EXCEPT !.sonda[s] = {}, !.sabido[c.host] = Checar(c.host, PortaDaSonda(c)),
                            !.naFila = @ \ {c.host}, !.recente = TRUE,
                            !.pedido = @ \/ ~v.recente]
  BY DEF Responder
<1>2. v \in VidasPa /\ VidaBoa(v)
  BY DEF InvPa, VidaBoa
<1>. DEFINE m == [v.sonda EXCEPT ![s] = {}]
            k == Checar(c.host, PortaDaSonda(c))
            b == [v.sabido EXCEPT ![c.host] = k]
            n == v.naFila \ {c.host}
            p == v.pedido \/ ~v.recente
            w == [v EXCEPT !.sonda = m, !.sabido = b, !.naFila = n, !.recente = TRUE, !.pedido = p]
<1>3. vidaPa' = w /\ w.sonda = m /\ w.sabido = b /\ w.naFila = n /\ w.fila = v.fila
  BY <1>1, <1>2 DEF VidasPa
<1>4. /\ v.sonda \in [Sondadores -> SUBSET Fichas] /\ m \in [Sondadores -> SUBSET Fichas]
      /\ m[s] = {} /\ \A u \in Sondadores : u # s => m[u] = v.sonda[u]
  BY <1>2 DEF VidasPa
<1>5. c \in Fichas /\ c.host \in Hosts
  BY <1>4 DEF Hosts
<1>6. /\ v.sabido \in [Hosts -> Estados] /\ b \in [Hosts -> Estados]
      /\ \A h \in Hosts : h # c.host => b[h] = v.sabido[h]
  <2>1. k \in Estados
    BY DEF Checar, Estados
  <2>2. v.sabido \in [Hosts -> Estados]
    BY <1>2 DEF VidasPa
  <2>. HIDE DEF k
  <2>. QED BY <2>1, <2>2
<1>7. n \in SUBSET Hosts /\ v.naFila \in SUBSET Hosts /\ p \in BOOLEAN
  BY <1>2 DEF VidasPa
<1>8. w \in VidasPa
  <2>. HIDE DEF m, b, n, p
  <2>. QED BY <1>2, <1>4, <1>6, <1>7 DEF VidasPa
<1>9. /\ \A i, j \in 1..Len(v.fila) : v.fila[i].host = v.fila[j].host => i = j
      /\ \A i \in 1..Len(v.fila), u \in Sondadores : \A x \in v.sonda[u] : v.fila[i].host # x.host
      /\ \A u \in Sondadores : \A x, y \in v.sonda[u] : x = y
      /\ \A u, t \in Sondadores : \A x \in v.sonda[u], y \in v.sonda[t] : x.host = y.host => u = t
      /\ v.naFila = HostsDaFila(v) \union HostsEmMaos(v)
      /\ \A h \in v.naFila : v.sabido[h] = "desconhecido"
  BY <1>2 DEF VidaBoa, FilaSemRepetir, MaosDistintas
<1>10. n = v.naFila \ {c.host}
  OBVIOUS
<1>. HIDE DEF v, m, b, n, p, w, k
<1>11. FilaSemRepetir(w)
  BY <1>3, <1>4, <1>9 DEF FilaSemRepetir
<1>12. MaosDistintas(w)
  <2>1. ASSUME NEW u \in Sondadores, NEW x \in m[u] PROVE u # s /\ x \in v.sonda[u]
    BY <1>4
  <2>. QED BY <1>3, <1>9, <2>1 DEF MaosDistintas
<1>13. HostsDaFila(w) = HostsDaFila(v) /\ c.host \notin HostsDaFila(v)
  BY <1>3, <1>9 DEF HostsDaFila
<1>14. HostsEmMaos(w) = HostsEmMaos(v) \ {c.host}
  <2>1. ASSUME NEW u \in Sondadores, NEW x \in m[u]
        PROVE  x.host \in HostsEmMaos(v) /\ x.host # c.host
    <3>1. u # s /\ x \in v.sonda[u]
      BY <1>4
    <3>2. x.host # c.host
      BY <1>9, <3>1
    <3>. QED BY <3>1, <3>2 DEF HostsEmMaos
  <2>2. ASSUME NEW u \in Sondadores, NEW x \in v.sonda[u], x.host # c.host
        PROVE  x.host \in HostsEmMaos(w)
    <3>1. u # s
      BY <1>9, <2>2
    <3>2. x \in m[u]
      BY <1>4, <3>1
    <3>. QED BY <1>3, <3>2 DEF HostsEmMaos
  <2>3. HostsEmMaos(w) \subseteq HostsEmMaos(v) \ {c.host}
    BY <1>3, <2>1 DEF HostsEmMaos
  <2>4. HostsEmMaos(v) \ {c.host} \subseteq HostsEmMaos(w)
    BY <2>2 DEF HostsEmMaos
  <2>. QED BY <2>3, <2>4
<1>15. w.naFila = HostsDaFila(w) \union HostsEmMaos(w)
  BY <1>3, <1>9, <1>10, <1>13, <1>14
<1>16. \A h \in w.naFila : w.sabido[h] = "desconhecido"
  BY <1>3, <1>6, <1>7, <1>9, <1>10
<1>17. VidaBoa(w)
  BY <1>8, <1>11, <1>12, <1>15, <1>16 DEF VidaBoa
<1>18. telaPa' = telaPa /\ selPa' = selPa /\ arqPa' = arqPa /\ usoPa' = usoPa
  BY DEF Responder
<1>. QED BY <1>3, <1>17, <1>18 DEF InvPa

-----------------------------------------------------------------------------
(* The panel keeps what it has to.                                         *)

LEMMA InicioPa == InitPa => InvPa
<1>. SUFFICES ASSUME InitPa PROVE InvPa
  OBVIOUS
<1>1. arqPa \subseteq Fichas /\ selPa \in EscolhasPa /\ usoPa \in UsosPa
  <2>1. arqPa \subseteq Fichas
    BY PainelAssumption DEF InitPa
  <2>2. selPa \in EscolhasPa
    BY DEF InitPa, EscolhasPa
  <2>3. 0 \in 0..MaxGestosPa /\ 0 \in 0..MaxRecargas
    <3>1. MaxGestosPa \in Nat /\ MaxRecargas \in Nat
      BY PainelAssumption
    <3>. QED BY <3>1
  <2>4. usoPa \in UsosPa
    BY <2>3 DEF InitPa, UsosPa
  <2>. QED BY <2>1, <2>2, <2>4
<1>2. TelaBoa(telaPa)
  <2>1. "vnc" \in Range(Protocolos) /\ "" \in Termos
    BY OsProtocolos, PainelAssumption
  <2>. DEFINE As == [cx : Fichas, p : Range(Protocolos), foco : BOOLEAN]
  <2>2. {} \in SUBSET As /\ {} \in SUBSET Caminhos(Fichas) /\ 0 \in 0..2 /\ FALSE \in BOOLEAN
    OBVIOUS
  <2>3. TelasPa = [aba : {"painel", "sessao"}, painel : Termos, lateral : Termos,
                   ultimo : Termos, filtroL : Termos, abertosP : SUBSET Caminhos(Fichas),
                   abertosL : SUBSET Caminhos(Fichas), trava : 0..2, oculta : BOOLEAN,
                   proto : Range(Protocolos), aberta : SUBSET As]
    BY DEF TelasPa
  <2>. HIDE DEF As
  <2>4. telaPa \in TelasPa /\ telaPa.aberta = {}
    BY <2>1, <2>2, <2>3 DEF InitPa
  <2>. QED BY <2>4 DEF TelaBoa
<1>3. VidaBoa(vidaPa)
  <2>1. vidaPa.fila = <<>> /\ vidaPa.naFila = {} /\ \A s \in Sondadores : vidaPa.sonda[s] = {}
    BY DEF InitPa
  <2>2. <<>> \in Seq(Fichas) /\ Len(<<>>) = 0
    BY EmptySeq
  <2>3. vidaPa \in VidasPa
    BY <2>2 DEF InitPa, VidasPa, Estados
  <2>4. 1..0 = {}
    OBVIOUS
  <2>5. HostsDaFila(vidaPa) = {}
    BY <2>1, <2>2, <2>4 DEF HostsDaFila
  <2>6. HostsEmMaos(vidaPa) = {}
    BY <2>1 DEF HostsEmMaos
  <2>7. FilaSemRepetir(vidaPa)
    BY <2>1, <2>2, <2>4 DEF FilaSemRepetir
  <2>8. MaosDistintas(vidaPa)
    BY <2>1 DEF MaosDistintas
  <2>. QED BY <2>1, <2>3, <2>5, <2>6, <2>7, <2>8 DEF VidaBoa
<1>. QED BY <1>1, <1>2, <1>3 DEF InvPa

LEMMA PassoPa == InvPa /\ [NextPa]_varsPa => InvPa'
<1>. SUFFICES ASSUME InvPa, [NextPa]_varsPa PROVE InvPa'
  OBVIOUS
<1>1. CASE QuadroPedido
  BY <1>1, PQuadroPedido
<1>2. CASE QuadroAvulso
  BY <1>2, PQuadroAvulso
<1>3. ASSUME NEW t \in Termos, CampoFiltro(t) \/ CampoBusca(t) PROVE InvPa'
  BY <1>3, PCampoFiltro, PCampoBusca
<1>4. ASSUME NEW g \in Caminhos(Fichas), ClicarGrupo(g) \/ ClicarRamo(g) \/ CaixaGrupo(g) PROVE InvPa'
  BY <1>4, PClicarGrupo, PClicarRamo, PCaixaGrupo
<1>5. CASE RecolherTudo
  BY <1>5, PRecolherTudo
<1>6. CASE ExpandirTudo
  BY <1>6, PExpandirTudo
<1>7. CASE BotaoDireito
  BY <1>7, PBotaoDireito
<1>8. CASE Ciclar
  BY <1>8, PCiclar
<1>9. CASE TrocarAba
  BY <1>9, PTrocarAba
<1>10. ASSUME NEW cx \in Fichas, NEW p \in Range(Protocolos), ClicarIcone(cx, p) PROVE InvPa'
  BY <1>10, PClicarIcone
<1>11. ASSUME NEW cx \in Fichas, LinhaHost(cx) \/ MeioNaLateral(cx) \/ CaixaSelecao(cx) PROVE InvPa'
  BY <1>11, PLinhaHost, PMeioNaLateral, PCaixaSelecao
<1>12. ASSUME NEW p \in Range(Protocolos), TiraProtocolo(p) PROVE InvPa'
  BY <1>12, PTiraProtocolo
<1>13. ASSUME NEW cx \in Fichas, NEW p \in Range(Protocolos) \union {NadaPa}, BotaoDoMeio(cx, p)
       PROVE  InvPa'
  BY <1>13, PBotaoDoMeio
<1>14. CASE LimparSelecao
  BY <1>14, PLimparSelecao
<1>15. CASE ExecutarMassa
  BY <1>15, PExecutarMassa
<1>16. CASE ExcluirMassa
  BY <1>16, PExcluirMassa
<1>17. CASE ConfirmarExclusao
  BY <1>17, PConfirmarExclusao
<1>18. CASE CancelarExclusao
  BY <1>18, PCancelarExclusao
<1>19. ASSUME NEW novo \in SUBSET Fichas, RecarregarCom(novo) PROVE InvPa'
  BY <1>19, PRecarregarCom
<1>20. ASSUME NEW s \in Sondadores, Pegar(s) \/ Responder(s) PROVE InvPa'
  BY <1>20, PPegar, PResponder
<1>21. CASE PassarRitmo
  BY <1>21, PPassarRitmo
<1>22. CASE UNCHANGED varsPa
  BY <1>22 DEF varsPa, InvPa, TelaBoa, TelasPa, VidaBoa
<1>. QED BY <1>1, <1>2, <1>3, <1>4, <1>5, <1>6, <1>7, <1>8, <1>9, <1>10, <1>11, <1>12, <1>13,
            <1>14, <1>15, <1>16, <1>17, <1>18, <1>19, <1>20, <1>21, <1>22 DEF NextPa

\* The marks of the queue, counted: as many as its cards and the workers at
\* work have, because no host is in two of these places.
LEMMA ContaHosts ==
  ASSUME InvPa
  PROVE  UmaSondaPorHost
<1>. DEFINE v == vidaPa
            f == v.fila
            emMaos == {s \in Sondadores : v.sonda[s] # {}}
            M == UNION {v.sonda[s] : s \in emMaos}
            todos == f \o SetToSeq(M)
            A == HostsDaFila(v)
            B == HostsEmMaos(v)
<1>1. /\ v \in VidasPa /\ f \in Seq(Fichas) /\ v.sonda \in [Sondadores -> SUBSET Fichas]
      /\ v.naFila = A \union B
      /\ \A h \in v.naFila : v.sabido[h] = "desconhecido"
      /\ \A i, j \in 1..Len(f) : f[i].host = f[j].host => i = j
      /\ \A i \in 1..Len(f), u \in Sondadores : \A x \in v.sonda[u] : f[i].host # x.host
      /\ \A u \in Sondadores : \A x, y \in v.sonda[u] : x = y
      /\ \A u, t \in Sondadores : \A x \in v.sonda[u], y \in v.sonda[t] : x.host = y.host => u = t
  BY DEF InvPa, VidaBoa, VidasPa, FilaSemRepetir, MaosDistintas
<1>2. Len(f) \in Nat /\ DOMAIN f = 1..Len(f) /\ \A i \in 1..Len(f) : f[i] \in Fichas
  BY <1>1, LenProperties, ElementOfSeq
<1>3. A = {f[i].host : i \in 1..Len(f)}
  BY DEF HostsDaFila
<1>4. M \subseteq Fichas /\ B = {x.host : x \in M}
  BY <1>1 DEF HostsEmMaos
<1>5. emMaos \subseteq Sondadores /\ IsFiniteSet(emMaos) /\ IsFiniteSet(M)
  BY <1>4, FS_Subset, PainelAssumption
<1>6. \A s \in emMaos : \E x \in v.sonda[s] : TRUE
  OBVIOUS
<1>7. \A h \in B : \E s \in emMaos : \E x \in v.sonda[s] : x.host = h
  BY DEF HostsEmMaos
<1>8. \A s \in emMaos : \A x \in v.sonda[s] : x.host \in B
  BY DEF HostsEmMaos
<1>9. UmaSondaPorHost <=>
         /\ v.naFila = {cx.host : cx \in Range(todos)}
         /\ Cardinality(v.naFila) = Len(f) + Cardinality(emMaos)
         /\ \A h \in v.naFila : v.sabido[h] = "desconhecido"
  BY DEF UmaSondaPorHost
<1>. HIDE DEF v, f, A, B, todos
\* The cards of the queue, one by one, are its hosts.
<1>10. IsFiniteSet(A) /\ Cardinality(A) = Len(f)
  <2>. DEFINE g == [i \in 1..Len(f) |-> f[i].host]
  <2>1. \A i \in 1..Len(f) : g[i] \in A
    BY <1>3
  <2>2. \A h \in A : \E i \in 1..Len(f) : g[i] = h
    BY <1>3
  <2>3. \A i, j \in 1..Len(f) : g[i] = g[j] => i = j
    BY <1>1
  <2>4. g \in [1..Len(f) -> A]
    BY <2>1
  <2>. HIDE DEF g
  <2>5. g \in Bijection(1..Len(f), A)
    BY <2>2, <2>3, <2>4 DEF Bijection, Injection, Surjection, IsInjective
  <2>6. IsFiniteSet(1..Len(f)) /\ Cardinality(1..Len(f)) = Len(f)
    BY <1>2, FS_Interval
  <2>7. ExistsBijection(1..Len(f), A)
    BY <2>5, Zenon DEF ExistsBijection
  <2>. QED BY <2>6, <2>7, FS_Bijection
\* The workers at work, one by one, are the hosts in their hands.
<1>11. IsFiniteSet(B) /\ Cardinality(B) = Cardinality(emMaos)
  <2>. DEFINE De(s) == (CHOOSE x \in v.sonda[s] : TRUE).host
              g == [s \in emMaos |-> De(s)]
  <2>1. \A s \in emMaos : (CHOOSE x \in v.sonda[s] : TRUE) \in v.sonda[s]
    BY <1>6
  <2>2. \A s \in emMaos : g[s] \in B
    BY <1>8, <2>1
  <2>3. ASSUME NEW h \in B PROVE \E s \in emMaos : g[s] = h
    <3>1. PICK s \in emMaos : \E x \in v.sonda[s] : x.host = h
      BY <1>7
    <3>2. PICK x \in v.sonda[s] : x.host = h
      BY <3>1
    <3>3. (CHOOSE y \in v.sonda[s] : TRUE) = x
      <4>. DEFINE y == CHOOSE y \in v.sonda[s] : TRUE
      <4>1. y \in v.sonda[s]
        BY <2>1
      <4>. HIDE DEF y
      <4>2. y = x
        BY <1>1, <1>5, <4>1
      <4>. QED BY <4>2 DEF y
    <3>. QED BY <3>2, <3>3
  <2>4. ASSUME NEW s \in emMaos, NEW t \in emMaos, g[s] = g[t] PROVE s = t
    <3>. DEFINE x == CHOOSE x \in v.sonda[s] : TRUE
                y == CHOOSE y \in v.sonda[t] : TRUE
    <3>1. x \in v.sonda[s] /\ y \in v.sonda[t] /\ x.host = y.host
      BY <2>1, <2>4
    <3>. HIDE DEF x, y
    <3>2. s \in Sondadores /\ t \in Sondadores
      BY <1>5
    <3>. QED BY <1>1, <3>1, <3>2
  <2>5. g \in [emMaos -> B]
    BY <2>2
  <2>. HIDE DEF g
  <2>6. g \in Bijection(emMaos, B)
    BY <2>3, <2>4, <2>5 DEF Bijection, Injection, Surjection, IsInjective
  <2>. HIDE DEF emMaos
  <2>7. ExistsBijection(emMaos, B)
    BY <2>6, Zenon DEF ExistsBijection
  <2>. QED BY <1>5, <2>7, FS_Bijection
<1>12. A \cap B = {}
  <2>1. ASSUME NEW i \in 1..Len(f), NEW s \in emMaos, NEW x \in v.sonda[s]
        PROVE  f[i].host # x.host
    BY <1>1, <1>5
  <2>2. ASSUME NEW h \in A, h \in B PROVE FALSE
    <3>1. PICK i \in 1..Len(f) : f[i].host = h
      BY <1>3
    <3>2. PICK s \in emMaos : \E x \in v.sonda[s] : x.host = h
      BY <1>7, <2>2
    <3>3. PICK x \in v.sonda[s] : x.host = h
      BY <3>2
    <3>. QED BY <2>1, <3>1, <3>3
  <2>. QED BY <2>2
<1>13. Cardinality(v.naFila) = Len(f) + Cardinality(emMaos)
  <2>. HIDE DEF emMaos
  <2>1. Cardinality(A \cap B) = 0 /\ Len(f) \in Nat /\ Cardinality(emMaos) \in Nat
    BY <1>2, <1>5, <1>12, FS_EmptySet, FS_CardinalityType
  <2>2. Cardinality(A \union B) = Cardinality(A) + Cardinality(B) - Cardinality(A \cap B)
    BY <1>10, <1>11, FS_Union
  <2>. QED BY <1>1, <1>10, <1>11, <2>1, <2>2
\* The hosts of the queue and of the hands, in one sequence.
<1>14. v.naFila = {cx.host : cx \in Range(todos)}
  <2>. HIDE DEF M
  <2>. DEFINE q == SetToSeq(M)
  <2>1. /\ q \in Seq(Fichas) /\ Len(q) \in Nat /\ M = {q[i] : i \in 1..Len(q)}
    <3>1. /\ q \in Seq(M) /\ Len(q) = Cardinality(M) /\ Cardinality(M) \in Nat
          /\ M = {q[i] : i \in 1..Cardinality(M)}
      BY <1>5, SetEmSeq
    <3>2. q \in Seq(Fichas)
      <4>1. q \in [1..Len(q) -> M] /\ Len(q) \in Nat
        BY <3>1, LenProperties
      <4>2. q \in [1..Len(q) -> Fichas]
        BY <1>4, <4>1
      <4>. QED BY <4>1, <4>2, SeqDef
    <3>. QED BY <3>1, <3>2
  <2>2. todos = f \o q
    BY DEF todos
  <2>. HIDE DEF q
  <2>3. /\ todos \in Seq(Fichas) /\ Len(todos) = Len(f) + Len(q)
        /\ \A i \in 1..(Len(f) + Len(q)) : todos[i] = IF i <= Len(f) THEN f[i] ELSE q[i - Len(f)]
    BY <1>1, <2>1, <2>2, ConcatProperties
  <2>4. DOMAIN todos = 1..(Len(f) + Len(q))
    BY <2>3, LenProperties
  <2>5. Range(todos) = {todos[i] : i \in 1..(Len(f) + Len(q))}
    BY <2>4 DEF Range
  <2>6. ASSUME NEW i \in 1..(Len(f) + Len(q)) PROVE todos[i].host \in A \union B
    <3>1. CASE i <= Len(f)
      <4>1. i \in 1..Len(f) /\ todos[i] = f[i]
        BY <1>2, <2>1, <2>3, <3>1
      <4>2. f[i].host \in A
        BY <1>3, <4>1
      <4>. QED BY <4>1, <4>2
    <3>2. CASE ~(i <= Len(f))
      <4>. DEFINE k == i - Len(f)
      <4>1. k \in 1..Len(q) /\ todos[i] = q[k]
        BY <1>2, <2>1, <2>3, <3>2
      <4>. HIDE DEF k
      <4>2. q[k] \in M
        BY <2>1, <4>1
      <4>3. q[k].host \in B
        BY <1>4, <4>2
      <4>. QED BY <4>1, <4>3
    <3>. QED BY <3>1, <3>2
  <2>7. ASSUME NEW h \in A \union B
        PROVE  \E i \in 1..(Len(f) + Len(q)) : todos[i].host = h
    <3>1. CASE h \in A
      <4>1. PICK i \in 1..Len(f) : f[i].host = h
        BY <1>3, <3>1
      <4>2. i \in 1..(Len(f) + Len(q)) /\ i <= Len(f)
        BY <1>2, <2>1
      <4>3. todos[i] = f[i]
        BY <2>3, <4>2
      <4>. QED BY <4>1, <4>2, <4>3
    <3>2. CASE h \in B
      <4>1. PICK x \in M : x.host = h
        BY <1>4, <3>2
      <4>2. PICK k \in 1..Len(q) : q[k] = x
        BY <2>1
      <4>. DEFINE i == k + Len(f)
      <4>3. i \in 1..(Len(f) + Len(q)) /\ ~(i <= Len(f)) /\ i - Len(f) = k
        BY <1>2, <2>1
      <4>. HIDE DEF i
      <4>4. todos[i] = q[k]
        BY <2>3, <4>3
      <4>. QED BY <4>1, <4>2, <4>3, <4>4
    <3>. QED BY <3>1, <3>2
  <2>8. {cx.host : cx \in Range(todos)} \subseteq A \union B
    <3>1. ASSUME NEW cx \in Range(todos) PROVE cx.host \in A \union B
      <4>1. PICK i \in 1..(Len(f) + Len(q)) : cx = todos[i]
        BY <2>5
      <4>. QED BY <2>6, <4>1
    <3>. QED BY <3>1
  <2>9. A \union B \subseteq {cx.host : cx \in Range(todos)}
    <3>1. ASSUME NEW h \in A \union B PROVE \E cx \in Range(todos) : cx.host = h
      BY <2>5, <2>7
    <3>. QED BY <3>1
  <2>. QED BY <1>1, <2>8, <2>9
<1>. QED BY <1>1, <1>9, <1>13, <1>14

LEMMA InvBastaPa == InvPa => TiposPa /\ PainelCerto
<1>. SUFFICES ASSUME InvPa PROVE TiposPa /\ PainelCerto
  OBVIOUS
<1>1. TiposPa
  BY DEF InvPa, TelaBoa, VidaBoa, TelasPa, VidasPa, EscolhasPa, UsosPa, TiposPa
<1>2. AbreOQueTem
  BY DEF InvPa, TelaBoa, AbreOQueTem
<1>. QED BY <1>1, <1>2, ContaHosts DEF PainelCerto

\* The panel: a host is asked about once at a time and by one worker, and what
\* opens is a protocol the machine has.
THEOREM PainelSempreCerto == InitPa /\ [][NextPa]_varsPa => [](TiposPa /\ PainelCerto)
BY InicioPa, PassoPa, InvBastaPa, PTL

-----------------------------------------------------------------------------
(* The search box.                                                         *)

CaixasBu == [viva : BOOLEAN, fase : {"topo", "espera"}, arq : {<<>>, NoDisco},
             focou : BOOLEAN, campo : Textos \union {SemTexto},
             termo : Textos \union {SemTexto}, achados : Seq(MaquinasBu), sel : Nat,
             total : Nat, rasc : BOOLEAN, linhas : Nat, escolhendo : BOOLEAN,
             fechar : BOOLEAN, acoes : Seq(Pedidos), prazo : BOOLEAN,
             token : {"nenhum", "pedido", "veio"}, enviou : Nat]

\* What a queue of closures holds: no choice; one choice; and choices that the
\* machine serves.
SoSinais(s) == \A i \in 1..Len(s) : s[i].tipo # "abrir"
UmAbrir(s) == \E k \in 1..Len(s) :
                 s[k].tipo = "abrir" /\ \A j \in 1..Len(s) : s[j].tipo = "abrir" => j = k
Serve1(a) == a.tipo = "abrir" => TemBu(a.cx, a.p)
Servidos(s) == \A i \in 1..Len(s) : Serve1(s[i])

\* A choice that was made waits in the queue or was sent, once.
Conta(c) ==
  IF c.escolhendo THEN \/ c.enviou = 1 /\ SoSinais(c.acoes)
                       \/ c.enviou = 0 /\ UmAbrir(c.acoes)
                  ELSE c.enviou = 0 /\ SoSinais(c.acoes)

\* The card of a destination has a text, and an empty field was never searched.
TextoBom(c) == /\ c.rasc => c.termo \in Textos
               /\ c.campo = SemTexto => c.termo = SemTexto
SelBoa(c) == c.sel = 0 \/ c.sel < LinhasBu(c)

\* The box in the middle of a frame, and between two frames.
MeiaBoa(c) == /\ c \in CaixasBu /\ Conta(c) /\ TextoBom(c) /\ SelBoa(c) /\ Servidos(c.acoes)
CaixaBoa(c) == /\ MeiaBoa(c) /\ c.linhas = LinhasBu(c)
               /\ c.fase = "espera" \/ ~c.viva => SoSinais(c.acoes)

PrincipaisBu == [arq : SUBSET MaquinasBu, pergunta : SUBSET Pedidos,
                 abertas : SUBSET Pedidos, frente : BOOLEAN]
UsosBu == [caixas : 0..MaxCaixas, entradas : 0..MaxEntradas, enter : 0..MaxEnter]

InvBu == /\ CaixaBoa(caixaBu)
         /\ filaBu \in Seq(Pedidos) /\ Servidos(filaBu)
         /\ principalBu \in PrincipaisBu /\ usoBu \in UsosBu
         /\ \A a \in principalBu.pergunta \union principalBu.abertas : TemBu(a.cx, a.p)

-----------------------------------------------------------------------------
(* What it finds and what it sends.                                        *)

\* A set of numbers that is not empty has a least one.
LEMMA MenorDeles ==
  ASSUME NEW T \in SUBSET Nat, T # {}
  PROVE  Min(T) \in T
<1>. DEFINE R == OpToRel(<, Nat)
<1>1. IsWellFoundedOn(R, Nat)
  BY NatLessThanWellFounded
<1>2. \A x, y \in Nat : x < y => <<x, y>> \in R
  BY DEF OpToRel
<1>. HIDE DEF R
<1>3. PICK x \in T : \A y \in T : ~(<<y, x>> \in R)
  BY <1>1, WFMin, Zenon
<1>4. \A y \in T : ~(y < x)
  BY <1>2, <1>3
<1>5. \E z \in T : \A y \in T : z <= y
  BY <1>3, <1>4
<1>. QED BY <1>5, Zenon DEF Min

LEMMA OsProtosBu ==
  /\ Range(ProtosBu) = {"vnc", "ssh", "rdp", "sftp"} /\ DOMAIN ProtosBu = 1..4
  /\ \A i \in 1..4 : ProtosBu[i] \in Range(ProtosBu)
<1>1. DOMAIN ProtosBu = 1..4
  BY DEF ProtosBu
<1>2. /\ ProtosBu[1] = "vnc" /\ ProtosBu[2] = "ssh" /\ ProtosBu[3] = "rdp"
      /\ ProtosBu[4] = "sftp"
  BY DEF ProtosBu
<1>3. Range(ProtosBu) = {ProtosBu[i] : i \in 1..4}
  BY <1>1 DEF Range
<1>4. \A i \in 1..4 : i \in {1, 2, 3, 4}
  OBVIOUS
<1>5. 1 \in 1..4 /\ 2 \in 1..4 /\ 3 \in 1..4 /\ 4 \in 1..4
  OBVIOUS
<1>. QED BY <1>1, <1>2, <1>3, <1>4, <1>5

LEMMA PreferidoTem ==
  ASSUME NEW cx
  PROVE  /\ ProtocoloPreferido(cx) \subseteq Range(ProtosBu)
         /\ \A p \in ProtocoloPreferido(cx) : TemBu(cx, p)
<1>. DEFINE tem == {i \in DOMAIN ProtosBu : ProtosBu[i] # "sftp" /\ TemBu(cx, ProtosBu[i])}
<1>1. CASE tem = {}
  BY <1>1 DEF ProtocoloPreferido
<1>2. CASE tem # {}
  <2>1. ProtocoloPreferido(cx) = {ProtosBu[Min(tem)]}
    BY <1>2 DEF ProtocoloPreferido
  <2>2. tem \in SUBSET Nat
    BY OsProtosBu
  <2>3. Min(tem) \in tem
    <3>. HIDE DEF tem
    <3>. QED BY <1>2, <2>2, MenorDeles
  <2>4. Min(tem) \in 1..4 /\ TemBu(cx, ProtosBu[Min(tem)])
    BY <2>3, OsProtosBu
  <2>. QED BY <2>1, <2>4, OsProtosBu
<1>. QED BY <1>1, <1>2

\* The machines that match are machines of the file.
LEMMA CasamMaquinas ==
  ASSUME NEW s \in Seq(MaquinasBu), NEW casa
  PROVE  Casam(s, casa) \in Seq(MaquinasBu)
<1>. DEFINE quantas(n) == Cardinality({j \in 1..n : s[j] \in casa})
            lugar(k) == {n \in 1..Len(s) : quantas(n) >= k}
            N == quantas(Len(s))
            f == [k \in 1..N |-> s[Min(lugar(k))]]
<1>1. Casam(s, casa) = f
  BY DEF Casam
<1>2. Len(s) \in Nat /\ \A i \in 1..Len(s) : s[i] \in MaquinasBu
  BY LenProperties, ElementOfSeq
<1>3. N \in Nat /\ (Len(s) = 0 => N = 0)
  <2>. DEFINE J == {j \in 1..Len(s) : s[j] \in casa}
  <2>1. IsFiniteSet(1..Len(s)) /\ J \subseteq 1..Len(s)
    BY <1>2, FS_Interval
  <2>2. IsFiniteSet(J) /\ (Len(s) = 0 => J = {})
    <3>1. IsFiniteSet(J)
      <4>. HIDE DEF J
      <4>. QED BY <2>1, FS_Subset
    <3>2. Len(s) = 0 => J = {}
      OBVIOUS
    <3>. QED BY <3>1, <3>2
  <2>. HIDE DEF J
  <2>3. Cardinality(J) \in Nat /\ (J = {} => Cardinality(J) = 0)
    BY <2>2, FS_CardinalityType, FS_EmptySet
  <2>4. N = Cardinality(J)
    BY DEF J
  <2>. QED BY <2>2, <2>3, <2>4
<1>4. ASSUME NEW k \in 1..N PROVE f[k] \in MaquinasBu
  <2>1. Len(s) \in lugar(k)
    <3>1. Len(s) \in 1..Len(s)
      BY <1>2, <1>3
    <3>2. quantas(Len(s)) >= k
      BY <1>3
    <3>. QED BY <3>1, <3>2
  <2>2. lugar(k) \in SUBSET Nat /\ lugar(k) \subseteq 1..Len(s)
    BY <1>2
  <2>. DEFINE L == lugar(k)
  <2>3. f[k] = s[Min(L)]
    OBVIOUS
  <2>. HIDE DEF L, f
  <2>4. Min(L) \in L
    BY <2>1, <2>2, MenorDeles DEF L
  <2>5. Min(L) \in 1..Len(s)
    BY <2>2, <2>4 DEF L
  <2>. QED BY <1>2, <2>3, <2>5
<1>5. f \in [1..N -> MaquinasBu]
  <2>1. f = [k \in 1..N |-> f[k]]
    OBVIOUS
  <2>. HIDE DEF f, N
  <2>. QED BY <1>4, <2>1
<1>. HIDE DEF f, N
<1>. QED BY <1>1, <1>3, <1>5, SeqDef

\* A closure at the end of the queue, and the queue without its first.
LEMMA PoeNaFila ==
  ASSUME NEW s \in Seq(Pedidos), NEW e \in Pedidos
  PROVE  /\ Append(s, e) \in Seq(Pedidos)
         /\ e.tipo # "abrir" /\ SoSinais(s) => SoSinais(Append(s, e))
         /\ e.tipo # "abrir" /\ UmAbrir(s) => UmAbrir(Append(s, e))
         /\ e.tipo = "abrir" /\ SoSinais(s) => UmAbrir(Append(s, e))
         /\ Serve1(e) /\ Servidos(s) => Servidos(Append(s, e))
<1>. DEFINE t == Append(s, e)
<1>1. /\ t \in Seq(Pedidos) /\ Len(s) \in Nat /\ Len(t) = Len(s) + 1
      /\ \A i \in 1..Len(s) : t[i] = s[i]
      /\ t[Len(t)] = e
  BY AppendProperties, LenProperties
<1>. HIDE DEF t
<1>2. /\ \A i \in 1..Len(t) : i \in 1..Len(s) \/ i = Len(t)
      /\ \A i \in 1..Len(s) : i \in 1..Len(t) /\ i # Len(t)
      /\ Len(t) \in 1..Len(t)
  BY <1>1
<1>3. ASSUME NEW i \in 1..Len(t) PROVE (i \in 1..Len(s) /\ t[i] = s[i]) \/ (i = Len(t) /\ t[i] = e)
  BY <1>1, <1>2
<1>4. e.tipo # "abrir" /\ SoSinais(s) => SoSinais(t)
  BY <1>3 DEF SoSinais
<1>5. ASSUME e.tipo # "abrir", UmAbrir(s) PROVE UmAbrir(t)
  <2>1. PICK k \in 1..Len(s) :
          s[k].tipo = "abrir" /\ \A j \in 1..Len(s) : s[j].tipo = "abrir" => j = k
    BY <1>5 DEF UmAbrir
  <2>2. k \in 1..Len(t) /\ t[k] = s[k]
    BY <1>1, <1>2
  <2>3. ASSUME NEW j \in 1..Len(t), t[j].tipo = "abrir" PROVE j = k
    <3>1. j \in 1..Len(s) /\ t[j] = s[j]
      BY <1>3, <1>5, <2>3
    <3>. QED BY <2>1, <2>3, <3>1
  <2>4. t[k].tipo = "abrir"
    BY <2>1, <2>2
  <2>. QED BY <2>2, <2>3, <2>4 DEF UmAbrir
<1>6. ASSUME e.tipo = "abrir", SoSinais(s) PROVE UmAbrir(t)
  <2>1. ASSUME NEW j \in 1..Len(t), t[j].tipo = "abrir" PROVE j = Len(t)
    <3>1. CASE j \in 1..Len(s) /\ t[j] = s[j]
      BY <1>6, <2>1, <3>1 DEF SoSinais
    <3>. QED BY <1>3, <3>1
  <2>2. t[Len(t)].tipo = "abrir"
    BY <1>1, <1>6
  <2>. QED BY <1>2, <2>1, <2>2 DEF UmAbrir
<1>7. Serve1(e) /\ Servidos(s) => Servidos(t)
  BY <1>3 DEF Servidos
<1>. QED BY <1>1, <1>4, <1>5, <1>6, <1>7 DEF t

LEMMA TiraDaFila ==
  ASSUME NEW s \in Seq(Pedidos), s # <<>>
  PROVE  /\ Head(s) \in Pedidos /\ Tail(s) \in Seq(Pedidos)
         /\ SoSinais(s) => SoSinais(Tail(s)) /\ Head(s).tipo # "abrir"
         /\ UmAbrir(s) => IF Head(s).tipo = "abrir" THEN SoSinais(Tail(s)) ELSE UmAbrir(Tail(s))
         /\ Servidos(s) => Servidos(Tail(s)) /\ Serve1(Head(s))
<1>. DEFINE t == Tail(s)
            h == Head(s)
<1>1. /\ t \in Seq(Pedidos) /\ h \in Pedidos /\ Len(s) \in Nat /\ Len(s) >= 1
      /\ Len(t) = Len(s) - 1 /\ h = s[1] /\ \A i \in 1..Len(t) : t[i] = s[i + 1]
  <2>1. Len(s) \in Nat /\ Len(s) # 0
    BY LenProperties, EmptySeq
  <2>2. s[1] \in Pedidos
    <3>1. 1 \in 1..Len(s)
      BY <2>1
    <3>. QED BY <3>1, ElementOfSeq
  <2>. QED BY <2>1, <2>2, HeadTailProperties
<1>. HIDE DEF t, h
<1>2. /\ \A i \in 1..Len(t) : i + 1 \in 1..Len(s) /\ i + 1 # 1
      /\ \A i \in 1..Len(s) : i = 1 \/ (\E j \in 1..Len(t) : j + 1 = i)
      /\ 1 \in 1..Len(s)
  <2>1. ASSUME NEW i \in 1..Len(s), i # 1 PROVE \E j \in 1..Len(t) : j + 1 = i
    <3>1. i - 1 \in 1..Len(t) /\ (i - 1) + 1 = i
      BY <1>1, <2>1
    <3>. QED BY <3>1
  <2>. QED BY <1>1, <2>1
<1>3. ASSUME NEW i \in 1..Len(t) PROVE \E k \in 1..Len(s) : k # 1 /\ k = i + 1 /\ t[i] = s[k]
  BY <1>1, <1>2
<1>4. SoSinais(s) => SoSinais(t) /\ h.tipo # "abrir"
  BY <1>1, <1>2, <1>3 DEF SoSinais
<1>5. ASSUME UmAbrir(s), h.tipo = "abrir" PROVE SoSinais(t)
  <2>1. PICK k \in 1..Len(s) :
          s[k].tipo = "abrir" /\ \A j \in 1..Len(s) : s[j].tipo = "abrir" => j = k
    BY <1>5 DEF UmAbrir
  <2>2. k = 1
    BY <1>1, <1>2, <1>5, <2>1
  <2>3. ASSUME NEW i \in 1..Len(t), t[i].tipo = "abrir" PROVE FALSE
    <3>1. PICK l \in 1..Len(s) : l # 1 /\ t[i] = s[l]
      BY <1>3
    <3>. QED BY <2>1, <2>2, <2>3, <3>1
  <2>. QED BY <2>3 DEF SoSinais
<1>6. ASSUME UmAbrir(s), h.tipo # "abrir" PROVE UmAbrir(t)
  <2>1. PICK k \in 1..Len(s) :
          s[k].tipo = "abrir" /\ \A j \in 1..Len(s) : s[j].tipo = "abrir" => j = k
    BY <1>6 DEF UmAbrir
  <2>2. k # 1
    BY <1>1, <1>6, <2>1
  <2>3. PICK m \in 1..Len(t) : m + 1 = k
    BY <1>2, <2>2
  <2>4. t[m] = s[k]
    BY <1>1, <2>3
  <2>5. ASSUME NEW j \in 1..Len(t), t[j].tipo = "abrir" PROVE j = m
    <3>1. PICK l \in 1..Len(s) : l = j + 1 /\ t[j] = s[l]
      BY <1>3
    <3>2. l = k
      BY <2>1, <2>5, <3>1
    <3>. QED BY <2>3, <3>1, <3>2
  <2>6. t[m].tipo = "abrir"
    BY <2>1, <2>4
  <2>. QED BY <2>5, <2>6 DEF UmAbrir
<1>7. Servidos(s) => Servidos(t) /\ Serve1(h)
  <2>1. ASSUME Servidos(s), NEW i \in 1..Len(t) PROVE Serve1(t[i])
    <3>1. PICK k \in 1..Len(s) : t[i] = s[k]
      BY <1>3
    <3>. QED BY <2>1, <3>1 DEF Servidos
  <2>2. Servidos(s) => Serve1(h)
    BY <1>1, <1>2 DEF Servidos
  <2>. QED BY <2>1, <2>2 DEF Servidos
<1>. QED BY <1>1, <1>4, <1>5, <1>6, <1>7 DEF t, h

LEMMA DoisNaFila ==
  ASSUME NEW s \in Seq(Pedidos), NEW r \in Seq(Pedidos), Servidos(s), Servidos(r)
  PROVE  s \o r \in Seq(Pedidos) /\ Servidos(s \o r)
<1>. DEFINE f == s \o r
<1>1. /\ f \in Seq(Pedidos) /\ Len(f) = Len(s) + Len(r) /\ Len(s) \in Nat /\ Len(r) \in Nat
      /\ \A i \in 1..(Len(s) + Len(r)) : f[i] = IF i <= Len(s) THEN s[i] ELSE r[i - Len(s)]
  BY ConcatProperties, LenProperties
<1>. HIDE DEF f
<1>2. ASSUME NEW i \in 1..Len(f) PROVE Serve1(f[i])
  <2>1. CASE i <= Len(s)
    <3>1. i \in 1..Len(s) /\ f[i] = s[i]
      BY <1>1, <2>1
    <3>. QED BY <3>1 DEF Servidos
  <2>2. CASE ~(i <= Len(s))
    <3>. DEFINE k == i - Len(s)
    <3>1. k \in 1..Len(r) /\ f[i] = r[k]
      BY <1>1, <2>2
    <3>. HIDE DEF k
    <3>. QED BY <3>1 DEF Servidos
  <2>. QED BY <2>1, <2>2
<1>. QED BY <1>1, <1>2 DEF Servidos, f

-----------------------------------------------------------------------------
(* What a frame does to the box.                                           *)

\* Fields of which the rest of a box does not depend.
LEMMA SelBu ==
  ASSUME NEW c, MeiaBoa(c), NEW n \in Nat, n = 0 \/ n < LinhasBu(c)
  PROVE  /\ MeiaBoa([c EXCEPT !.sel = n]) /\ LinhasBu([c EXCEPT !.sel = n]) = LinhasBu(c)
         /\ [c EXCEPT !.sel = n].linhas = c.linhas
<1>. DEFINE d == [c EXCEPT !.sel = n]
<1>1. /\ d \in CaixasBu /\ d.sel = n /\ d.escolhendo = c.escolhendo /\ d.enviou = c.enviou
      /\ d.acoes = c.acoes /\ d.rasc = c.rasc /\ d.termo = c.termo /\ d.campo = c.campo
      /\ d.achados = c.achados /\ d.linhas = c.linhas
  BY DEF MeiaBoa, CaixasBu
<1>. HIDE DEF d
<1>2. LinhasBu(d) = LinhasBu(c)
  BY <1>1 DEF LinhasBu
<1>3. MeiaBoa(d)
  BY <1>1, <1>2 DEF MeiaBoa, Conta, TextoBom, SelBoa
<1>. QED BY <1>1, <1>2, <1>3 DEF d

LEMMA LinhasNat ==
  ASSUME NEW c \in CaixasBu
  PROVE  LinhasBu(c) \in Nat /\ c.sel \in Nat /\ Len(c.achados) \in Nat
<1>1. c.achados \in Seq(MaquinasBu) /\ c.sel \in Nat
  BY DEF CaixasBu
<1>2. Len(c.achados) \in Nat
  BY <1>1, LenProperties
<1>. DEFINE n == Len(c.achados)
<1>3. LinhasBu(c) = n + (IF c.rasc THEN 1 ELSE 0)
  BY DEF LinhasBu
<1>4. n \in Nat
  BY <1>2
<1>. HIDE DEF n
<1>5. CASE c.rasc
  BY <1>1, <1>2, <1>3, <1>4, <1>5
<1>6. CASE ~c.rasc
  BY <1>1, <1>2, <1>3, <1>4, <1>6
<1>. QED BY <1>5, <1>6

LEMMA SetasBoa ==
  ASSUME NEW c, MeiaBoa(c), NEW seta
  PROVE  MeiaBoa(Setas(c, seta))
<1>. DEFINE n == IF seta = "sobe" /\ c.sel > 0 THEN c.sel - 1
                 ELSE IF seta = "desce" /\ c.sel < LinhasBu(c) - 1 THEN c.sel + 1 ELSE c.sel
<1>1. c \in CaixasBu /\ SelBoa(c)
  BY DEF MeiaBoa
<1>2. LinhasBu(c) \in Nat /\ c.sel \in Nat
  BY <1>1, LinhasNat
<1>3. n \in Nat /\ (n = 0 \/ n < LinhasBu(c))
  BY <1>1, <1>2 DEF SelBoa
<1>4. Setas(c, seta) = [c EXCEPT !.sel = n]
  BY DEF Setas
<1>. HIDE DEF n
<1>. QED BY <1>3, <1>4, SelBu

\* Typing: what the search shows stays until the list is made again.
LEMMA CampoBu ==
  ASSUME NEW c, MeiaBoa(c), NEW t \in Textos \union {c.campo}
  PROVE  MeiaBoa([c EXCEPT !.campo = t])
<1>. DEFINE d == [c EXCEPT !.campo = t]
<1>0. c.campo \in Textos \union {SemTexto}
  BY DEF MeiaBoa, CaixasBu
<1>1. /\ d \in CaixasBu /\ d.sel = c.sel /\ d.escolhendo = c.escolhendo /\ d.enviou = c.enviou
      /\ d.acoes = c.acoes /\ d.rasc = c.rasc /\ d.termo = c.termo /\ d.campo = t
      /\ d.achados = c.achados
  BY <1>0 DEF MeiaBoa, CaixasBu
<1>2. t = SemTexto => c.campo = SemTexto
  BY BuscaAssumption
<1>. HIDE DEF d
<1>3. LinhasBu(d) = LinhasBu(c)
  BY <1>1 DEF LinhasBu
<1>4. TextoBom(d)
  BY <1>1, <1>2 DEF MeiaBoa, TextoBom
<1>5. MeiaBoa(d)
  BY <1>1, <1>3, <1>4 DEF MeiaBoa, Conta, SelBoa
<1>. QED BY <1>5 DEF d

\* The machine of a row is one that can be asked for.
LEMMA ConexaoBoa ==
  ASSUME NEW c, MeiaBoa(c), NEW i \in Nat
  PROVE  ConexaoDa(c, i) \subseteq Alvos
<1>1. c.achados \in Seq(MaquinasBu) /\ Len(c.achados) \in Nat
  BY LinhasNat DEF MeiaBoa, CaixasBu
<1>2. CASE i < Len(c.achados)
  <2>1. i + 1 \in 1..Len(c.achados)
    BY <1>1, <1>2
  <2>2. c.achados[i + 1] \in MaquinasBu
    BY <1>1, <2>1, ElementOfSeq
  <2>3. ConexaoDa(c, i) = {Registrada(c.achados[i + 1])}
    BY <1>2 DEF ConexaoDa
  <2>. QED BY <2>2, <2>3 DEF Alvos
<1>3. CASE ~(i < Len(c.achados)) /\ c.rasc /\ i = Len(c.achados)
  <2>1. ConexaoDa(c, i) = {AlvoRascunho(c.termo)} /\ c.termo \in Textos
    BY <1>3 DEF ConexaoDa, MeiaBoa, TextoBom
  <2>. QED BY <2>1 DEF Alvos
<1>4. CASE ~(i < Len(c.achados)) /\ ~(c.rasc /\ i = Len(c.achados))
  BY <1>4 DEF ConexaoDa
<1>. QED BY <1>2, <1>3, <1>4

\* A choice: one closure more, of a protocol the machine has, and the only one.
LEMMA EscolherBoa ==
  ASSUME NEW c, MeiaBoa(c), NEW i \in Nat, NEW ps \in SUBSET Range(ProtosBu),
         \A cx \in ConexaoDa(c, i), p \in ps : TemBu(cx, p)
  PROVE  /\ MeiaBoa(Escolher(c, i, ps)) /\ LinhasBu(Escolher(c, i, ps)) = LinhasBu(c)
         /\ Escolher(c, i, ps).linhas = c.linhas
<1>. DEFINE cx == CHOOSE x \in ConexaoDa(c, i) : TRUE
            p == IF ps # {} THEN ps ELSE ProtocoloPreferido(cx)
            k == CHOOSE x \in p : TRUE
            e == UmPedido("abrir", cx, k)
            q == Append(c.acoes, e)
            d == [c EXCEPT !.escolhendo = TRUE, !.acoes = q]
<1>1. CASE ConexaoDa(c, i) = {} \/ c.escolhendo
  BY <1>1 DEF Escolher
<1>2. CASE ~(ConexaoDa(c, i) = {} \/ c.escolhendo) /\ p = {}
  BY <1>2 DEF Escolher
<1>3. CASE ~(ConexaoDa(c, i) = {} \/ c.escolhendo) /\ p # {}
  <2>1. Escolher(c, i, ps) = d
    BY <1>3 DEF Escolher
  <2>2. cx \in ConexaoDa(c, i) /\ cx \in Alvos
    BY <1>3, ConexaoBoa
  <2>. HIDE DEF cx
  <2>3. p \subseteq Range(ProtosBu) /\ \A x \in p : TemBu(cx, x)
    BY <2>2, PreferidoTem
  <2>4. k \in p
    <3>. HIDE DEF p
    <3>. QED BY <1>3
  <2>. HIDE DEF p, k
  <2>5. k \in Range(ProtosBu) /\ TemBu(cx, k)
    BY <2>3, <2>4
  <2>6. e \in Pedidos /\ e.tipo = "abrir" /\ Serve1(e)
    BY <2>2, <2>5 DEF UmPedido, Pedidos, Serve1
  <2>. HIDE DEF e
  <2>7. c.acoes \in Seq(Pedidos) /\ SoSinais(c.acoes) /\ Servidos(c.acoes) /\ c.enviou = 0
    BY <1>3 DEF MeiaBoa, CaixasBu, Conta
  <2>8. q \in Seq(Pedidos) /\ UmAbrir(q) /\ Servidos(q)
    BY <2>6, <2>7, PoeNaFila
  <2>. HIDE DEF q
  <2>9. /\ d \in CaixasBu /\ d.sel = c.sel /\ d.escolhendo = TRUE /\ d.enviou = c.enviou
        /\ d.acoes = q /\ d.rasc = c.rasc /\ d.termo = c.termo /\ d.campo = c.campo
        /\ d.achados = c.achados /\ d.linhas = c.linhas
    BY <2>8 DEF MeiaBoa, CaixasBu
  <2>. HIDE DEF d
  <2>10. LinhasBu(d) = LinhasBu(c)
    BY <2>9 DEF LinhasBu
  <2>11. Conta(d) /\ TextoBom(d) /\ SelBoa(d)
    BY <2>7, <2>8, <2>9, <2>10 DEF MeiaBoa, Conta, TextoBom, SelBoa
  <2>12. MeiaBoa(d)
    BY <2>8, <2>9, <2>11 DEF MeiaBoa
  <2>. QED BY <2>1, <2>9, <2>10, <2>12
<1>. QED BY <1>1, <1>2, <1>3

\* The list made again: the selection goes back to its top.
LEMMA BuscarBoa ==
  ASSUME NEW c, MeiaBoa(c)
  PROVE  MeiaBoa(Buscar(c))
<1>. DEFINE todos == Casam(c.arq, c.campo.casa)
            m == Min({Len(todos), MaxLinhasBu})
            a == SubSeq(todos, 1, m)
            r == EhDestinoPlausivel(c.campo, todos = <<>>)
            d == [c EXCEPT !.termo = c.campo, !.sel = 0, !.total = Len(todos),
                           !.achados = a, !.rasc = r]
<1>1. CASE c.campo = c.termo
  BY <1>1 DEF Buscar
<1>2. CASE c.campo # c.termo
  <2>1. Buscar(c) = d
    BY <1>2 DEF Buscar
  <2>2. c.arq \in Seq(MaquinasBu)
    <3>1. c.arq = <<>> \/ c.arq = NoDisco
      BY DEF MeiaBoa, CaixasBu
    <3>2. NoDisco \in Seq(MaquinasBu) /\ <<>> \in Seq(MaquinasBu)
      BY EmptySeq, BuscaAssumption
    <3>. QED BY <3>1, <3>2
  <2>3. todos \in Seq(MaquinasBu) /\ Len(todos) \in Nat
    BY <2>2, CasamMaquinas, LenProperties
  <2>. HIDE DEF todos
  <2>4. m \in Nat /\ m <= Len(todos)
    <3>. DEFINE n == Len(todos)
                D == {n, MaxLinhasBu}
    <3>1. n \in Nat /\ MaxLinhasBu \in Nat
      BY <2>3, BuscaAssumption
    <3>. HIDE DEF n
    <3>2. \E x \in D : \A y \in D : x <= y
      BY <3>1
    <3>3. Min(D) \in D /\ \A y \in D : Min(D) <= y
      <4>. HIDE DEF D
      <4>. QED BY <3>2 DEF Min
    <3>4. m = Min(D)
      BY DEF n
    <3>. HIDE DEF m
    <3>. QED BY <3>1, <3>3, <3>4 DEF n
  <2>. HIDE DEF m
  <2>5. a \in Seq(MaquinasBu)
    <3>1. \A i \in 1..m : todos[i] \in MaquinasBu
      <4>1. \A i \in 1..m : i \in 1..Len(todos)
        BY <2>3, <2>4
      <4>. QED BY <2>3, <4>1, ElementOfSeq
    <3>. QED BY <2>3, <2>4, <3>1, SubSeqProperties
  <2>. HIDE DEF a
  <2>6. c.campo \in Textos
    BY <1>2 DEF MeiaBoa, CaixasBu, TextoBom
  <2>7. r \in BOOLEAN
    BY DEF EhDestinoPlausivel
  <2>. HIDE DEF r
  <2>8. /\ d \in CaixasBu /\ d.sel = 0 /\ d.escolhendo = c.escolhendo /\ d.enviou = c.enviou
        /\ d.acoes = c.acoes /\ d.rasc = r /\ d.termo = c.campo /\ d.campo = c.campo
    BY <2>3, <2>5, <2>6, <2>7 DEF MeiaBoa, CaixasBu
  <2>. HIDE DEF d
  <2>9. Conta(d) /\ TextoBom(d) /\ SelBoa(d)
    BY <2>6, <2>8 DEF MeiaBoa, Conta, TextoBom, SelBoa
  <2>10. MeiaBoa(d)
    BY <2>8, <2>9 DEF MeiaBoa
  <2>. QED BY <2>1, <2>10
<1>. QED BY <1>1, <1>2

LEMMA AlturaBoa ==
  ASSUME NEW c, MeiaBoa(c)
  PROVE  MeiaBoa(AlturaDesejada(c)) /\ AlturaDesejada(c).linhas = LinhasBu(AlturaDesejada(c))
<1>. DEFINE n == LinhasBu(c)
            d == [c EXCEPT !.linhas = n]
<1>1. n \in Nat
  BY LinhasNat DEF MeiaBoa
<1>2. d = AlturaDesejada(c)
  BY DEF AlturaDesejada
<1>3. n = LinhasBu(c)
  OBVIOUS
<1>. HIDE DEF n
<1>4. /\ d \in CaixasBu /\ d.sel = c.sel /\ d.escolhendo = c.escolhendo /\ d.enviou = c.enviou
      /\ d.acoes = c.acoes /\ d.rasc = c.rasc /\ d.termo = c.termo /\ d.campo = c.campo
      /\ d.achados = c.achados /\ d.linhas = n
  BY <1>1 DEF MeiaBoa, CaixasBu
<1>. HIDE DEF d
<1>5. LinhasBu(d) = LinhasBu(c)
  BY <1>4 DEF LinhasBu
<1>6. MeiaBoa(d)
  BY <1>4, <1>5 DEF MeiaBoa, Conta, TextoBom, SelBoa
<1>. QED BY <1>2, <1>3, <1>4, <1>5, <1>6

LEMMA CliquesBoa ==
  ASSUME NEW c, MeiaBoa(c), c.linhas = LinhasBu(c), NEW i \in Nat,
         NEW icone \in SUBSET Range(ProtosBu)
  PROVE  MeiaBoa(Cliques(c, i, icone)) /\ Cliques(c, i, icone).linhas = LinhasBu(Cliques(c, i, icone))
<1>1. CASE i >= LinhasBu(c) \/ \E cx \in ConexaoDa(c, i), p \in icone : ~TemBu(cx, p)
  BY <1>1 DEF Cliques
<1>2. CASE ~(i >= LinhasBu(c) \/ \E cx \in ConexaoDa(c, i), p \in icone : ~TemBu(cx, p))
  <2>. DEFINE d == Escolher(c, i, icone)
  <2>1. Cliques(c, i, icone) = [d EXCEPT !.sel = i]
    BY <1>2 DEF Cliques
  <2>2. MeiaBoa(d) /\ LinhasBu(d) = LinhasBu(c) /\ d.linhas = c.linhas
    BY <1>2, EscolherBoa
  <2>3. i < LinhasBu(c)
    <3>1. LinhasBu(c) \in Nat
      BY LinhasNat DEF MeiaBoa
    <3>. QED BY <1>2, <3>1
  <2>. HIDE DEF d
  <2>. QED BY <2>1, <2>2, <2>3, SelBu
<1>. QED BY <1>1, <1>2

\* None of it closes the box.
LEMMA VivaIgual ==
  ASSUME NEW c \in CaixasBu
  PROVE  /\ \A seta : Setas(c, seta).viva = c.viva
         /\ \A t : [c EXCEPT !.campo = t].viva = c.viva
         /\ \A i, ps : Escolher(c, i, ps).viva = c.viva
         /\ Buscar(c).viva = c.viva /\ AlturaDesejada(c).viva = c.viva
         /\ \A i, icone : Escolher(c, i, icone) \in CaixasBu => Cliques(c, i, icone).viva = c.viva
<1>1. ASSUME NEW d \in CaixasBu, NEW n PROVE [d EXCEPT !.sel = n].viva = d.viva
  BY DEF CaixasBu
<1>2. \A t : [c EXCEPT !.campo = t].viva = c.viva
  BY DEF CaixasBu
<1>3. ASSUME NEW i, NEW ps PROVE Escolher(c, i, ps).viva = c.viva
  <2>1. \A q : [c EXCEPT !.escolhendo = TRUE, !.acoes = q].viva = c.viva
    BY DEF CaixasBu
  <2>2. Escolher(c, i, ps) = c \/ \E q : Escolher(c, i, ps) = [c EXCEPT !.escolhendo = TRUE, !.acoes = q]
    BY DEF Escolher
  <2>. QED BY <2>1, <2>2
<1>4. Buscar(c).viva = c.viva
  BY DEF Buscar, CaixasBu
<1>5. AlturaDesejada(c).viva = c.viva
  BY DEF AlturaDesejada, CaixasBu
<1>6. ASSUME NEW i, NEW icone, Escolher(c, i, icone) \in CaixasBu
      PROVE  Cliques(c, i, icone).viva = c.viva
  <2>1. Cliques(c, i, icone) = c \/ Cliques(c, i, icone) = [Escolher(c, i, icone) EXCEPT !.sel = i]
    BY DEF Cliques
  <2>2. Escolher(c, i, icone).viva = c.viva
    BY <1>3
  <2>. DEFINE d == Escolher(c, i, icone)
  <2>. HIDE DEF d
  <2>3. d \in CaixasBu /\ d.viva = c.viva
    BY <1>6, <2>2 DEF d
  <2>4. [d EXCEPT !.sel = i].viva = c.viva
    BY <1>1, <2>3
  <2>. QED BY <2>1, <2>4 DEF d
<1>7. \A seta : Setas(c, seta).viva = c.viva
  BY DEF Setas, CaixasBu
<1>. QED BY <1>2, <1>3, <1>4, <1>5, <1>6, <1>7

\* The box a frame leaves, as a function of the box it finds.
QuadroDe(c, seta, t, enter, i, icone) ==
  LET s == Setas(c, seta)
      d == IF enter THEN Escolher([s EXCEPT !.campo = t], s.sel, {}) ELSE [s EXCEPT !.campo = t]
      e == AlturaDesejada(Buscar(d))
  IN  IF i < 0 THEN e ELSE Cliques(e, i, icone)

\* A frame, from the keys of the field to the click, leaves a box that is right.
LEMMA QuadroBu ==
  ASSUME NEW c, MeiaBoa(c), NEW seta, NEW t \in Textos \union {c.campo}, NEW enter \in BOOLEAN,
         NEW i \in Int, NEW icone \in SUBSET Range(ProtosBu)
  PROVE  LET f == QuadroDe(c, seta, t, enter, i, icone)
         IN  MeiaBoa(f) /\ f.linhas = LinhasBu(f) /\ f.viva = c.viva
<1>. DEFINE s == Setas(c, seta)
            x == [s EXCEPT !.campo = t]
            d == IF enter THEN Escolher(x, s.sel, {}) ELSE x
            e == AlturaDesejada(Buscar(d))
            f == IF i < 0 THEN e ELSE Cliques(e, i, icone)
<1>1. MeiaBoa(s) /\ s.campo = c.campo /\ s.sel \in Nat /\ s.viva = c.viva
  <2>1. MeiaBoa(s)
    BY SetasBoa
  <2>2. s.campo = c.campo
    BY DEF Setas, MeiaBoa, CaixasBu
  <2>3. s.viva = c.viva
    BY VivaIgual DEF MeiaBoa
  <2>. HIDE DEF s
  <2>. QED BY <2>1, <2>2, <2>3 DEF MeiaBoa, CaixasBu
<1>. HIDE DEF s
<1>2. MeiaBoa(x) /\ x.viva = s.viva
  <2>1. MeiaBoa(x)
    BY <1>1, CampoBu
  <2>2. x.viva = s.viva
    BY <1>1, VivaIgual DEF MeiaBoa
  <2>. QED BY <2>1, <2>2
<1>. HIDE DEF x
<1>3. MeiaBoa(d) /\ d.viva = x.viva
  <2>1. {} \in SUBSET Range(ProtosBu) /\ \A cx \in ConexaoDa(x, s.sel), p \in {} : TemBu(cx, p)
    OBVIOUS
  <2>2. MeiaBoa(Escolher(x, s.sel, {}))
    BY <1>1, <1>2, <2>1, EscolherBoa
  <2>3. Escolher(x, s.sel, {}).viva = x.viva
    BY <1>2, VivaIgual DEF MeiaBoa
  <2>. QED BY <1>2, <2>2, <2>3
<1>. HIDE DEF d
<1>4. MeiaBoa(e) /\ e.linhas = LinhasBu(e) /\ e.viva = d.viva
  <2>1. MeiaBoa(Buscar(d))
    BY <1>3, BuscarBoa
  <2>. DEFINE b == Buscar(d)
  <2>. HIDE DEF b
  <2>2. MeiaBoa(b) /\ b.viva = d.viva
    <3>1. Buscar(d).viva = d.viva
      BY <1>3, VivaIgual DEF MeiaBoa
    <3>. QED BY <2>1, <3>1 DEF b
  <2>4. AlturaDesejada(b).viva = b.viva
    BY <2>2, VivaIgual DEF MeiaBoa
  <2>3. MeiaBoa(AlturaDesejada(b)) /\ AlturaDesejada(b).linhas = LinhasBu(AlturaDesejada(b))
    BY <2>2, AlturaBoa
  <2>. QED BY <2>2, <2>3, <2>4 DEF b
<1>. HIDE DEF e
<1>5. MeiaBoa(f) /\ f.linhas = LinhasBu(f) /\ f.viva = e.viva
  <2>1. CASE i < 0
    BY <1>4, <2>1
  <2>2. CASE ~(i < 0)
    <3>1. i \in Nat
      BY <2>2
    <3>2. MeiaBoa(Cliques(e, i, icone)) /\ Cliques(e, i, icone).linhas = LinhasBu(Cliques(e, i, icone))
      BY <1>4, <3>1, CliquesBoa
    <3>3. Cliques(e, i, icone).viva = e.viva
      <4>1. e.viva = Cliques(e, i, icone).viva \/ Escolher(e, i, icone) \in CaixasBu
        <5>1. CASE \E cx \in ConexaoDa(e, i), p \in icone : ~TemBu(cx, p)
          BY <5>1 DEF Cliques
        <5>2. CASE ~\E cx \in ConexaoDa(e, i), p \in icone : ~TemBu(cx, p)
          BY <1>4, <3>1, <5>2, EscolherBoa DEF MeiaBoa
        <5>. QED BY <5>1, <5>2
      <4>. QED BY <1>4, <4>1, VivaIgual DEF MeiaBoa
    <3>. QED BY <2>2, <3>2, <3>3
  <2>. QED BY <2>1, <2>2
<1>6. QuadroDe(c, seta, t, enter, i, icone) = f
  BY DEF QuadroDe, f, e, d, x, s
<1>. HIDE DEF f
<1>7. f.viva = c.viva
  BY <1>1, <1>2, <1>3, <1>4, <1>5
<1>. QED BY <1>5, <1>6, <1>7

\* Fields that say how the box goes, not what was chosen.
LEMMA OutrosBu ==
  ASSUME NEW c, NEW d, MeiaBoa(c), c.linhas = LinhasBu(c), d \in CaixasBu,
         d.sel = c.sel, d.escolhendo = c.escolhendo, d.enviou = c.enviou,
         d.acoes = c.acoes, d.rasc = c.rasc, d.termo = c.termo, d.campo = c.campo,
         d.achados = c.achados, d.linhas = c.linhas
  PROVE  MeiaBoa(d) /\ d.linhas = LinhasBu(d)
<1>1. LinhasBu(d) = LinhasBu(c)
  BY DEF LinhasBu
<1>. QED BY <1>1 DEF MeiaBoa, Conta, TextoBom, SelBoa

\* An event: after it the loop is at its top again.
LEMMA EventoBom ==
  ASSUME InvBu, NEW c, MeiaBoa(c), c.linhas = LinhasBu(c), c.viva = TRUE, Evento(c)
  PROVE  CaixaBoa(caixaBu') /\ filaBu' = filaBu /\ principalBu' = principalBu
<1>. DEFINE d == [c EXCEPT !.fase = "topo"]
<1>1. /\ d \in CaixasBu /\ d.sel = c.sel /\ d.escolhendo = c.escolhendo /\ d.enviou = c.enviou
      /\ d.acoes = c.acoes /\ d.rasc = c.rasc /\ d.termo = c.termo /\ d.campo = c.campo
      /\ d.achados = c.achados /\ d.linhas = c.linhas /\ d.fase = "topo" /\ d.viva = TRUE
  BY DEF MeiaBoa, CaixasBu
<1>2. caixaBu' = d /\ filaBu' = filaBu /\ principalBu' = principalBu
  BY DEF Evento
<1>. HIDE DEF d
<1>3. MeiaBoa(d) /\ d.linhas = LinhasBu(d)
  BY <1>1, OutrosBu
<1>. QED BY <1>1, <1>2, <1>3 DEF CaixaBoa

-----------------------------------------------------------------------------
(* The actions of the box.                                                 *)

LEMMA UsosBuBons ==
  ASSUME usoBu \in UsosBu
  PROVE  /\ usoBu.caixas < MaxCaixas => [usoBu EXCEPT !.caixas = @ + 1] \in UsosBu
         /\ usoBu.entradas < MaxEntradas => [usoBu EXCEPT !.entradas = @ + 1] \in UsosBu
         /\ usoBu.enter < MaxEnter => [usoBu EXCEPT !.enter = @ + 1] \in UsosBu
<1>1. /\ usoBu.caixas \in 0..MaxCaixas /\ usoBu.entradas \in 0..MaxEntradas
      /\ usoBu.enter \in 0..MaxEnter
  BY DEF UsosBu
<1>2. MaxCaixas \in Nat /\ MaxEntradas \in Nat /\ MaxEnter \in Nat
  BY BuscaAssumption
<1>. DEFINE a == usoBu.caixas + 1
            b == usoBu.entradas + 1
            c == usoBu.enter + 1
<1>3. /\ usoBu.caixas < MaxCaixas => a \in 0..MaxCaixas
      /\ usoBu.entradas < MaxEntradas => b \in 0..MaxEntradas
      /\ usoBu.enter < MaxEnter => c \in 0..MaxEnter
  BY <1>1, <1>2
<1>4. /\ [usoBu EXCEPT !.caixas = @ + 1] = [usoBu EXCEPT !.caixas = a]
      /\ [usoBu EXCEPT !.entradas = @ + 1] = [usoBu EXCEPT !.entradas = b]
      /\ [usoBu EXCEPT !.enter = @ + 1] = [usoBu EXCEPT !.enter = c]
  OBVIOUS
<1>. HIDE DEF a, b, c
<1>5. ASSUME usoBu.caixas < MaxCaixas PROVE [usoBu EXCEPT !.caixas = a] \in UsosBu
  BY <1>3, <1>5 DEF UsosBu
<1>6. ASSUME usoBu.entradas < MaxEntradas PROVE [usoBu EXCEPT !.entradas = b] \in UsosBu
  BY <1>3, <1>6 DEF UsosBu
<1>7. ASSUME usoBu.enter < MaxEnter PROVE [usoBu EXCEPT !.enter = c] \in UsosBu
  BY <1>3, <1>7 DEF UsosBu
<1>. QED BY <1>4, <1>5, <1>6, <1>7

\* The closures that are no choice.
LEMMA SinalBom ==
  ASSUME NEW tipo \in {"ativar", "prazo"}
  PROVE  Sinal0(tipo) \in Pedidos /\ Sinal0(tipo).tipo = tipo /\ Serve1(Sinal0(tipo))
<1>1. (CHOOSE n \in MaquinasBu : TRUE) \in MaquinasBu
  BY BuscaAssumption
<1>. DEFINE n == CHOOSE n \in MaquinasBu : TRUE
<1>2. Sinal0(tipo) = [tipo |-> tipo, cx |-> Registrada(n), p |-> "vnc"]
  BY DEF Sinal0, UmPedido
<1>. HIDE DEF n
<1>3. Registrada(n) \in Alvos /\ "vnc" \in Range(ProtosBu)
  BY <1>1, OsProtosBu DEF n, Alvos
<1>. QED BY <1>2, <1>3 DEF Pedidos, Serve1

\* Only the box moves.
LEMMA SoACaixa ==
  ASSUME InvBu, CaixaBoa(caixaBu'), filaBu' = filaBu, principalBu' = principalBu,
         usoBu' \in UsosBu
  PROVE  InvBu'
BY DEF InvBu

\* A box with nothing in it.
LEMMA BVazia ==
  ASSUME NEW d \in CaixasBu, d.sel = 0, d.escolhendo = FALSE, d.enviou = 0, d.acoes = <<>>,
         d.rasc = FALSE, d.termo = SemTexto, d.campo = SemTexto, d.achados = <<>>, d.linhas = 0
  PROVE  CaixaBoa(d)
<1>1. Len(<<>>) = 0 /\ 1..0 = {}
  BY EmptySeq
<1>2. LinhasBu(d) = 0
  BY <1>1 DEF LinhasBu
<1>3. SoSinais(d.acoes) /\ Servidos(d.acoes)
  BY <1>1 DEF SoSinais, Servidos
<1>4. Conta(d) /\ TextoBom(d) /\ SelBoa(d)
  BY <1>3 DEF Conta, TextoBom, SelBoa
<1>. QED BY <1>2, <1>3, <1>4 DEF CaixaBoa, MeiaBoa

LEMMA SemCaixaBoa ==
  /\ SemCaixa \in CaixasBu /\ SemCaixa.sel = 0 /\ SemCaixa.escolhendo = FALSE
  /\ SemCaixa.enviou = 0 /\ SemCaixa.acoes = <<>> /\ SemCaixa.rasc = FALSE
  /\ SemCaixa.termo = SemTexto /\ SemCaixa.campo = SemTexto /\ SemCaixa.achados = <<>>
  /\ SemCaixa.linhas = 0
<1>1. <<>> \in Seq(MaquinasBu) /\ <<>> \in Seq(Pedidos)
  BY EmptySeq
<1>. DEFINE T == Textos \union {SemTexto}
            P == Seq(Pedidos)
<1>2. SemTexto \in T /\ <<>> \in P
  BY <1>1
<1>3. CaixasBu = [viva : BOOLEAN, fase : {"topo", "espera"}, arq : {<<>>, NoDisco},
                  focou : BOOLEAN, campo : T, termo : T, achados : Seq(MaquinasBu), sel : Nat,
                  total : Nat, rasc : BOOLEAN, linhas : Nat, escolhendo : BOOLEAN,
                  fechar : BOOLEAN, acoes : P, prazo : BOOLEAN,
                  token : {"nenhum", "pedido", "veio"}, enviou : Nat]
  BY DEF CaixasBu
<1>. HIDE DEF T, P
<1>. QED BY <1>1, <1>2, <1>3 DEF SemCaixa

LEMMA BAbrirBusca == ASSUME InvBu, AbrirBusca PROVE InvBu'
<1>1. caixaBu' = [SemCaixa EXCEPT !.viva = TRUE, !.arq = NoDisco, !.prazo = TRUE]
  BY DEF AbrirBusca
<1>. DEFINE d == [SemCaixa EXCEPT !.viva = TRUE, !.arq = NoDisco, !.prazo = TRUE]
<1>4. /\ d \in CaixasBu /\ d.sel = 0 /\ d.escolhendo = FALSE /\ d.enviou = 0 /\ d.acoes = <<>>
      /\ d.rasc = FALSE /\ d.termo = SemTexto /\ d.campo = SemTexto /\ d.achados = <<>>
      /\ d.linhas = 0
  BY SemCaixaBoa DEF CaixasBu
<1>. HIDE DEF d
<1>2. CaixaBoa(caixaBu')
  BY <1>1, <1>4, BVazia DEF d
<1>3. usoBu' \in UsosBu /\ filaBu' = filaBu /\ principalBu' = principalBu
  BY UsosBuBons DEF AbrirBusca, InvBu
<1>. QED BY <1>2, <1>3, SoACaixa

\* One more closure that is no choice.
LEMMA BSinal ==
  ASSUME InvBu, NEW tipo \in {"ativar", "prazo"}, NEW d,
         d \in CaixasBu, d.sel = caixaBu.sel, d.escolhendo = caixaBu.escolhendo,
         d.enviou = caixaBu.enviou, d.acoes = Append(caixaBu.acoes, Sinal0(tipo)),
         d.rasc = caixaBu.rasc, d.termo = caixaBu.termo, d.campo = caixaBu.campo,
         d.achados = caixaBu.achados, d.linhas = caixaBu.linhas,
         d.fase = caixaBu.fase, d.viva = caixaBu.viva
  PROVE  CaixaBoa(d)
<1>. DEFINE s == caixaBu.acoes
            q == Append(s, Sinal0(tipo))
<1>1. CaixaBoa(caixaBu) /\ MeiaBoa(caixaBu) /\ s \in Seq(Pedidos) /\ Servidos(s)
  BY DEF InvBu, CaixaBoa, MeiaBoa, CaixasBu
<1>2. /\ SoSinais(s) => SoSinais(q)
      /\ UmAbrir(s) => UmAbrir(q)
      /\ Servidos(q)
  BY <1>1, PoeNaFila, SinalBom
<1>3. d.acoes = q
  OBVIOUS
<1>. HIDE DEF q
<1>4. Conta(d)
  BY <1>1, <1>2, <1>3 DEF MeiaBoa, Conta
<1>5. LinhasBu(d) = LinhasBu(caixaBu)
  BY DEF LinhasBu
<1>6. MeiaBoa(d)
  BY <1>1, <1>2, <1>3, <1>4, <1>5 DEF MeiaBoa, TextoBom, SelBoa
<1>. QED BY <1>1, <1>2, <1>3, <1>5, <1>6 DEF CaixaBoa

LEMMA BPrazoFoco == ASSUME InvBu, PrazoFoco PROVE InvBu'
<1>. DEFINE q == Append(caixaBu.acoes, Sinal0("prazo"))
            d == [caixaBu EXCEPT !.prazo = FALSE, !.acoes = q]
<1>1. caixaBu \in CaixasBu /\ caixaBu.acoes \in Seq(Pedidos)
  BY DEF InvBu, CaixaBoa, MeiaBoa, CaixasBu
<1>2. q \in Seq(Pedidos) /\ q = Append(caixaBu.acoes, Sinal0("prazo"))
  BY <1>1, PoeNaFila, SinalBom
<1>3. caixaBu' = d /\ filaBu' = filaBu /\ principalBu' = principalBu /\ usoBu' \in UsosBu
  BY DEF PrazoFoco, InvBu
<1>. HIDE DEF q
<1>4. /\ d \in CaixasBu /\ d.sel = caixaBu.sel /\ d.escolhendo = caixaBu.escolhendo
      /\ d.enviou = caixaBu.enviou /\ d.acoes = q
      /\ d.rasc = caixaBu.rasc /\ d.termo = caixaBu.termo /\ d.campo = caixaBu.campo
      /\ d.achados = caixaBu.achados /\ d.linhas = caixaBu.linhas
      /\ d.fase = caixaBu.fase /\ d.viva = caixaBu.viva
  BY <1>1, <1>2 DEF CaixasBu
<1>. HIDE DEF d
<1>5. CaixaBoa(d)
  BY <1>2, <1>4, BSinal
<1>. QED BY <1>3, <1>5, SoACaixa

LEMMA BTokenOuDesiste == ASSUME InvBu, TokenOuDesiste PROVE InvBu'
<1>. DEFINE q == Append(caixaBu.acoes, Sinal0("ativar"))
            d == [caixaBu EXCEPT !.token = "veio", !.acoes = q]
<1>1. caixaBu \in CaixasBu /\ caixaBu.acoes \in Seq(Pedidos)
  BY DEF InvBu, CaixaBoa, MeiaBoa, CaixasBu
<1>2. q \in Seq(Pedidos) /\ q = Append(caixaBu.acoes, Sinal0("ativar"))
  BY <1>1, PoeNaFila, SinalBom
<1>3. caixaBu' = d /\ filaBu' = filaBu /\ principalBu' = principalBu /\ usoBu' \in UsosBu
  BY DEF TokenOuDesiste, InvBu
<1>. HIDE DEF q
<1>4. /\ d \in CaixasBu /\ d.sel = caixaBu.sel /\ d.escolhendo = caixaBu.escolhendo
      /\ d.enviou = caixaBu.enviou /\ d.acoes = q
      /\ d.rasc = caixaBu.rasc /\ d.termo = caixaBu.termo /\ d.campo = caixaBu.campo
      /\ d.achados = caixaBu.achados /\ d.linhas = caixaBu.linhas
      /\ d.fase = caixaBu.fase /\ d.viva = caixaBu.viva
  BY <1>1, <1>2 DEF CaixasBu
<1>. HIDE DEF d
<1>5. CaixaBoa(d)
  BY <1>2, <1>4, BSinal
<1>. QED BY <1>3, <1>5, SoACaixa

\* The loop waits only when its queue is empty.
LEMMA BEsperarEvento == ASSUME InvBu, EsperarEvento PROVE InvBu'
<1>. DEFINE d == [caixaBu EXCEPT !.fase = "espera"]
<1>1. CaixaBoa(caixaBu) /\ MeiaBoa(caixaBu) /\ caixaBu \in CaixasBu /\ caixaBu.linhas = LinhasBu(caixaBu)
  BY DEF InvBu, CaixaBoa, MeiaBoa
<1>2. caixaBu' = d /\ filaBu' = filaBu /\ principalBu' = principalBu /\ usoBu' \in UsosBu
  BY DEF EsperarEvento, InvBu
<1>3. caixaBu.acoes = <<>>
  BY DEF EsperarEvento
<1>4. /\ d \in CaixasBu /\ d.sel = caixaBu.sel /\ d.escolhendo = caixaBu.escolhendo
      /\ d.enviou = caixaBu.enviou /\ d.acoes = caixaBu.acoes
      /\ d.rasc = caixaBu.rasc /\ d.termo = caixaBu.termo /\ d.campo = caixaBu.campo
      /\ d.achados = caixaBu.achados /\ d.linhas = caixaBu.linhas
  BY <1>1 DEF CaixasBu
<1>. HIDE DEF d
<1>5. MeiaBoa(d) /\ d.linhas = LinhasBu(d)
  BY <1>1, <1>4, OutrosBu
<1>6. SoSinais(<<>>)
  BY EmptySeq DEF SoSinais
<1>7. CaixaBoa(d)
  BY <1>3, <1>4, <1>5, <1>6 DEF CaixaBoa
<1>. QED BY <1>2, <1>7, SoACaixa

LEMMA BDestruida == ASSUME InvBu, Destruida PROVE InvBu'
<1>. DEFINE d == [caixaBu EXCEPT !.viva = FALSE]
<1>1. /\ CaixaBoa(caixaBu) /\ MeiaBoa(caixaBu) /\ caixaBu \in CaixasBu
      /\ caixaBu.linhas = LinhasBu(caixaBu)
  BY DEF InvBu, CaixaBoa, MeiaBoa
<1>2. caixaBu' = d /\ filaBu' = filaBu /\ principalBu' = principalBu /\ usoBu' \in UsosBu
  BY DEF Destruida, InvBu
<1>3. SoSinais(caixaBu.acoes)
  BY <1>1 DEF Destruida, CaixaBoa
<1>4. /\ d \in CaixasBu /\ d.sel = caixaBu.sel /\ d.escolhendo = caixaBu.escolhendo
      /\ d.enviou = caixaBu.enviou /\ d.acoes = caixaBu.acoes
      /\ d.rasc = caixaBu.rasc /\ d.termo = caixaBu.termo /\ d.campo = caixaBu.campo
      /\ d.achados = caixaBu.achados /\ d.linhas = caixaBu.linhas
  BY <1>1 DEF CaixasBu
<1>. HIDE DEF d
<1>5. MeiaBoa(d) /\ d.linhas = LinhasBu(d)
  BY <1>1, <1>4, OutrosBu
<1>7. CaixaBoa(d)
  BY <1>3, <1>4, <1>5 DEF CaixaBoa
<1>. QED BY <1>2, <1>7, SoACaixa

\* One closure of the queue of the box: a choice leaves for the main window.
LEMMA BDrenarBusca == ASSUME InvBu, DrenarBusca PROVE InvBu'
<1>. DEFINE s == caixaBu.acoes
            a == Head(s)
            r == Tail(s)
            b == [caixaBu EXCEPT !.acoes = r]
<1>1. /\ CaixaBoa(caixaBu) /\ MeiaBoa(caixaBu) /\ caixaBu \in CaixasBu /\ s \in Seq(Pedidos)
      /\ s # <<>> /\ caixaBu.viva = TRUE /\ caixaBu.fase = "topo" /\ Conta(caixaBu)
      /\ TextoBom(caixaBu) /\ SelBoa(caixaBu) /\ Servidos(s)
      /\ caixaBu.linhas = LinhasBu(caixaBu)
  BY DEF InvBu, CaixaBoa, MeiaBoa, CaixasBu, DrenarBusca
<1>2. PICK semToken \in BOOLEAN :
        /\ caixaBu' = Executar(b, a, semToken)
        /\ filaBu' = filaBu \o AvisarPrincipal(a, semToken)
  BY DEF DrenarBusca
<1>3. /\ a \in Pedidos /\ r \in Seq(Pedidos)
      /\ SoSinais(s) => SoSinais(r) /\ a.tipo # "abrir"
      /\ UmAbrir(s) => IF a.tipo = "abrir" THEN SoSinais(r) ELSE UmAbrir(r)
      /\ Servidos(r) /\ Serve1(a)
  BY <1>1, TiraDaFila
<1>4. s = caixaBu.acoes
  OBVIOUS
<1>. HIDE DEF s, a, r
<1>5. /\ b \in CaixasBu /\ b.sel = caixaBu.sel /\ b.escolhendo = caixaBu.escolhendo
      /\ b.enviou = caixaBu.enviou /\ b.acoes = r
      /\ b.rasc = caixaBu.rasc /\ b.termo = caixaBu.termo /\ b.campo = caixaBu.campo
      /\ b.achados = caixaBu.achados /\ b.linhas = caixaBu.linhas
      /\ b.fase = "topo" /\ b.viva = TRUE
  BY <1>1, <1>3 DEF CaixasBu
<1>. HIDE DEF b
<1>6. filaBu' \in Seq(Pedidos) /\ Servidos(filaBu')
  <2>. DEFINE m == AvisarPrincipal(a, semToken)
              n == Sinal0("ativar")
  <2>1. n \in Pedidos /\ Serve1(n)
    BY SinalBom
  <2>2. m = <<a>> \o (IF semToken THEN <<n>> ELSE <<>>) \/ m = <<a>> \/ m = <<>>
    BY DEF AvisarPrincipal
  <2>. HIDE DEF n
  <2>3. \A x \in Pedidos : Serve1(x) => <<x>> \in Seq(Pedidos) /\ Servidos(<<x>>)
    <3>1. ASSUME NEW x \in Pedidos, Serve1(x) PROVE <<x>> \in Seq(Pedidos) /\ Servidos(<<x>>)
      <4>1. <<x>> \in Seq(Pedidos) /\ Len(<<x>>) = 1 /\ <<x>>[1] = x
        OBVIOUS
      <4>2. \A i \in 1..1 : i = 1
        OBVIOUS
      <4>. QED BY <3>1, <4>1, <4>2 DEF Servidos
    <3>. QED BY <3>1
  <2>4. <<>> \in Seq(Pedidos) /\ Servidos(<<>>)
    BY EmptySeq DEF Servidos
  <2>5. \A t \in {<<n>>, <<>>} : <<a>> \o t \in Seq(Pedidos) /\ Servidos(<<a>> \o t)
    BY <1>3, <2>1, <2>3, <2>4, DoisNaFila
  <2>6. m \in Seq(Pedidos) /\ Servidos(m)
    <3>1. (IF semToken THEN <<n>> ELSE <<>>) \in {<<n>>, <<>>}
      OBVIOUS
    <3>. HIDE DEF m
    <3>. QED BY <1>3, <2>2, <2>3, <2>4, <2>5, <3>1
  <2>. HIDE DEF m
  <2>7. filaBu' = filaBu \o m
    BY <1>2 DEF m
  <2>. QED BY <2>6, <2>7, DoisNaFila DEF InvBu
<1>7. CaixaBoa(caixaBu')
  <2>. DEFINE e == Executar(b, a, semToken)
  <2>1. CASE a.tipo = "abrir"
    <3>. DEFINE tk == IF semToken THEN b.token ELSE "pedido"
                fe == b.fechar \/ semToken
                en == b.enviou + 1
                d == [b EXCEPT !.enviou = en, !.token = tk, !.fechar = fe]
    <3>1. e = d
      BY <2>1 DEF Executar
    <3>2. tk \in {"nenhum", "pedido", "veio"} /\ fe \in BOOLEAN /\ en \in Nat
      BY <1>5 DEF CaixasBu
    <3>3. caixaBu.escolhendo = TRUE /\ caixaBu.enviou = 0 /\ UmAbrir(s) /\ SoSinais(r)
      BY <1>1, <1>3, <1>4, <2>1 DEF Conta, CaixasBu
    <3>4. en = 1
      BY <1>5, <3>3
    <3>. HIDE DEF tk, fe, en, e
    <3>5. /\ d \in CaixasBu /\ d.sel = b.sel /\ d.escolhendo = b.escolhendo
          /\ d.enviou = en /\ d.acoes = b.acoes
          /\ d.rasc = b.rasc /\ d.termo = b.termo /\ d.campo = b.campo
          /\ d.achados = b.achados /\ d.linhas = b.linhas
          /\ d.fase = b.fase /\ d.viva = b.viva
      BY <1>5, <3>2 DEF CaixasBu
    <3>. HIDE DEF d
    <3>6. Conta(d)
      BY <1>5, <3>3, <3>4, <3>5 DEF Conta
    <3>7. LinhasBu(d) = LinhasBu(caixaBu)
      BY <1>5, <3>5 DEF LinhasBu
    <3>8. TextoBom(d) /\ SelBoa(d) /\ Servidos(d.acoes) /\ d.linhas = LinhasBu(d)
      BY <1>1, <1>3, <1>5, <3>5, <3>7 DEF TextoBom, SelBoa
    <3>9. CaixaBoa(d)
      BY <1>5, <3>5, <3>6, <3>8 DEF CaixaBoa, MeiaBoa
    <3>. QED BY <1>2, <3>1, <3>9 DEF e
  <2>2. CASE a.tipo # "abrir"
    <3>. DEFINE fe == IF a.tipo = "ativar" THEN TRUE ELSE b.fechar \/ ~b.focou
                d == [b EXCEPT !.fechar = fe]
    <3>1. e = d
      BY <2>2 DEF Executar
    <3>2. fe \in BOOLEAN
      BY <1>5 DEF CaixasBu
    <3>. HIDE DEF fe, e
    <3>5. /\ d \in CaixasBu /\ d.sel = b.sel /\ d.escolhendo = b.escolhendo
          /\ d.enviou = b.enviou /\ d.acoes = b.acoes
          /\ d.rasc = b.rasc /\ d.termo = b.termo /\ d.campo = b.campo
          /\ d.achados = b.achados /\ d.linhas = b.linhas
          /\ d.fase = b.fase /\ d.viva = b.viva
      BY <1>5, <3>2 DEF CaixasBu
    <3>. HIDE DEF d
    <3>6. Conta(d)
      BY <1>1, <1>3, <1>4, <1>5, <2>2, <3>5 DEF Conta
    <3>7. LinhasBu(d) = LinhasBu(caixaBu)
      BY <1>5, <3>5 DEF LinhasBu
    <3>8. TextoBom(d) /\ SelBoa(d) /\ Servidos(d.acoes) /\ d.linhas = LinhasBu(d)
      BY <1>1, <1>3, <1>5, <3>5, <3>7 DEF TextoBom, SelBoa
    <3>9. CaixaBoa(d)
      BY <1>5, <3>5, <3>6, <3>8 DEF CaixaBoa, MeiaBoa
    <3>. QED BY <1>2, <3>1, <3>9 DEF e
  <2>. QED BY <2>1, <2>2
<1>8. principalBu' = principalBu /\ usoBu' = usoBu
  BY DEF DrenarBusca
<1>. QED BY <1>6, <1>7, <1>8 DEF InvBu

\* The frames.
LEMMA BQuadroDaBusca ==
  ASSUME InvBu, NEW seta, NEW t \in Textos \union {caixaBu.campo}, NEW enter \in BOOLEAN,
         NEW i \in Int, NEW icone \in SUBSET Range(ProtosBu),
         QuadroDaBusca(seta, t, enter, i, icone)
  PROVE  InvBu'
<1>. DEFINE f == QuadroDe(caixaBu, seta, t, enter, i, icone)
<1>1. MeiaBoa(caixaBu)
  BY DEF InvBu, CaixaBoa
<1>2. MeiaBoa(f) /\ f.linhas = LinhasBu(f) /\ f.viva = caixaBu.viva
  BY <1>1, QuadroBu
<1>3. Evento(f) /\ usoBu' \in UsosBu
  <2>1. Evento(f)
    BY DEF QuadroDaBusca, QuadroDe
  <2>2. usoBu' \in UsosBu
    BY UsosBuBons DEF QuadroDaBusca, InvBu
  <2>. QED BY <2>1, <2>2
<1>. HIDE DEF f
<1>4. f.viva = TRUE
  BY <1>1, <1>2, <1>3 DEF Evento, MeiaBoa, CaixasBu
<1>5. CaixaBoa(caixaBu') /\ filaBu' = filaBu /\ principalBu' = principalBu
  BY <1>2, <1>3, <1>4, EventoBom
<1>. QED BY <1>3, <1>5, SoACaixa

\* Events that only move how the box goes: c says how.
LEMMA BEventos ==
  ASSUME InvBu, EscFecha \/ GanharFoco \/ PerderFoco \/ Acordada
  PROVE  InvBu'
<1>1. /\ MeiaBoa(caixaBu) /\ caixaBu.linhas = LinhasBu(caixaBu) /\ caixaBu \in CaixasBu
      /\ usoBu \in UsosBu
  BY DEF InvBu, CaixaBoa, MeiaBoa
<1>2. \E c \in {caixaBu, [caixaBu EXCEPT !.fechar = TRUE], [caixaBu EXCEPT !.focou = TRUE]} :
         Evento(c)
  BY DEF EscFecha, GanharFoco, PerderFoco, Acordada
<1>3. usoBu' \in UsosBu
  BY <1>1, UsosBuBons DEF EscFecha, GanharFoco, PerderFoco, Acordada
<1>4. PICK c \in {caixaBu, [caixaBu EXCEPT !.fechar = TRUE], [caixaBu EXCEPT !.focou = TRUE]} :
         Evento(c)
  BY <1>2
<1>5. /\ c \in CaixasBu /\ c.sel = caixaBu.sel /\ c.escolhendo = caixaBu.escolhendo
      /\ c.enviou = caixaBu.enviou /\ c.acoes = caixaBu.acoes
      /\ c.rasc = caixaBu.rasc /\ c.termo = caixaBu.termo /\ c.campo = caixaBu.campo
      /\ c.achados = caixaBu.achados /\ c.linhas = caixaBu.linhas /\ c.viva = caixaBu.viva
  BY <1>1 DEF CaixasBu
<1>6. MeiaBoa(c) /\ c.linhas = LinhasBu(c)
  BY <1>1, <1>5, OutrosBu
<1>7. c.viva = TRUE
  BY <1>1, <1>4, <1>5 DEF Evento, CaixasBu
<1>8. CaixaBoa(caixaBu') /\ filaBu' = filaBu /\ principalBu' = principalBu
  BY <1>4, <1>6, <1>7, EventoBom
<1>. QED BY <1>3, <1>8, SoACaixa

-----------------------------------------------------------------------------
(* The main window.                                                        *)

LEMMA BReceberEscolha == ASSUME InvBu, ReceberEscolha PROVE InvBu'
<1>. DEFINE a == Head(filaBu)
<1>1. filaBu \in Seq(Pedidos) /\ filaBu # <<>> /\ Servidos(filaBu) /\ a.tipo = "abrir"
      /\ principalBu \in PrincipaisBu /\ filaBu' = Tail(filaBu)
      /\ \A x \in principalBu.pergunta \union principalBu.abertas : TemBu(x.cx, x.p)
  BY DEF InvBu, ReceberEscolha
<1>2. a \in Pedidos /\ filaBu' \in Seq(Pedidos) /\ Servidos(filaBu') /\ Serve1(a)
  BY <1>1, TiraDaFila
<1>3. TemBu(a.cx, a.p)
  BY <1>1, <1>2 DEF Serve1
<1>4. PICK sobe \in BOOLEAN :
        principalBu' = IF ~a.cx.avulso /\ a.cx.nome \in principalBu.arq
                       THEN [principalBu EXCEPT !.abertas = @ \union {a}, !.frente = sobe]
                       ELSE [principalBu EXCEPT !.pergunta = {a}, !.frente = sobe]
  BY DEF ReceberEscolha
<1>. HIDE DEF a
<1>5. /\ principalBu' \in PrincipaisBu
      /\ \A x \in principalBu'.pergunta \union principalBu'.abertas : TemBu(x.cx, x.p)
  <2>1. CASE ~a.cx.avulso /\ a.cx.nome \in principalBu.arq
    <3>1. principalBu' = [principalBu EXCEPT !.abertas = @ \union {a}, !.frente = sobe]
      BY <1>4, <2>1
    <3>2. /\ principalBu' \in PrincipaisBu /\ principalBu'.pergunta = principalBu.pergunta
          /\ principalBu'.abertas = principalBu.abertas \union {a}
      BY <1>1, <1>2, <3>1 DEF PrincipaisBu
    <3>. QED BY <1>1, <1>3, <3>2
  <2>2. CASE ~(~a.cx.avulso /\ a.cx.nome \in principalBu.arq)
    <3>1. principalBu' = [principalBu EXCEPT !.pergunta = {a}, !.frente = sobe]
      BY <1>4, <2>2
    <3>2. /\ principalBu' \in PrincipaisBu /\ principalBu'.pergunta = {a}
          /\ principalBu'.abertas = principalBu.abertas
      BY <1>1, <1>2, <3>1 DEF PrincipaisBu
    <3>. QED BY <1>1, <1>3, <3>2
  <2>. QED BY <2>1, <2>2
<1>6. caixaBu' = caixaBu /\ usoBu' = usoBu
  BY DEF ReceberEscolha
<1>. QED BY <1>2, <1>5, <1>6 DEF InvBu

LEMMA BTrazerParaFrente == ASSUME InvBu, TrazerParaFrente PROVE InvBu'
<1>1. filaBu \in Seq(Pedidos) /\ filaBu # <<>> /\ Servidos(filaBu) /\ filaBu' = Tail(filaBu)
      /\ principalBu \in PrincipaisBu /\ principalBu' = [principalBu EXCEPT !.frente = TRUE]
  BY DEF InvBu, TrazerParaFrente
<1>2. filaBu' \in Seq(Pedidos) /\ Servidos(filaBu')
  BY <1>1, TiraDaFila
<1>3. /\ principalBu' \in PrincipaisBu /\ principalBu'.pergunta = principalBu.pergunta
      /\ principalBu'.abertas = principalBu.abertas
  BY <1>1 DEF PrincipaisBu
<1>4. caixaBu' = caixaBu /\ usoBu' = usoBu
  BY DEF TrazerParaFrente
<1>. QED BY <1>2, <1>3, <1>4 DEF InvBu

\* A question about one request the machine serves.
LEMMA PerguntaBoa ==
  ASSUME InvBu, NEW a \in Pedidos, TemBu(a.cx, a.p), usoBu' \in UsosBu,
         principalBu' = [principalBu EXCEPT !.pergunta = {a}],
         caixaBu' = caixaBu, filaBu' = filaBu
  PROVE  InvBu'
<1>1. /\ principalBu' \in PrincipaisBu /\ principalBu'.pergunta = {a}
      /\ principalBu'.abertas = principalBu.abertas
  BY DEF InvBu, PrincipaisBu
<1>2. \A x \in principalBu'.pergunta \union principalBu'.abertas : TemBu(x.cx, x.p)
  BY <1>1 DEF InvBu
<1>. QED BY <1>1, <1>2 DEF InvBu

LEMMA BAoEfemera == ASSUME InvBu, NEW t \in Textos, AoEfemera(t) PROVE InvBu'
<1>. DEFINE p == InterpretarAlvo(t)
            c == AlvoDireto(t)
            a == UmPedido("abrir", c, p)
<1>1. p \in Range(ProtosBu)
  <2>1. t.prefixo \in {""} \union Range(ProtosBu)
    BY BuscaAssumption
  <2>2. /\ t.prefixo # "" => p = t.prefixo
        /\ t.prefixo = "" => p \in {PelaPorta(t.porta), "ssh", "vnc"}
    BY DEF InterpretarAlvo
  <2>3. PelaPorta(t.porta) \in {"ssh", "rdp", "vnc"}
    BY DEF PelaPorta
  <2>. HIDE DEF p
  <2>. QED BY <2>1, <2>2, <2>3, OsProtosBu
<1>2. c \in Alvos /\ c.avulso = TRUE
  BY DEF Alvos, AlvoDireto
<1>3. usoBu' \in UsosBu /\ principalBu' = [principalBu EXCEPT !.pergunta = {a}]
      /\ caixaBu' = caixaBu /\ filaBu' = filaBu
  BY UsosBuBons DEF InvBu, AoEfemera
<1>. HIDE DEF p, c
<1>4. a \in Pedidos /\ TemBu(a.cx, a.p)
  BY <1>1, <1>2 DEF UmPedido, Pedidos, TemBu
<1>. HIDE DEF a
<1>. QED BY <1>3, <1>4, PerguntaBoa

LEMMA BCardRascunho ==
  ASSUME InvBu, NEW t \in Textos, NEW p \in Range(ProtosBu), CardRascunho(t, p) PROVE InvBu'
<1>. DEFINE c == AlvoRascunho(t)
            a == UmPedido("abrir", c, p)
<1>2. c \in Alvos /\ c.avulso = TRUE
  BY DEF Alvos, AlvoRascunho
<1>3. usoBu' \in UsosBu /\ principalBu' = [principalBu EXCEPT !.pergunta = {a}]
      /\ caixaBu' = caixaBu /\ filaBu' = filaBu
  BY UsosBuBons DEF InvBu, CardRascunho
<1>. HIDE DEF c
<1>4. a \in Pedidos /\ TemBu(a.cx, a.p)
  BY <1>2 DEF UmPedido, Pedidos, TemBu
<1>. HIDE DEF a
<1>. QED BY <1>3, <1>4, PerguntaBoa

LEMMA BResposta ==
  ASSUME InvBu, CancelarPergunta \/ \E u \in {"", "u"} : Confirmar(u) PROVE InvBu'
<1>1. /\ principalBu \in PrincipaisBu /\ caixaBu' = caixaBu /\ filaBu' = filaBu /\ usoBu' = usoBu
      /\ \A x \in principalBu.pergunta \union principalBu.abertas : TemBu(x.cx, x.p)
  BY DEF InvBu, CancelarPergunta, Confirmar
<1>2. \/ principalBu' = [principalBu EXCEPT !.pergunta = {}]
      \/ principalBu' = [principalBu EXCEPT !.abertas = @ \union principalBu.pergunta,
                                            !.pergunta = {}]
  BY DEF CancelarPergunta, Confirmar
<1>3. /\ principalBu' \in PrincipaisBu /\ principalBu'.pergunta = {}
      /\ \/ principalBu'.abertas = principalBu.abertas
         \/ principalBu'.abertas = principalBu.abertas \union principalBu.pergunta
  BY <1>1, <1>2 DEF PrincipaisBu
<1>4. \A x \in principalBu'.pergunta \union principalBu'.abertas : TemBu(x.cx, x.p)
  BY <1>1, <1>3
<1>. QED BY <1>1, <1>3, <1>4 DEF InvBu

-----------------------------------------------------------------------------
(* The box keeps what it has to.                                           *)

LEMMA InicioBu == InitBu => InvBu
<1>. SUFFICES ASSUME InitBu PROVE InvBu
  OBVIOUS
<1>1. CaixaBoa(caixaBu)
  BY SemCaixaBoa, BVazia DEF InitBu
<1>2. filaBu \in Seq(Pedidos) /\ Servidos(filaBu)
  BY EmptySeq DEF InitBu, Servidos
<1>3. usoBu \in UsosBu
  <2>1. MaxCaixas \in Nat /\ MaxEntradas \in Nat /\ MaxEnter \in Nat
    BY BuscaAssumption
  <2>2. 0 \in 0..MaxCaixas /\ 0 \in 0..MaxEntradas /\ 0 \in 0..MaxEnter
    BY <2>1
  <2>. QED BY <2>2 DEF InitBu, UsosBu
<1>4. principalBu \in PrincipaisBu /\ principalBu.pergunta = {} /\ principalBu.abertas = {}
  <2>1. Range(NoDisco) \subseteq MaquinasBu
    <3>1. NoDisco \in [1..Len(NoDisco) -> MaquinasBu]
      BY LenProperties, BuscaAssumption
    <3>. QED BY <3>1 DEF Range
  <2>2. (Range(NoDisco) \ {Last(NoDisco)}) \in SUBSET MaquinasBu
    BY <2>1
  <2>. DEFINE x == Range(NoDisco) \ {Last(NoDisco)}
  <2>3. principalBu = [arq |-> x, pergunta |-> {}, abertas |-> {}, frente |-> FALSE]
    BY DEF InitBu
  <2>. HIDE DEF x
  <2>4. x \in SUBSET MaquinasBu
    BY <2>2 DEF x
  <2>. QED BY <2>3, <2>4 DEF PrincipaisBu
<1>. QED BY <1>1, <1>2, <1>3, <1>4 DEF InvBu

LEMMA PassoBu == InvBu /\ [NextBu]_varsBu => InvBu'
<1>. SUFFICES ASSUME InvBu, [NextBu]_varsBu PROVE InvBu'
  OBVIOUS
<1>1. CASE AbrirBusca
  BY <1>1, BAbrirBusca
<1>2. CASE DrenarBusca
  BY <1>2, BDrenarBusca
<1>3. CASE EsperarEvento
  BY <1>3, BEsperarEvento
<1>4. ASSUME NEW t \in Textos, NEW enter \in BOOLEAN, QuadroDaBusca("nada", t, enter, -1, {})
      PROVE  InvBu'
  <2>1. -1 \in Int /\ {} \in SUBSET Range(ProtosBu)
    OBVIOUS
  <2>. QED BY <1>4, <2>1, BQuadroDaBusca
<1>5. ASSUME NEW seta \in {"sobe", "desce"}, QuadroDaBusca(seta, caixaBu.campo, FALSE, -1, {})
      PROVE  InvBu'
  <2>1. -1 \in Int /\ {} \in SUBSET Range(ProtosBu) /\ FALSE \in BOOLEAN
    OBVIOUS
  <2>. QED BY <1>5, <2>1, BQuadroDaBusca
<1>6. ASSUME NEW i \in 0..MaxLinhasBu, NEW icone \in {{}} \union {{p} : p \in Range(ProtosBu)},
             QuadroDaBusca("nada", caixaBu.campo, FALSE, i, icone)
      PROVE  InvBu'
  <2>1. i \in Int /\ icone \in SUBSET Range(ProtosBu) /\ FALSE \in BOOLEAN
    OBVIOUS
  <2>. QED BY <1>6, <2>1, BQuadroDaBusca
<1>7. CASE EscFecha \/ GanharFoco \/ PerderFoco \/ Acordada
  BY <1>7, BEventos
<1>8. CASE Destruida
  BY <1>8, BDestruida
<1>9. CASE PrazoFoco
  BY <1>9, BPrazoFoco
<1>10. CASE TokenOuDesiste
  BY <1>10, BTokenOuDesiste
<1>11. CASE ReceberEscolha
  BY <1>11, BReceberEscolha
<1>12. CASE TrazerParaFrente
  BY <1>12, BTrazerParaFrente
<1>13. ASSUME NEW t \in Textos, AoEfemera(t) \/ \E p \in Range(ProtosBu) : CardRascunho(t, p)
       PROVE  InvBu'
  BY <1>13, BAoEfemera, BCardRascunho
<1>14. CASE CancelarPergunta \/ \E u \in {"", "u"} : Confirmar(u)
  BY <1>14, BResposta
<1>15. CASE UNCHANGED varsBu
  <2>1. caixaBu' = caixaBu /\ filaBu' = filaBu /\ principalBu' = principalBu /\ usoBu' = usoBu
    BY <1>15 DEF varsBu
  <2>. QED BY <2>1 DEF InvBu
<1>. QED BY <1>1, <1>2, <1>3, <1>4, <1>5, <1>6, <1>7, <1>8, <1>9, <1>10, <1>11, <1>12, <1>13,
            <1>14, <1>15 DEF NextBu

\* The invariant says what the properties say: of a choice, one is sent or waits.
LEMMA InvBastaBu == InvBu => TiposBu /\ BuscaCerta
<1>. SUFFICES ASSUME InvBu PROVE TiposBu /\ BuscaCerta
  OBVIOUS
<1>. DEFINE c == caixaBu
            s == c.acoes
            K == {i \in 1..Len(s) : s[i].tipo = "abrir"}
<1>1. /\ c \in CaixasBu /\ Conta(c) /\ SelBoa(c) /\ c.linhas = LinhasBu(c)
      /\ ~c.viva => SoSinais(s)
  BY DEF InvBu, CaixaBoa, MeiaBoa
<1>2. TiposBu
  BY <1>1 DEF InvBu, CaixasBu, PrincipaisBu, UsosBu, TiposBu
<1>3. SoSinais(s) => Cardinality(K) = 0
  <2>1. SoSinais(s) => K = {}
    BY DEF SoSinais
  <2>. QED BY <2>1, FS_EmptySet
<1>4. UmAbrir(s) => Cardinality(K) = 1
  <2>1. ASSUME UmAbrir(s) PROVE \E k : K = {k}
    BY <2>1 DEF UmAbrir
  <2>. HIDE DEF K
  <2>. QED BY <2>1, FS_Singleton
<1>5. ~(UmAbrir(s) /\ SoSinais(s))
  BY DEF UmAbrir, SoSinais
<1>6. EscolhaUmaVez
  <2>1. EscolhaUmaVez <=> /\ c.enviou <= 1
                          /\ c.escolhendo => c.enviou + Cardinality(K) = 1
                          /\ ~c.viva /\ c.escolhendo => c.enviou = 1
    BY DEF EscolhaUmaVez
  <2>. HIDE DEF K, s, c
  <2>2. (c.enviou = 1 /\ SoSinais(s)) \/ (c.enviou = 0 /\ UmAbrir(s)) \/ (c.enviou = 0 /\ ~c.escolhendo)
    BY <1>1 DEF Conta, s
  <2>. QED BY <1>1, <1>3, <1>4, <1>5, <2>1, <2>2
<1>7. SelecaoNaLista
  <2>. DEFINE n == LinhasBu(c)
              D == {1, n}
  <2>1. n \in Nat /\ c.sel \in Nat
    BY <1>1, LinhasNat
  <2>2. c.sel = 0 \/ c.sel < n
    BY <1>1 DEF SelBoa
  <2>3. SelecaoNaLista <=> c.sel < Max({1, n}) /\ c.linhas = n
    BY DEF SelecaoNaLista
  <2>. HIDE DEF n, c
  <2>4. \E x \in D : \A y \in D : x >= y
    BY <2>1
  <2>5. Max(D) \in D /\ \A y \in D : Max(D) >= y
    <3>. HIDE DEF D
    <3>. QED BY <2>4 DEF Max
  <2>6. c.sel < Max(D)
    BY <2>1, <2>2, <2>5
  <2>7. c.linhas = n
    BY <1>1 DEF n
  <2>. QED BY <2>3, <2>6, <2>7
<1>8. AbreOQueTemBu
  BY DEF InvBu, AbreOQueTemBu
<1>. QED BY <1>2, <1>6, <1>7, <1>8 DEF BuscaCerta

\* The search box: a choice is sent once and never lost with the box, the row Enter
\* takes is on screen, and what opens is a protocol the machine has.
THEOREM BuscaSempreCerta == InitBu /\ [][NextBu]_varsBu => [](TiposBu /\ BuscaCerta)
BY InicioBu, PassoBu, InvBastaBu, PTL

-----------------------------------------------------------------------------
(* The three parts in one run.                                             *)

InvJanela == InvJa /\ InvPa /\ InvBu

\* A step of MCJanela is, for each part, a step of its own or no step.
LEMMA PassoDeCadaParte ==
  ASSUME [NextJanela]_varsJanela
  PROVE  [NextTira]_varsJa /\ [NextPa]_varsPa /\ [NextBu]_varsBu
BY DEF NextJanela, varsJanela

LEMMA JanelaInvariante == InitJanela /\ [][NextJanela]_varsJanela => []InvJanela
<1>1. InitJanela => InvJanela
  BY InicioJa, InicioPa, InicioBu DEF InitJanela, InvJanela
<1>2. InvJanela /\ [NextJanela]_varsJanela => InvJanela'
  BY PassoDeCadaParte, PassoJa, PassoPa, PassoBu DEF InvJanela
<1>. QED BY <1>1, <1>2, PTL

\* What the parts promise, in the specification the run checks: the types, no
\* session without a tab or a window, one probe for each host and only to what the
\* machine has, and a choice of the search box sent once and never lost with it.
THEOREM JanelaCumpre == SpecJanela => []JanelaCerta
<1>1. InvJanela => JanelaCerta
  BY InvBastaJa, InvBastaPa, InvBastaBu DEF InvJanela, JanelaCerta
<1>. QED BY <1>1, JanelaInvariante, PTL DEF SpecJanela
=============================================================================
