-------------------------- MODULE MCSessaoRemota --------------------------
(***************************************************************************)
(* Instances of SessaoRemota for TLC.                                      *)
(***************************************************************************)
EXTENDS SessaoRemota, TLC

CONSTANTS t1, t2, s1

DuasTelas == {t1, t2}
UmaTela == {t1}
UmSsh == {s1}
DuasTelasUmSsh == {t1, t2, s1}

Simetria == Permutations(DuasTelas)

-----------------------------------------------------------------------------
\* The tabs outside vivo were closed before their first attempt, and they are over:
\* two tabs compete, or the SSH one, which has no place to compete for, is alone.
InitVivo(vivo) ==
  /\ fase = [a \in Abas |-> IF a \in vivo THEN Inicio(a) ELSE "fim"]
  /\ fim = [a \in Abas |-> IF a \in vivo THEN "caiu" ELSE "parar"]
  /\ pedido = [a \in Abas |-> "caiu"]
  /\ vigia = [a \in Abas |-> "nenhuma"] /\ velhas = [a \in Abas |-> 0]
  /\ religar = [a \in Abas |-> FALSE]
  /\ stop = [a \in Abas |-> a \notin vivo]
  /\ fechado = [a \in Abas |-> FALSE] /\ filho = [a \in Abas |-> FALSE]
  /\ auto \in [Abas -> BOOLEAN] /\ \A a \in Abas \ vivo : ~auto[a]
  /\ vivas = 0 /\ falhas = 0
  /\ cliques = [a \in Abas |-> 0] /\ recusas = [a \in Abas |-> 0]
  /\ depois = [a \in Abas |-> 0] /\ esperando = [a \in Abas |-> FALSE]

InitSessao == InitVivo(DuasTelas) \/ InitVivo(UmSsh)

SpecSessao == InitSessao /\ [][Next]_vars
=============================================================================
