-------------------------- MODULE MCTelas_proofs --------------------------
(***************************************************************************)
(* Proofs about the screen sessions: the life of a session (SessaoRemota), *)
(* the resize of an RDP tab (ResizeRdp), the clipboard (ClipboardTela),    *)
(* each on its own, and MCTelas, where one run checks the three.           *)
(*                                                                         *)
(* They hold for every set of tabs, of sizes and of texts, every limit and *)
(* every number of failures, clicks, copies and reconnections, and under   *)
(* any scheduling: fairness plays no part in them.  Each part has its      *)
(* inductive invariant: IInv, InvRz, InvOrdemCl.                           *)
(***************************************************************************)
EXTENDS MCTelas, FiniteSetTheorems, SequenceTheorems, TLAPS

-----------------------------------------------------------------------------
(* The life of the remote sessions.                                        *)

\* The places taken are finitely many.
LEMMA ReservadasFinitas == IsFiniteSet(Reservadas) /\ Cardinality(Reservadas) \in Nat
<1>1. Reservadas \subseteq Abas
  BY DEF Reservadas
<1>. QED BY <1>1, AbasAssumption, FS_Subset, FS_CardinalityType

-----------------------------------------------------------------------------
(* One lemma per part of the invariant, one step per action.               *)

\* A tab stays in the phases of its kind, and its child, if it has one, is
\* alive only while its attempt is.
LEMMA ProtocoloStep ==
  ASSUME TypeOK, SemOrfao, \A b \in Abas : Protocolo(b), [Next]_vars
  PROVE  SemOrfao' /\ \A b \in Abas : Protocolo(b)'
<1>. USE DEF TypeOK, Fases, Fim, Vigias, SemOrfao, Protocolo, gerente, vigias, conta
<1>1. CASE UNCHANGED vars
  BY <1>1 DEF vars
<1>2. CASE Next
  <2>1. PICK a \in Abas : \/ Reserva(a) \/ Conexao(a) \/ Vigia(a) \/ VelhaSai(a)
                           \/ Sessao(a) \/ Saida(a) \/ Gerencia(a) \/ Operador(a)
    BY <1>2 DEF Next
  <2>2. CASE Conferir(a)
    BY <2>2 DEF Conferir, Devolver, Ir
  <2>3. CASE FaltarMemoria(a)
    BY <2>3 DEF FaltarMemoria, Devolver, Ir, Falhar
  <2>4. CASE Contar(a)
    BY <2>4 DEF Contar, Ir
  <2>5. CASE Nascer(a)
    BY <2>5 DEF Nascer, LigarVigia, Ir
  <2>6. CASE FalharNascer(a)
    BY <2>6 DEF FalharNascer, Devolver, Ir, Falhar
  <2>7. CASE Discar(a)
    BY <2>7 DEF Discar, Devolver, LigarVigia, Ir
  <2>8. CASE FalharDiscar(a)
    BY <2>8 DEF FalharDiscar, Devolver, Ir, Falhar, Recusar
  <2>9. CASE AceitarChave(a)
    BY <2>9 DEF AceitarChave, Ir
  <2>10. CASE DesistirDaChave(a)
    BY <2>10 DEF DesistirDaChave, Devolver, Ir
  <2>11. CASE VigiaOlha(a)
    BY <2>11 DEF VigiaOlha
  <2>12. CASE VigiaAnota(a)
    BY <2>12 DEF VigiaAnota
  <2>13. CASE VigiaFecha(a)
    BY <2>13 DEF VigiaFecha
  <2>14. CASE VelhaSai(a)
    BY <2>14 DEF VelhaSai
  <2>15. CASE LerErro(a)
    BY <2>15 DEF LerErro, Ir, Resultado
  <2>16. CASE Cair(a)
    BY <2>16 DEF Cair, Ir, Resultado, Falhar
  <2>17. CASE SerRecusada(a)
    BY <2>17 DEF SerRecusada, Ir, Falhar, Recusar
  <2>18. CASE Morrer(a)
    BY <2>18 DEF Morrer, Falhar
  <2>19. CASE ConferirPedido(a)
    BY <2>19 DEF ConferirPedido, Ir, Resultado
  <2>20. CASE Desligar(a)
    BY <2>20 DEF Desligar, Ir
  <2>21. CASE Encerrar(a)
    BY <2>21 DEF Encerrar, Ir
  <2>22. CASE Matar(a)
    BY <2>22 DEF Matar, Ir
  <2>23. CASE Terminar(a)
    BY <2>23 DEF Terminar, Ir, Recomecar, Inicio
  <2>24. CASE PegarClique(a)
    BY <2>24 DEF PegarClique, Recomecar, Ir, Inicio
  <2>25. CASE VencerEspera(a)
    BY <2>25 DEF VencerEspera, VencerEsperaSurda, Recomecar, Ir, Inicio
  <2>26. CASE PararEsperando(a)
    BY <2>26 DEF PararEsperando, Ir
  <2>27. CASE Reconectar(a)
    BY <2>27 DEF Reconectar
  <2>28. CASE AlternarAuto(a)
    BY <2>28 DEF AlternarAuto
  <2>29. CASE Close(a)
    BY <2>29 DEF Close
  <2>. QED BY <2>1, <2>2, <2>3, <2>4, <2>5, <2>6, <2>7, <2>8, <2>9, <2>10, <2>11,
       <2>12, <2>13, <2>14, <2>15, <2>16, <2>17, <2>18, <2>19, <2>20, <2>21, <2>22,
       <2>23, <2>24, <2>25, <2>26, <2>27, <2>28, <2>29 DEF Reserva, Conexao, Vigia,
       Sessao, Saida, Gerencia, Operador
<1>. QED BY <1>1, <1>2

\* A watcher is born and dies with its session.
LEMMA VigiadaStep ==
  ASSUME TypeOK, \A b \in Abas : Vigiada(b), [Next]_vars
  PROVE  \A b \in Abas : Vigiada(b)'
<1>. USE DEF TypeOK, Fases, Fim, Vigias, Vigiada, gerente, vigias, conta
<1>1. CASE UNCHANGED vars
  BY <1>1 DEF vars
<1>2. CASE Next
  <2>1. PICK a \in Abas : \/ Reserva(a) \/ Conexao(a) \/ Vigia(a) \/ VelhaSai(a)
                           \/ Sessao(a) \/ Saida(a) \/ Gerencia(a) \/ Operador(a)
    BY <1>2 DEF Next
  <2>2. CASE Conferir(a)
    BY <2>2 DEF Conferir, Devolver, Ir
  <2>3. CASE FaltarMemoria(a)
    BY <2>3 DEF FaltarMemoria, Devolver, Ir, Falhar
  <2>4. CASE Contar(a)
    BY <2>4 DEF Contar, Ir
  <2>5. CASE Nascer(a)
    BY <2>5 DEF Nascer, LigarVigia, Ir
  <2>6. CASE FalharNascer(a)
    BY <2>6 DEF FalharNascer, Devolver, Ir, Falhar
  <2>7. CASE Discar(a)
    BY <2>7 DEF Discar, Devolver, LigarVigia, Ir
  <2>8. CASE FalharDiscar(a)
    BY <2>8 DEF FalharDiscar, Devolver, Ir, Falhar, Recusar
  <2>9. CASE AceitarChave(a)
    BY <2>9 DEF AceitarChave, Ir
  <2>10. CASE DesistirDaChave(a)
    BY <2>10 DEF DesistirDaChave, Devolver, Ir
  <2>11. CASE VigiaOlha(a)
    BY <2>11 DEF VigiaOlha
  <2>12. CASE VigiaAnota(a)
    BY <2>12 DEF VigiaAnota
  <2>13. CASE VigiaFecha(a)
    BY <2>13 DEF VigiaFecha
  <2>14. CASE VelhaSai(a)
    BY <2>14 DEF VelhaSai
  <2>15. CASE LerErro(a)
    BY <2>15 DEF LerErro, Ir, Resultado
  <2>16. CASE Cair(a)
    BY <2>16 DEF Cair, Ir, Resultado, Falhar
  <2>17. CASE SerRecusada(a)
    BY <2>17 DEF SerRecusada, Ir, Falhar, Recusar
  <2>18. CASE Morrer(a)
    BY <2>18 DEF Morrer, Falhar
  <2>19. CASE ConferirPedido(a)
    BY <2>19 DEF ConferirPedido, Ir, Resultado
  <2>20. CASE Desligar(a)
    BY <2>20 DEF Desligar, Ir
  <2>21. CASE Encerrar(a)
    BY <2>21 DEF Encerrar, Ir
  <2>22. CASE Matar(a)
    BY <2>22 DEF Matar, Ir
  <2>23. CASE Terminar(a)
    BY <2>23 DEF Terminar, Ir, Recomecar, Inicio
  <2>24. CASE PegarClique(a)
    BY <2>24 DEF PegarClique, Recomecar, Ir, Inicio
  <2>25. CASE VencerEspera(a)
    BY <2>25 DEF VencerEspera, VencerEsperaSurda, Recomecar, Ir, Inicio
  <2>26. CASE PararEsperando(a)
    BY <2>26 DEF PararEsperando, Ir
  <2>27. CASE Reconectar(a)
    BY <2>27 DEF Reconectar
  <2>28. CASE AlternarAuto(a)
    BY <2>28 DEF AlternarAuto
  <2>29. CASE Close(a)
    BY <2>29 DEF Close
  <2>. QED BY <2>1, <2>2, <2>3, <2>4, <2>5, <2>6, <2>7, <2>8, <2>9, <2>10, <2>11,
       <2>12, <2>13, <2>14, <2>15, <2>16, <2>17, <2>18, <2>19, <2>20, <2>21, <2>22,
       <2>23, <2>24, <2>25, <2>26, <2>27, <2>28, <2>29 DEF Reserva, Conexao, Vigia,
       Sessao, Saida, Gerencia, Operador
<1>. QED BY <1>1, <1>2

\* What the application may still try by itself never grows without a click.
LEMMA RecusasStep ==
  ASSUME TypeOK, \A b \in Abas : RecusasContidas(b), [Next]_vars
  PROVE  \A b \in Abas : RecusasContidas(b)'
<1>. USE DEF TypeOK, Fases, Fim, Vigias, RecusasContidas, PodeSerRecusada, Saindo, Um, gerente, vigias, conta
<1>1. CASE UNCHANGED vars
  BY <1>1 DEF vars
<1>2. CASE Next
  <2>1. PICK a \in Abas : \/ Reserva(a) \/ Conexao(a) \/ Vigia(a) \/ VelhaSai(a)
                           \/ Sessao(a) \/ Saida(a) \/ Gerencia(a) \/ Operador(a)
    BY <1>2 DEF Next
  <2>2. CASE Conferir(a)
    BY <2>2 DEF Conferir, Devolver, Ir
  <2>3. CASE FaltarMemoria(a)
    BY <2>3 DEF FaltarMemoria, Devolver, Ir, Falhar
  <2>4. CASE Contar(a)
    BY <2>4 DEF Contar, Ir
  <2>5. CASE Nascer(a)
    BY <2>5 DEF Nascer, LigarVigia, Ir
  <2>6. CASE FalharNascer(a)
    BY <2>6 DEF FalharNascer, Devolver, Ir, Falhar
  <2>7. CASE Discar(a)
    BY <2>7 DEF Discar, Devolver, LigarVigia, Ir
  <2>8. CASE FalharDiscar(a)
    BY <2>8 DEF FalharDiscar, Devolver, Ir, Falhar, Recusar
  <2>9. CASE AceitarChave(a)
    BY <2>9 DEF AceitarChave, Ir
  <2>10. CASE DesistirDaChave(a)
    BY <2>10 DEF DesistirDaChave, Devolver, Ir
  <2>11. CASE VigiaOlha(a)
    BY <2>11 DEF VigiaOlha
  <2>12. CASE VigiaAnota(a)
    BY <2>12 DEF VigiaAnota
  <2>13. CASE VigiaFecha(a)
    BY <2>13 DEF VigiaFecha
  <2>14. CASE VelhaSai(a)
    BY <2>14 DEF VelhaSai
  <2>15. CASE LerErro(a)
    BY <2>15 DEF LerErro, Ir, Resultado
  <2>16. CASE Cair(a)
    BY <2>16 DEF Cair, Ir, Resultado, Falhar
  <2>17. CASE SerRecusada(a)
    BY <2>17 DEF SerRecusada, Ir, Falhar, Recusar
  <2>18. CASE Morrer(a)
    BY <2>18 DEF Morrer, Falhar
  <2>19. CASE ConferirPedido(a)
    BY <2>19 DEF ConferirPedido, Ir, Resultado
  <2>20. CASE Desligar(a)
    BY <2>20 DEF Desligar, Ir
  <2>21. CASE Encerrar(a)
    BY <2>21 DEF Encerrar, Ir
  <2>22. CASE Matar(a)
    BY <2>22 DEF Matar, Ir
  <2>23. CASE Terminar(a)
    BY <2>23 DEF Terminar, Ir, Recomecar, Inicio
  <2>24. CASE PegarClique(a)
    BY <2>24 DEF PegarClique, Recomecar, Ir, Inicio
  <2>25. CASE VencerEspera(a)
    BY <2>25 DEF VencerEspera, VencerEsperaSurda, Recomecar, Ir, Inicio
  <2>26. CASE PararEsperando(a)
    BY <2>26 DEF PararEsperando, Ir
  <2>27. CASE Reconectar(a)
    BY <2>27 DEF Reconectar
  <2>28. CASE AlternarAuto(a)
    BY <2>28 DEF AlternarAuto
  <2>29. CASE Close(a)
    BY <2>29 DEF Close
  <2>. QED BY <2>1, <2>2, <2>3, <2>4, <2>5, <2>6, <2>7, <2>8, <2>9, <2>10, <2>11,
       <2>12, <2>13, <2>14, <2>15, <2>16, <2>17, <2>18, <2>19, <2>20, <2>21, <2>22,
       <2>23, <2>24, <2>25, <2>26, <2>27, <2>28, <2>29 DEF Reserva, Conexao, Vigia,
       Sessao, Saida, Gerencia, Operador
<1>. QED BY <1>1, <1>2

\* After Close an attempt begins only by spending a click in flight.
LEMMA InsistenciasStep ==
  ASSUME TypeOK, \A b \in Abas : Vigiada(b), \A b \in Abas : InsistenciasContidas(b), [Next]_vars
  PROVE  \A b \in Abas : InsistenciasContidas(b)'
<1>. USE DEF TypeOK, Fases, Fim, Vigias, InsistenciasContidas, CliqueNaMao, Saindo, Um, gerente, vigias, conta
<1>1. CASE UNCHANGED vars
  BY <1>1 DEF vars
<1>2. CASE Next
  <2>1. PICK a \in Abas : \/ Reserva(a) \/ Conexao(a) \/ Vigia(a) \/ VelhaSai(a)
                           \/ Sessao(a) \/ Saida(a) \/ Gerencia(a) \/ Operador(a)
    BY <1>2 DEF Next
  <2>2. CASE Conferir(a)
    BY <2>2 DEF Conferir, Devolver, Ir
  <2>3. CASE FaltarMemoria(a)
    BY <2>3 DEF FaltarMemoria, Devolver, Ir, Falhar
  <2>4. CASE Contar(a)
    BY <2>4 DEF Contar, Ir
  <2>5. CASE Nascer(a)
    BY <2>5 DEF Nascer, LigarVigia, Ir
  <2>6. CASE FalharNascer(a)
    BY <2>6 DEF FalharNascer, Devolver, Ir, Falhar
  <2>7. CASE Discar(a)
    BY <2>7 DEF Discar, Devolver, LigarVigia, Ir
  <2>8. CASE FalharDiscar(a)
    BY <2>8 DEF FalharDiscar, Devolver, Ir, Falhar, Recusar
  <2>9. CASE AceitarChave(a)
    BY <2>9 DEF AceitarChave, Ir
  <2>10. CASE DesistirDaChave(a)
    BY <2>10 DEF DesistirDaChave, Devolver, Ir
  <2>11. CASE VigiaOlha(a)
    BY <2>11 DEF VigiaOlha
  <2>12. CASE VigiaAnota(a)
    BY <2>12 DEF VigiaAnota
  <2>13. CASE VigiaFecha(a)
    BY <2>13 DEF VigiaFecha
  <2>14. CASE VelhaSai(a)
    BY <2>14 DEF VelhaSai
  <2>15. CASE LerErro(a)
    <3>1. CliqueNaMao(a)' => CliqueNaMao(a)
      BY <2>15 DEF LerErro, Ir, Resultado, Vigiada
    <3>2. depois' = depois /\ religar' = religar /\ stop' = stop
      BY <2>15 DEF LerErro, Ir, Resultado
    <3>3. \A b \in Abas \ {a} : CliqueNaMao(b)' <=> CliqueNaMao(b)
      BY <2>15 DEF LerErro, Ir, Resultado
    <3>4. \A b \in Abas : CliqueNaMao(b)' => CliqueNaMao(b)
      BY <3>1, <3>3
    <3>. HIDE DEF CliqueNaMao
    <3>. QED BY <3>2, <3>4
  <2>16. CASE Cair(a)
    <3>1. CliqueNaMao(a)' => CliqueNaMao(a)
      BY <2>16 DEF Cair, Ir, Resultado, Falhar, Vigiada
    <3>2. depois' = depois /\ religar' = religar /\ stop' = stop
      BY <2>16 DEF Cair, Ir, Resultado, Falhar
    <3>3. \A b \in Abas \ {a} : CliqueNaMao(b)' <=> CliqueNaMao(b)
      BY <2>16 DEF Cair, Ir, Resultado, Falhar
    <3>4. \A b \in Abas : CliqueNaMao(b)' => CliqueNaMao(b)
      BY <3>1, <3>3
    <3>. HIDE DEF CliqueNaMao
    <3>. QED BY <3>2, <3>4
  <2>17. CASE SerRecusada(a)
    BY <2>17 DEF SerRecusada, Ir, Falhar, Recusar
  <2>18. CASE Morrer(a)
    BY <2>18 DEF Morrer, Falhar
  <2>19. CASE ConferirPedido(a)
    BY <2>19 DEF ConferirPedido, Ir, Resultado
  <2>20. CASE Desligar(a)
    BY <2>20 DEF Desligar, Ir
  <2>21. CASE Encerrar(a)
    BY <2>21 DEF Encerrar, Ir
  <2>22. CASE Matar(a)
    BY <2>22 DEF Matar, Ir
  <2>23. CASE Terminar(a)
    <3>1. \A b \in Abas \ {a} : InsistenciasContidas(b)'
      BY <2>23 DEF Terminar, Ir, Recomecar, Inicio
    <3>2. CASE fim[a] = "religar"
      <4>1. CliqueNaMao(a) /\ ~CliqueNaMao(a)'
        BY <2>23, <3>2 DEF Terminar, Ir, Recomecar, Inicio, Vigiada
      <4>2. religar' = religar /\ stop' = stop
        BY <2>23 DEF Terminar
      <4>3. depois'[a] = IF stop[a] THEN depois[a] + 1 ELSE depois[a]
        BY <2>23, <3>2 DEF Terminar, Recomecar
      <4>4. InsistenciasContidas(a)'
        <5>. HIDE DEF CliqueNaMao
        <5>. QED BY <4>1, <4>2, <4>3
      <4>. QED BY <3>1, <4>4
    <3>3. CASE fim[a] /= "religar"
      <4>1. CliqueNaMao(a)' => CliqueNaMao(a)
        BY <2>23, <3>3 DEF Terminar, Ir
      <4>2. religar' = religar /\ stop' = stop /\ depois' = depois
        BY <2>23, <3>3 DEF Terminar
      <4>3. InsistenciasContidas(a)'
        <5>. HIDE DEF CliqueNaMao
        <5>. QED BY <4>1, <4>2
      <4>. QED BY <3>1, <4>3
    <3>. QED BY <3>2, <3>3
  <2>24. CASE PegarClique(a)
    BY <2>24 DEF PegarClique, Recomecar, Ir, Inicio
  <2>25. CASE VencerEspera(a)
    BY <2>25 DEF VencerEspera, VencerEsperaSurda, Recomecar, Ir, Inicio
  <2>26. CASE PararEsperando(a)
    BY <2>26 DEF PararEsperando, Ir
  <2>27. CASE Reconectar(a)
    BY <2>27 DEF Reconectar
  <2>28. CASE AlternarAuto(a)
    BY <2>28 DEF AlternarAuto
  <2>29. CASE Close(a)
    BY <2>29 DEF Close
  <2>. QED BY <2>1, <2>2, <2>3, <2>4, <2>5, <2>6, <2>7, <2>8, <2>9, <2>10, <2>11,
       <2>12, <2>13, <2>14, <2>15, <2>16, <2>17, <2>18, <2>19, <2>20, <2>21, <2>22,
       <2>23, <2>24, <2>25, <2>26, <2>27, <2>28, <2>29 DEF Reserva, Conexao, Vigia,
       Sessao, Saida, Gerencia, Operador
<1>. QED BY <1>1, <1>2

\* A tab that takes a place was not holding one.
LEMMA MaisUma ==
  ASSUME NEW a \in Abas, a \notin Reservadas, Reservadas' = Reservadas \cup {a},
         ContaCerta, vivas' = vivas + 1
  PROVE  ContaCerta'
<1>1. Cardinality(Reservadas \cup {a}) = Cardinality(Reservadas) + 1
  BY ReservadasFinitas, FS_AddElement
<1>. QED BY <1>1 DEF ContaCerta

\* A tab that gives its place back was holding it.
LEMMA MenosUma ==
  ASSUME NEW a \in Reservadas, Reservadas' = Reservadas \ {a},
         ContaCerta, vivas' = vivas - 1
  PROVE  ContaCerta'
<1>1. Cardinality(Reservadas \ {a}) = Cardinality(Reservadas) - 1
  BY ReservadasFinitas, FS_RemoveElement
<1>. QED BY <1>1 DEF ContaCerta

\* Contar takes a place; FalharNascer and Encerrar give one back; no other
\* step touches the count or the places.
LEMMA ContaStep ==
  ASSUME TypeOK, ContaCerta, \A b \in Abas : Protocolo(b), [Next]_vars
  PROVE  ContaCerta'
<1>. USE DEF TypeOK, Fases, Fim, Vigias, Protocolo, gerente, vigias, conta
<1>1. CASE UNCHANGED vars
  BY <1>1 DEF vars, ContaCerta, Reservadas
<1>2. CASE Next
  <2>1. PICK a \in Abas : \/ Reserva(a) \/ Conexao(a) \/ Vigia(a) \/ VelhaSai(a)
                           \/ Sessao(a) \/ Saida(a) \/ Gerencia(a) \/ Operador(a)
    BY <1>2 DEF Next
  <2>2. CASE Conferir(a)
    <3>1. Reservadas' = Reservadas /\ vivas' = vivas
      BY <2>2 DEF Conferir,
       Devolver, Ir, Reservadas
    <3>. QED BY <3>1 DEF ContaCerta
  <2>3. CASE FaltarMemoria(a)
    <3>1. Reservadas' = Reservadas /\ vivas' = vivas
      BY <2>3 DEF FaltarMemoria,
       Devolver, Ir, Falhar, Reservadas
    <3>. QED BY <3>1 DEF ContaCerta
  <2>4. CASE Contar(a)
    <3>1. a \notin Reservadas /\ Reservadas' = Reservadas \cup {a} /\ vivas' = vivas + 1
      BY <2>4 DEF Contar, Ir, Reservadas
    <3>. QED BY <3>1, MaisUma
  <2>5. CASE Nascer(a)
    <3>1. Reservadas' = Reservadas /\ vivas' = vivas
      BY <2>5 DEF Nascer,
       LigarVigia, Ir, Reservadas
    <3>. QED BY <3>1 DEF ContaCerta
  <2>6. CASE FalharNascer(a)
    <3>1. a \in Reservadas /\ Reservadas' = Reservadas \ {a} /\ vivas' = vivas - 1
      BY <2>6 DEF FalharNascer, Devolver, Ir, Falhar, Reservadas
    <3>. QED BY <3>1, MenosUma
  <2>7. CASE Discar(a)
    <3>1. Reservadas' = Reservadas /\ vivas' = vivas
      BY <2>7 DEF Discar,
       Devolver, LigarVigia, Ir, Reservadas
    <3>. QED BY <3>1 DEF ContaCerta
  <2>8. CASE FalharDiscar(a)
    <3>1. Reservadas' = Reservadas /\ vivas' = vivas
      BY <2>8 DEF FalharDiscar,
       Devolver, Ir, Falhar, Recusar, Reservadas
    <3>. QED BY <3>1 DEF ContaCerta
  <2>9. CASE AceitarChave(a)
    <3>1. Reservadas' = Reservadas /\ vivas' = vivas
      BY <2>9 DEF AceitarChave,
       Ir, Reservadas
    <3>. QED BY <3>1 DEF ContaCerta
  <2>10. CASE DesistirDaChave(a)
    <3>1. Reservadas' = Reservadas /\ vivas' = vivas
      BY <2>10 DEF DesistirDaChave,
       Devolver, Ir, Reservadas
    <3>. QED BY <3>1 DEF ContaCerta
  <2>11. CASE VigiaOlha(a)
    <3>1. Reservadas' = Reservadas /\ vivas' = vivas
      BY <2>11 DEF VigiaOlha,
       Reservadas
    <3>. QED BY <3>1 DEF ContaCerta
  <2>12. CASE VigiaAnota(a)
    <3>1. Reservadas' = Reservadas /\ vivas' = vivas
      BY <2>12 DEF VigiaAnota,
       Reservadas
    <3>. QED BY <3>1 DEF ContaCerta
  <2>13. CASE VigiaFecha(a)
    <3>1. Reservadas' = Reservadas /\ vivas' = vivas
      BY <2>13 DEF VigiaFecha,
       Reservadas
    <3>. QED BY <3>1 DEF ContaCerta
  <2>14. CASE VelhaSai(a)
    <3>1. Reservadas' = Reservadas /\ vivas' = vivas
      BY <2>14 DEF VelhaSai,
       Reservadas
    <3>. QED BY <3>1 DEF ContaCerta
  <2>15. CASE LerErro(a)
    <3>1. Reservadas' = Reservadas /\ vivas' = vivas
      BY <2>15 DEF LerErro, Ir,
       Resultado, Reservadas
    <3>. QED BY <3>1 DEF ContaCerta
  <2>16. CASE Cair(a)
    <3>1. Reservadas' = Reservadas /\ vivas' = vivas
      BY <2>16 DEF Cair, Ir,
       Resultado, Falhar, Reservadas
    <3>. QED BY <3>1 DEF ContaCerta
  <2>17. CASE SerRecusada(a)
    <3>1. Reservadas' = Reservadas /\ vivas' = vivas
      BY <2>17 DEF SerRecusada, Ir,
       Falhar, Recusar, Reservadas
    <3>. QED BY <3>1 DEF ContaCerta
  <2>18. CASE Morrer(a)
    <3>1. Reservadas' = Reservadas /\ vivas' = vivas
      BY <2>18 DEF Morrer, Falhar,
       Reservadas
    <3>. QED BY <3>1 DEF ContaCerta
  <2>19. CASE ConferirPedido(a)
    <3>1. Reservadas' = Reservadas /\ vivas' = vivas
      BY <2>19 DEF ConferirPedido,
       Ir, Resultado, Reservadas
    <3>. QED BY <3>1 DEF ContaCerta
  <2>20. CASE Desligar(a)
    <3>1. Reservadas' = Reservadas /\ vivas' = vivas
      BY <2>20 DEF Desligar, Ir,
       Reservadas
    <3>. QED BY <3>1 DEF ContaCerta
  <2>21. CASE Encerrar(a)
    <3>1. a \in Reservadas /\ Reservadas' = Reservadas \ {a} /\ vivas' = vivas - 1
      BY <2>21 DEF Encerrar, Ir, Reservadas
    <3>. QED BY <3>1, MenosUma
  <2>22. CASE Matar(a)
    <3>1. Reservadas' = Reservadas /\ vivas' = vivas
      BY <2>22 DEF Matar, Ir,
       Reservadas
    <3>. QED BY <3>1 DEF ContaCerta
  <2>23. CASE Terminar(a)
    <3>1. Reservadas' = Reservadas /\ vivas' = vivas
      BY <2>23 DEF Terminar, Ir,
       Recomecar, Inicio, Reservadas
    <3>. QED BY <3>1 DEF ContaCerta
  <2>24. CASE PegarClique(a)
    <3>1. Reservadas' = Reservadas /\ vivas' = vivas
      BY <2>24 DEF PegarClique,
       Recomecar, Ir, Inicio, Reservadas
    <3>. QED BY <3>1 DEF ContaCerta
  <2>25. CASE VencerEspera(a)
    <3>1. Reservadas' = Reservadas /\ vivas' = vivas
      BY <2>25 DEF VencerEspera,
       VencerEsperaSurda, Recomecar, Ir, Inicio, Reservadas
    <3>. QED BY <3>1 DEF ContaCerta
  <2>26. CASE PararEsperando(a)
    <3>1. Reservadas' = Reservadas /\ vivas' = vivas
      BY <2>26 DEF PararEsperando,
       Ir, Reservadas
    <3>. QED BY <3>1 DEF ContaCerta
  <2>27. CASE Reconectar(a)
    <3>1. Reservadas' = Reservadas /\ vivas' = vivas
      BY <2>27 DEF Reconectar,
       Reservadas
    <3>. QED BY <3>1 DEF ContaCerta
  <2>28. CASE AlternarAuto(a)
    <3>1. Reservadas' = Reservadas /\ vivas' = vivas
      BY <2>28 DEF AlternarAuto,
       Reservadas
    <3>. QED BY <3>1 DEF ContaCerta
  <2>29. CASE Close(a)
    <3>1. Reservadas' = Reservadas /\ vivas' = vivas
      BY <2>29 DEF Close, Reservadas
    <3>. QED BY <3>1 DEF ContaCerta
  <2>. QED BY <2>1, <2>2, <2>3, <2>4, <2>5, <2>6, <2>7, <2>8, <2>9, <2>10, <2>11,
       <2>12, <2>13, <2>14, <2>15, <2>16, <2>17, <2>18, <2>19, <2>20, <2>21, <2>22,
       <2>23, <2>24, <2>25, <2>26, <2>27, <2>28, <2>29 DEF Reserva, Conexao, Vigia,
       Sessao, Saida, Gerencia, Operador
<1>. QED BY <1>1, <1>2

\* Types; the count stays in Nat because it counts places.
LEMMA TypeStep ==
  ASSUME TypeOK, ContaCerta', [Next]_vars
  PROVE  TypeOK'
<1>. USE DEF TypeOK, Fases, Fim, Vigias, gerente, vigias, conta
<1>0. vivas' \in Nat
  <2>1. Reservadas' \subseteq Abas
    BY DEF Reservadas
  <2>. QED BY <2>1, AbasAssumption, FS_Subset, FS_CardinalityType DEF ContaCerta
<1>1. CASE UNCHANGED vars
  BY <1>0, <1>1 DEF vars
<1>2. CASE Next
  <2>1. PICK a \in Abas : \/ Reserva(a) \/ Conexao(a) \/ Vigia(a) \/ VelhaSai(a)
                           \/ Sessao(a) \/ Saida(a) \/ Gerencia(a) \/ Operador(a)
    BY <1>2 DEF Next
  <2>2. CASE Conferir(a)
    BY <2>2, <1>0 DEF Conferir, Devolver, Ir
  <2>3. CASE FaltarMemoria(a)
    BY <2>3, <1>0 DEF FaltarMemoria, Devolver, Ir, Falhar
  <2>4. CASE Contar(a)
    BY <2>4, <1>0 DEF Contar, Ir
  <2>5. CASE Nascer(a)
    BY <2>5, <1>0 DEF Nascer, LigarVigia, Ir
  <2>6. CASE FalharNascer(a)
    BY <2>6, <1>0 DEF FalharNascer, Devolver, Ir, Falhar
  <2>7. CASE Discar(a)
    <3>1. fase' \in [Abas -> Fases]
      BY <2>7 DEF Discar, Devolver, LigarVigia, Ir
    <3>2. fim' \in [Abas -> Fim]
      BY <2>7 DEF Discar, Devolver, LigarVigia, Ir
    <3>3. vigia' \in [Abas -> Vigias]
      BY <2>7 DEF Discar, Devolver, LigarVigia, Ir
    <3>4. pedido' \in [Abas -> {"parar", "religar", "caiu"}]
      BY <2>7 DEF Discar, Devolver, LigarVigia, Ir
    <3>5. fechado' \in [Abas -> BOOLEAN]
      BY <2>7 DEF Discar, Devolver, LigarVigia, Ir
    <3>. QED BY <2>7, <1>0, <3>1, <3>2, <3>3, <3>4, <3>5 DEF Discar
  <2>8. CASE FalharDiscar(a)
    BY <2>8, <1>0, SMTT(30) DEF FalharDiscar, Devolver, Ir, Falhar, Recusar
  <2>9. CASE AceitarChave(a)
    BY <2>9, <1>0 DEF AceitarChave, Ir
  <2>10. CASE DesistirDaChave(a)
    BY <2>10, <1>0 DEF DesistirDaChave, Devolver, Ir
  <2>11. CASE VigiaOlha(a)
    BY <2>11, <1>0 DEF VigiaOlha
  <2>12. CASE VigiaAnota(a)
    BY <2>12, <1>0 DEF VigiaAnota
  <2>13. CASE VigiaFecha(a)
    BY <2>13, <1>0 DEF VigiaFecha
  <2>14. CASE VelhaSai(a)
    <3>1. velhas' \in [Abas -> Nat]
      BY <2>14 DEF VelhaSai
    <3>2. religar' \in [Abas -> BOOLEAN]
      BY <2>14 DEF VelhaSai
    <3>. QED BY <2>14, <1>0, <3>1, <3>2 DEF VelhaSai
  <2>15. CASE LerErro(a)
    BY <2>15, <1>0 DEF LerErro, Ir, Resultado
  <2>16. CASE Cair(a)
    BY <2>16, <1>0 DEF Cair, Ir, Resultado, Falhar
  <2>17. CASE SerRecusada(a)
    BY <2>17, <1>0 DEF SerRecusada, Ir, Falhar, Recusar
  <2>18. CASE Morrer(a)
    BY <2>18, <1>0 DEF Morrer, Falhar
  <2>19. CASE ConferirPedido(a)
    BY <2>19, <1>0 DEF ConferirPedido, Ir, Resultado
  <2>20. CASE Desligar(a)
    BY <2>20, <1>0 DEF Desligar, Ir
  <2>21. CASE Encerrar(a)
    BY <2>21, <1>0 DEF Encerrar, Ir
  <2>22. CASE Matar(a)
    BY <2>22, <1>0 DEF Matar, Ir
  <2>23. CASE Terminar(a)
    <3>1. fase' \in [Abas -> Fases]
      BY <2>23 DEF Terminar, Ir, Recomecar, Inicio
    <3>2. depois' \in [Abas -> Nat]
      BY <2>23 DEF Terminar, Ir, Recomecar, Inicio
    <3>3. esperando' \in [Abas -> BOOLEAN]
      BY <2>23 DEF Terminar, Ir, Recomecar, Inicio
    <3>. QED BY <2>23, <1>0, <3>1, <3>2, <3>3 DEF Terminar
  <2>24. CASE PegarClique(a)
    BY <2>24, <1>0 DEF PegarClique, Recomecar, Ir, Inicio
  <2>25. CASE VencerEspera(a)
    BY <2>25, <1>0 DEF VencerEspera, VencerEsperaSurda, Recomecar, Ir, Inicio
  <2>26. CASE PararEsperando(a)
    BY <2>26, <1>0 DEF PararEsperando, Ir
  <2>27. CASE Reconectar(a)
    <3>1. vigia' \in [Abas -> Vigias]
      BY <2>27 DEF Reconectar
    <3>2. religar' \in [Abas -> BOOLEAN]
      BY <2>27 DEF Reconectar
    <3>3. esperando' \in [Abas -> BOOLEAN]
      BY <2>27 DEF Reconectar
    <3>4. cliques' \in [Abas -> Nat]
      BY <2>27 DEF Reconectar
    <3>. QED BY <2>27, <1>0, <3>1, <3>2, <3>3, <3>4 DEF Reconectar
  <2>28. CASE AlternarAuto(a)
    BY <2>28, <1>0 DEF AlternarAuto
  <2>29. CASE Close(a)
    BY <2>29, <1>0 DEF Close
  <2>. QED BY <2>1, <2>2, <2>3, <2>4, <2>5, <2>6, <2>7, <2>8, <2>9, <2>10, <2>11,
       <2>12, <2>13, <2>14, <2>15, <2>16, <2>17, <2>18, <2>19, <2>20, <2>21, <2>22,
       <2>23, <2>24, <2>25, <2>26, <2>27, <2>28, <2>29 DEF Reserva, Conexao, Vigia,
       Sessao, Saida, Gerencia, Operador
<1>. QED BY <1>1, <1>2

-----------------------------------------------------------------------------
(* The invariant and what it gives.                                        *)

LEMMA InitIInv == Init => IInv
<1>. SUFFICES ASSUME Init PROVE IInv
  OBVIOUS
<1>1. TypeOK
  BY DEF Init, TypeOK, Fases, Fim, Vigias, Inicio
<1>2. ContaCerta
  <2>1. Reservadas = {}
    BY DEF Reservadas, Init, Inicio
  <2>. QED BY <2>1, FS_EmptySet DEF ContaCerta, Init
<1>3. SemOrfao
  BY DEF SemOrfao, Init
<1>4. \A a \in Abas :
       Protocolo(a) /\ Vigiada(a) /\ RecusasContidas(a) /\ InsistenciasContidas(a)
  BY DEF Init, Inicio, Protocolo, Vigiada, RecusasContidas, PodeSerRecusada, Saindo, Um,
         InsistenciasContidas
<1>. QED BY <1>1, <1>2, <1>3, <1>4 DEF IInv

LEMMA PassoIInv == IInv /\ [Next]_vars => IInv'
<1>. SUFFICES ASSUME IInv, [Next]_vars PROVE IInv'
  OBVIOUS
<1>. USE DEF IInv
<1>1. SemOrfao' /\ \A a \in Abas : Protocolo(a)'
  BY ProtocoloStep
<1>6. \A a \in Abas : Vigiada(a)'
  BY VigiadaStep
<1>2. \A a \in Abas : RecusasContidas(a)'
  BY RecusasStep
<1>3. \A a \in Abas : InsistenciasContidas(a)'
  BY InsistenciasStep
<1>4. ContaCerta'
  BY ContaStep
<1>5. TypeOK'
  BY <1>4, TypeStep
<1>. QED BY <1>1, <1>2, <1>3, <1>4, <1>5, <1>6

\* Under any scheduling: the fairness of Spec plays no part.
LEMMA InvarianteSempre == Init /\ [][Next]_vars => []IInv
BY InitIInv, PassoIInv, PTL

\* Every variable keeps its type; the count of children is never negative.
THEOREM TiposDaSessao == Spec => []TypeOK
<1>1. IInv => TypeOK
  BY DEF IInv
<1>. QED BY <1>1, InvarianteSempre, PTL DEF Spec

\* Every place reservar took is given back exactly once (devolver, baixaUma).
THEOREM ContaDeFilhos == Spec => []ContaCerta
<1>1. IInv => ContaCerta
  BY DEF IInv
<1>. QED BY <1>1, InvarianteSempre, PTL DEF Spec

\* No attempt begins, and no manager returns, with a child of the last
\* attempt still up (Encerrar).
THEOREM FilhoAcaba == Spec => []SemOrfao
<1>1. IInv => SemOrfao
  BY DEF IInv
<1>. QED BY <1>1, InvarianteSempre, PTL DEF Spec

\* The counts of the invariant say what the properties say.
LEMMA RecusaContida == IInv => RecusaSoComClique
<1>. SUFFICES ASSUME IInv, NEW a \in Abas PROVE recusas[a] <= 1 + cliques[a]
  BY DEF RecusaSoComClique
<1>1. recusas[a] \in Nat /\ cliques[a] \in Nat
  BY DEF IInv, TypeOK
<1>2. Um(PodeSerRecusada(a)) \in Nat /\ Um(religar[a]) \in Nat
  BY DEF Um
<1>. QED BY <1>1, <1>2 DEF IInv, RecusasContidas

LEMMA InsistenciaContida == IInv => FechadaNaoInsiste
<1>. SUFFICES ASSUME IInv, NEW a \in Abas PROVE depois[a] <= 2
  BY DEF FechadaNaoInsiste
<1>1. depois[a] \in Nat
  BY DEF IInv, TypeOK
<1>2. Um(CliqueNaMao(a)) \in Nat /\ Um(religar[a]) \in Nat
  BY DEF Um
<1>. QED BY <1>1, <1>2 DEF IInv, InsistenciasContidas

\* The application never insists by itself on a refused credential
\* (fimFalhou): a tab is refused at most once more than it is clicked.
THEOREM NaoInsisteNaSenha == Spec => []RecusaSoComClique
BY RecusaContida, InvarianteSempre, PTL DEF Spec

\* After Close at most two attempts begin, whatever the selects choose
\* (gerenciarSessaoRemota).
THEOREM AbaFechadaPara == Spec => []FechadaNaoInsiste
BY InsistenciaContida, InvarianteSempre, PTL DEF Spec

-----------------------------------------------------------------------------
(* The resize of an RDP session.                                           *)

AbasRz == [tam : Tamanhos, ultimo : Tamanhos \union {0}, alvo : Tamanhos \union {0},
           armado : BOOLEAN, proc : BOOLEAN, religando : BOOLEAN]
FilhosRz == [vivo : BOOLEAN, canal : BOOLEAN, pronto : BOOLEAN, pend : Nat, alvo : Nat,
             atual : Nat, tentativas : Nat, confere : BOOLEAN]
UmFioRz == [fase : {"livre", "pedir", "aceito", "recusado"}, valor : Nat]
Avisos == {"conectado", "displayPronto"}
RedesRz == [cmds : Seq(Tamanhos \union {0}), evts : Seq(Avisos), layouts : Seq(Nat)]

\* What only a child that is up leaves behind: the process the tab holds, an
\* event it reads, the slot of the channel.
SoVivo == abaRz.proc \/ redeRz.evts # <<>> \/ filhoRz.pronto => filhoRz.vivo

InvRz ==
  /\ abaRz \in AbasRz /\ filhoRz \in FilhosRz
  /\ fiosRz \in [Fios -> UmFioRz] /\ redeRz \in RedesRz
  /\ SoVivo

\* What Display Control takes is a size: clamping and evening stay in Nat.
LEMMA AjustarEmNat == ASSUME NEW t \in Nat PROVE Ajustar(t) \in Nat
<1>. DEFINE g == IF t < MinDisplay THEN MinDisplay ELSE IF t > MaxDisplay THEN MaxDisplay ELSE t
<1>1. g \in Nat
  BY ResizeAssumption
<1>. HIDE DEF g
<1>2. g % 2 \in {0, 1} /\ (g = 0 => g % 2 = 0)
  BY <1>1
<1>3. g - (g % 2) \in Nat
  BY <1>1, <1>2
<1>. QED BY <1>3 DEF Ajustar, g

LEMMA FilhoNovoTipo == ASSUME NEW t \in Tamanhos PROVE FilhoNovo(t) \in FilhosRz
<1>1. t \in Nat /\ Padrao \in Nat /\ 0 \in Nat
  BY ResizeAssumption
<1>2. TamanhoDeNascer(t) \in Nat
  BY <1>1, AjustarEmNat DEF TamanhoDeNascer
<1>. QED BY <1>1, <1>2 DEF FilhoNovo, FilhosRz

\* The first state, and that of every reconnection: nothing on the socket.
LEMMA RedeVaziaRz == [cmds |-> <<>>, evts |-> <<>>, layouts |-> <<>>] \in RedesRz
<1>1. <<>> \in Seq(Tamanhos \union {0}) /\ <<>> \in Seq(Avisos) /\ <<>> \in Seq(Nat)
  BY EmptySeq
<1>. QED BY <1>1 DEF RedesRz

LEMMA FiosParados == [f \in Fios |-> Parado] \in [Fios -> UmFioRz]
BY DEF Parado, UmFioRz

LEMMA InitInvRz == InitRz => InvRz
<1>. SUFFICES ASSUME InitRz PROVE InvRz
  OBVIOUS
<1>1. PICK t0 \in Tamanhos :
        /\ abaRz = [tam |-> t0, ultimo |-> 0, alvo |-> 0, armado |-> FALSE, proc |-> FALSE,
                    religando |-> TRUE]
        /\ filhoRz = FilhoNovo(t0)
  BY DEF InitRz
<1>2. abaRz.proc = FALSE
  BY <1>1
<1>3. filhoRz.vivo = FALSE /\ filhoRz.pronto = FALSE
  BY <1>1 DEF FilhoNovo
<1>4. abaRz \in AbasRz
  BY <1>1 DEF AbasRz
<1>5. filhoRz \in FilhosRz
  BY <1>1, FilhoNovoTipo
<1>6. SoVivo
  BY <1>2, <1>3 DEF SoVivo, InitRz
<1>. QED BY <1>4, <1>5, <1>6, RedeVaziaRz, FiosParados DEF InitRz, InvRz

\* One lemma per handler: the tab.
LEMMA RedimensionarInv == ASSUME InvRz, NEW t \in Tamanhos, Redimensionar(t) PROVE InvRz'
<1>1. abaRz' \in AbasRz
  BY DEF InvRz, Redimensionar, AbasRz
<1>2. SoVivo'
  BY DEF InvRz, Redimensionar, AbasRz, SoVivo
<1>. QED BY <1>1, <1>2 DEF InvRz, Redimensionar

LEMMA LayoutInv == ASSUME InvRz, Layout PROVE InvRz'
<1>1. abaRz' \in AbasRz
  BY DEF InvRz, Layout, AbasRz
<1>2. SoVivo'
  BY DEF InvRz, Layout, AbasRz, SoVivo
<1>. QED BY <1>1, <1>2 DEF InvRz, Layout

LEMMA DispararInv == ASSUME InvRz, DispararResize PROVE InvRz'
<1>1. abaRz' \in AbasRz
  BY DEF InvRz, DispararResize, AbasRz
<1>2. abaRz.alvo \in Tamanhos \union {0} /\ redeRz.cmds \in Seq(Tamanhos \union {0})
  BY DEF InvRz, AbasRz, RedesRz
<1>3. Append(redeRz.cmds, abaRz.alvo) \in Seq(Tamanhos \union {0})
  BY <1>2, AppendProperties
<1>4. redeRz' \in RedesRz /\ redeRz'.evts = redeRz.evts
  BY <1>3 DEF InvRz, DispararResize, RedesRz
<1>5. SoVivo'
  BY <1>4 DEF InvRz, DispararResize, AbasRz, SoVivo
<1>. QED BY <1>1, <1>4, <1>5 DEF InvRz, DispararResize

LEMMA LerEventoInv == ASSUME InvRz, LerEvento PROVE InvRz'
<1>1. redeRz.evts \in Seq(Avisos) /\ redeRz.evts # <<>>
  BY DEF InvRz, RedesRz, LerEvento
<1>2. Head(redeRz.evts) \in Avisos /\ Tail(redeRz.evts) \in Seq(Avisos)
  BY <1>1, HeadTailProperties
<1>3. redeRz' \in RedesRz
  BY <1>2 DEF InvRz, RedesRz, LerEvento
<1>4. abaRz' \in AbasRz
  BY <1>2 DEF InvRz, AbasRz, LerEvento, Avisos
<1>5. filhoRz.vivo /\ filhoRz' = filhoRz
  BY <1>1 DEF InvRz, SoVivo, LerEvento
<1>6. SoVivo'
  BY <1>5 DEF SoVivo
<1>. QED BY <1>3, <1>4, <1>6 DEF InvRz, LerEvento

LEMMA CairRzInv == ASSUME InvRz, CairRz PROVE InvRz'
<1>1. abaRz' \in AbasRz /\ abaRz'.proc = FALSE
  BY DEF InvRz, CairRz, AbasRz
<1>2. filhoRz' \in FilhosRz
  BY FilhoNovoTipo DEF InvRz, CairRz, AbasRz
<1>3. SoVivo'
  BY <1>1 DEF SoVivo, CairRz, FilhoNovo
<1>. QED BY <1>1, <1>2, <1>3, RedeVaziaRz, FiosParados DEF InvRz, CairRz

LEMMA ConectarInv == ASSUME InvRz, Conectar PROVE InvRz'
<1>1. abaRz' \in AbasRz
  <2>1. 0 \in Tamanhos \union {0}
    OBVIOUS
  <2>. QED BY <2>1 DEF InvRz, Conectar, AbasRz
<1>2. filhoRz' \in FilhosRz /\ filhoRz'.vivo
  <2>1. FilhoNovo(abaRz.tam) \in FilhosRz
    BY FilhoNovoTipo DEF InvRz, AbasRz
  <2>. DEFINE c == FilhoNovo(abaRz.tam)
  <2>2. filhoRz' = [c EXCEPT !.vivo = TRUE] /\ c \in FilhosRz
    BY <2>1 DEF Conectar
  <2>. HIDE DEF c
  <2>. QED BY <2>2 DEF FilhosRz
<1>3. redeRz' \in RedesRz
  <2>1. <<"conectado">> \in Seq(Avisos)
    BY DEF Avisos
  <2>. QED BY <2>1 DEF InvRz, Conectar, RedesRz
<1>4. SoVivo'
  BY <1>2 DEF SoVivo
<1>. QED BY <1>1, <1>2, <1>3, <1>4 DEF InvRz, Conectar

\* The child: what pedirResize asks is kept in Nat, accepted or refused.
LEMMA PedirTipo ==
  ASSUME InvRz, NEW f \in Fios, NEW t \in Nat, Pedir(f, t)
  PROVE  fiosRz' \in [Fios -> UmFioRz] /\ Layouts(t) \in Seq(Nat)
<1>1. Ajustar(t) \in Nat
  BY AjustarEmNat
<1>2. [fase |-> "aceito", valor |-> Ajustar(t)] \in UmFioRz
  BY <1>1 DEF UmFioRz
<1>3. [fase |-> "recusado", valor |-> t] \in UmFioRz
  BY DEF UmFioRz
<1>4. fiosRz' \in [Fios -> UmFioRz]
  BY <1>2, <1>3 DEF InvRz, Pedir
<1>5. redeRz.layouts \in Seq(Nat)
  BY DEF InvRz, RedesRz
<1>6. Append(redeRz.layouts, Ajustar(t)) \in Seq(Nat)
  BY <1>1, <1>5, AppendProperties
<1>. QED BY <1>4, <1>5, <1>6 DEF Layouts

LEMMA LerCmdInv == ASSUME InvRz, LerCmd PROVE InvRz'
<1>. DEFINE t == Head(redeRz.cmds)
<1>1. redeRz.cmds \in Seq(Tamanhos \union {0}) /\ redeRz.cmds # <<>>
  BY DEF InvRz, RedesRz, LerCmd
<1>2. t \in Tamanhos \union {0} /\ Tail(redeRz.cmds) \in Seq(Tamanhos \union {0})
  BY <1>1, HeadTailProperties
<1>. HIDE DEF t
<1>3. t \in Nat
  BY <1>2, ResizeAssumption
<1>4. Pedir("laco", t) /\ redeRz' = [redeRz EXCEPT !.cmds = Tail(@), !.layouts = Layouts(t)]
  BY DEF LerCmd, t
<1>5. "laco" \in Fios
  BY DEF Fios
<1>6. fiosRz' \in [Fios -> UmFioRz] /\ Layouts(t) \in Seq(Nat)
  BY <1>3, <1>4, <1>5, PedirTipo
<1>7. redeRz' \in RedesRz /\ redeRz'.evts = redeRz.evts
  BY <1>2, <1>4, <1>6 DEF InvRz, RedesRz
<1>8. SoVivo'
  BY <1>7 DEF InvRz, LerCmd, SoVivo
<1>. QED BY <1>6, <1>7, <1>8 DEF InvRz, LerCmd

LEMMA PedirLidoInv == ASSUME InvRz, NEW f \in Fios, PedirLido(f) PROVE InvRz'
<1>. DEFINE t == fiosRz[f].valor
<1>1. t \in Nat
  BY DEF InvRz, UmFioRz
<1>2. Pedir(f, t) /\ redeRz' = [redeRz EXCEPT !.layouts = Layouts(t)]
  BY DEF PedirLido
<1>. HIDE DEF t
<1>3. fiosRz' \in [Fios -> UmFioRz] /\ Layouts(t) \in Seq(Nat)
  BY <1>1, <1>2, PedirTipo
<1>4. redeRz' \in RedesRz /\ redeRz'.evts = redeRz.evts
  BY <1>2, <1>3 DEF InvRz, RedesRz
<1>5. SoVivo'
  BY <1>4 DEF InvRz, PedirLido, SoVivo
<1>. QED BY <1>3, <1>4, <1>5 DEF InvRz, PedirLido

LEMMA AnotarAceitoInv == ASSUME InvRz, NEW f \in Fios, AnotarAceito(f) PROVE InvRz'
<1>. DEFINE n == (IF fiosRz[f].valor = filhoRz.alvo THEN filhoRz.tentativas ELSE 0) + 1
<1>1. fiosRz[f].valor \in Nat
  BY DEF InvRz, UmFioRz
<1>2. n \in Nat
  BY DEF InvRz, FilhosRz
<1>3. filhoRz' = [filhoRz EXCEPT !.pend = 0, !.alvo = fiosRz[f].valor, !.confere = TRUE,
                                 !.tentativas = n]
  BY DEF AnotarAceito
<1>. HIDE DEF n
<1>4. filhoRz' \in FilhosRz /\ filhoRz'.vivo = filhoRz.vivo /\ filhoRz'.pronto = filhoRz.pronto
  BY <1>1, <1>2, <1>3 DEF InvRz, FilhosRz
<1>5. fiosRz' \in [Fios -> UmFioRz]
  BY DEF InvRz, AnotarAceito, Parado, UmFioRz
<1>6. SoVivo'
  BY <1>4 DEF InvRz, AnotarAceito, SoVivo
<1>. QED BY <1>4, <1>5, <1>6 DEF InvRz, AnotarAceito

LEMMA AnotarRecusadoInv == ASSUME InvRz, NEW f \in Fios, AnotarRecusado(f) PROVE InvRz'
<1>1. fiosRz[f].valor \in Nat
  BY DEF InvRz, UmFioRz
<1>2. filhoRz' \in FilhosRz /\ filhoRz'.vivo = filhoRz.vivo /\ filhoRz'.pronto = filhoRz.pronto
  BY <1>1 DEF InvRz, AnotarRecusado, FilhosRz
<1>3. fiosRz' \in [Fios -> UmFioRz]
  BY DEF InvRz, AnotarRecusado, Parado, UmFioRz
<1>4. SoVivo'
  BY <1>2 DEF InvRz, AnotarRecusado, SoVivo
<1>. QED BY <1>2, <1>3, <1>4 DEF InvRz, AnotarRecusado

LEMMA ConferirResizeInv == ASSUME InvRz, ConferirResize PROVE InvRz'
<1>1. filhoRz' \in FilhosRz /\ filhoRz'.vivo = filhoRz.vivo /\ filhoRz'.pronto = filhoRz.pronto
  BY DEF InvRz, ConferirResize, FilhosRz
<1>2. [fase |-> "pedir", valor |-> filhoRz.alvo] \in UmFioRz
  BY DEF InvRz, FilhosRz, UmFioRz
<1>3. fiosRz' \in [Fios -> UmFioRz]
  BY <1>2 DEF InvRz, ConferirResize
<1>4. SoVivo'
  BY <1>1 DEF InvRz, ConferirResize, SoVivo
<1>. QED BY <1>1, <1>3, <1>4 DEF InvRz, ConferirResize

LEMMA DespacharInv == ASSUME InvRz, DespacharDispPronto PROVE InvRz'
<1>1. filhoRz' \in FilhosRz /\ filhoRz'.vivo = filhoRz.vivo
  BY DEF InvRz, DespacharDispPronto, FilhosRz
<1>2. [fase |-> "pedir", valor |-> filhoRz.pend] \in UmFioRz
  BY DEF InvRz, FilhosRz, UmFioRz
<1>3. fiosRz' \in [Fios -> UmFioRz]
  BY <1>2 DEF InvRz, DespacharDispPronto
<1>4. redeRz.evts \in Seq(Avisos) /\ "displayPronto" \in Avisos
  BY DEF InvRz, RedesRz, Avisos
<1>5. Append(redeRz.evts, "displayPronto") \in Seq(Avisos)
  BY <1>4, AppendProperties
<1>6. redeRz' \in RedesRz
  BY <1>5 DEF InvRz, DespacharDispPronto, RedesRz
<1>7. SoVivo'
  BY <1>1 DEF InvRz, DespacharDispPronto, SoVivo
<1>. QED BY <1>1, <1>3, <1>6, <1>7 DEF InvRz, DespacharDispPronto

\* The channel and the server.
LEMMA CanalInv == ASSUME InvRz, AbrirCanal \/ FecharCanal PROVE InvRz'
<1>1. filhoRz' \in FilhosRz
  BY DEF InvRz, AbrirCanal, FecharCanal, FilhosRz
<1>2. SoVivo'
  BY DEF InvRz, AbrirCanal, FecharCanal, SoVivo, FilhosRz
<1>. QED BY <1>1, <1>2 DEF InvRz, AbrirCanal, FecharCanal

LEMMA ServidorInv == ASSUME InvRz, Obedecer \/ Ignorar PROVE InvRz'
<1>1. redeRz.layouts \in Seq(Nat) /\ redeRz.layouts # <<>>
  BY DEF InvRz, RedesRz, Obedecer, Ignorar
<1>2. Head(redeRz.layouts) \in Nat /\ Tail(redeRz.layouts) \in Seq(Nat)
  BY <1>1, HeadTailProperties
<1>3. redeRz' \in RedesRz /\ redeRz'.evts = redeRz.evts
  BY <1>2 DEF InvRz, RedesRz, Obedecer, Ignorar
<1>4. /\ filhoRz' \in FilhosRz
      /\ filhoRz'.vivo = filhoRz.vivo /\ filhoRz'.pronto = filhoRz.pronto
  BY <1>2 DEF InvRz, FilhosRz, Obedecer, Ignorar
<1>5. SoVivo'
  BY <1>3, <1>4 DEF InvRz, Obedecer, Ignorar, SoVivo
<1>. QED BY <1>3, <1>4, <1>5 DEF InvRz, Obedecer, Ignorar

LEMMA PassoInvRz == InvRz /\ [NextRz]_varsRz => InvRz'
<1>. SUFFICES ASSUME InvRz, [NextRz]_varsRz PROVE InvRz'
  OBVIOUS
<1>1. CASE UNCHANGED varsRz
  <2>1. SoVivo'
    BY <1>1 DEF varsRz, InvRz, SoVivo
  <2>. QED BY <1>1, <2>1 DEF varsRz, InvRz
<1>2. CASE NextRz
  BY <1>2, RedimensionarInv, LayoutInv, DispararInv, LerEventoInv, CairRzInv, ConectarInv,
     LerCmdInv, PedirLidoInv, AnotarAceitoInv, AnotarRecusadoInv, ConferirResizeInv,
     DespacharInv, CanalInv, ServidorInv DEF NextRz, DaAba, DoFio, DoFilho
<1>. QED BY <1>1, <1>2

LEMMA InvRzTipos == InvRz => TiposRz
BY DEF InvRz, TiposRz, AbasRz, FilhosRz, UmFioRz, SoVivo

\* The resize under any scheduling: the fairness of SpecRz plays no part.
LEMMA ResizeInvariante == InitRz /\ [][NextRz]_varsRz => []InvRz
BY InitInvRz, PassoInvRz, PTL

\* Every variable of the resize keeps its type, and the tab holds a process
\* only while the child is up (EvtConectado, aoTerminar).
THEOREM ResizeTipos == SpecRz => []TiposRz
BY ResizeInvariante, InvRzTipos, PTL DEF SpecRz

-----------------------------------------------------------------------------
(* The clipboard: types.                                                   *)

TextosOuNada == TextosCl \union {0}
UmaAbaCl == [ligado : BOOLEAN, ultimo : TextosOuNada, proc : BOOLEAN]
UmFioCl == [ida : Seq(TextosCl), volta : Seq(TextosCl), remoto : TextosOuNada]
Mesas == [texto : TextosOuNada, ofertas : SUBSET TextosCl]
AppsCl == [cache : TextosOuNada, pendente : TextosOuNada, visivel : AbasTela]
AvisosCl == [ler : SUBSET AbasTela, lidos : SUBSET (AbasTela \X TextosCl)]

InvTiposCl ==
  /\ mesa \in Mesas /\ clipApp \in AppsCl /\ abaCl \in [AbasTela -> UmaAbaCl]
  /\ avisos \in AvisosCl /\ fioCl \in [AbasTela -> UmFioCl] /\ disputa \in BOOLEAN

LEMMA TextoNaoNada == /\ TextosCl \subseteq TextosOuNada /\ 0 \in TextosOuNada
                      /\ \A t \in TextosCl : t # 0
BY ClipboardAssumption DEF TextosOuNada

LEMMA InitTiposCl == InitCl => InvTiposCl
<1>. SUFFICES ASSUME InitCl PROVE InvTiposCl
  OBVIOUS
<1>1. (CHOOSE a \in AbasTela : TRUE) \in AbasTela
  BY ClipboardAssumption
<1>2. <<>> \in Seq(TextosCl)
  BY EmptySeq
<1>3. clipApp \in AppsCl
  BY <1>1, TextoNaoNada DEF InitCl, AppsCl
<1>4. fioCl \in [AbasTela -> UmFioCl]
  BY <1>2, TextoNaoNada DEF InitCl, UmFioCl
<1>5. abaCl \in [AbasTela -> UmaAbaCl] /\ mesa \in Mesas
  BY TextoNaoNada DEF InitCl, UmaAbaCl, Mesas
<1>6. avisos \in AvisosCl /\ disputa \in BOOLEAN
  BY DEF InitCl, AvisosCl
<1>. QED BY <1>3, <1>4, <1>5, <1>6 DEF InvTiposCl

\* A text handed to a tab is remembered by it and sent to its child.
LEMMA OnLocalTipos ==
  ASSUME InvTiposCl, NEW a \in AbasTela, NEW t \in TextosCl, OnLocalClipboard(a, t)
  PROVE  abaCl' \in [AbasTela -> UmaAbaCl] /\ fioCl' \in [AbasTela -> UmFioCl]
<1>1. CASE UNCHANGED <<abaCl, fioCl>>
  BY <1>1 DEF InvTiposCl
<1>2. CASE /\ abaCl' = [abaCl EXCEPT ![a].ultimo = t]
           /\ fioCl' = IF abaCl[a].proc THEN [fioCl EXCEPT ![a].ida = Append(@, t)] ELSE fioCl
  <2>. DEFINE o == [abaCl[a] EXCEPT !.ultimo = t]
              x == [fioCl[a] EXCEPT !.ida = Append(@, t)]
  <2>1. o \in UmaAbaCl
    BY TextoNaoNada DEF InvTiposCl, UmaAbaCl
  <2>2. x \in UmFioCl
    <3>1. fioCl[a].ida \in Seq(TextosCl)
      BY DEF InvTiposCl, UmFioCl
    <3>2. Append(fioCl[a].ida, t) \in Seq(TextosCl)
      BY <3>1, AppendProperties
    <3>. QED BY <3>2 DEF InvTiposCl, UmFioCl
  <2>3. abaCl' = [abaCl EXCEPT ![a] = o]
    BY <1>2
  <2>4. fioCl' = [fioCl EXCEPT ![a] = x] \/ fioCl' = fioCl
    BY <1>2
  <2>. HIDE DEF o, x
  <2>. QED BY <2>1, <2>2, <2>3, <2>4 DEF InvTiposCl
<1>. QED BY <1>1, <1>2 DEF OnLocalClipboard

LEMMA CopiarTipos == ASSUME InvTiposCl, NEW t \in TextosCl, Copiar(t) PROVE InvTiposCl'
<1>1. mesa' \in Mesas
  BY TextoNaoNada DEF InvTiposCl, Copiar, Mesas
<1>2. disputa' \in BOOLEAN
  BY DEF InvTiposCl, Copiar
<1>. QED BY <1>1, <1>2 DEF InvTiposCl, Copiar

LEMMA LerOfertaTipos == ASSUME InvTiposCl, NEW t \in TextosCl, LerOferta(t) PROVE InvTiposCl'
<1>1. mesa' \in Mesas /\ clipApp' \in AppsCl
  BY TextoNaoNada DEF InvTiposCl, LerOferta, Mesas, AppsCl
<1>2. abaCl' \in [AbasTela -> UmaAbaCl] /\ fioCl' \in [AbasTela -> UmFioCl]
  <2>1. clipApp.visivel \in AbasTela
    BY DEF InvTiposCl, AppsCl
  <2>. QED BY <2>1, OnLocalTipos DEF LerOferta
<1>. QED BY <1>1, <1>2 DEF InvTiposCl, LerOferta

LEMMA EntregarTipos == ASSUME InvTiposCl, EntregarClipboard PROVE InvTiposCl'
<1>1. clipApp.pendente \in TextosCl
  BY DEF InvTiposCl, EntregarClipboard, AppsCl, TextosOuNada
<1>2. mesa' \in Mesas /\ clipApp' \in AppsCl
  BY <1>1, TextoNaoNada DEF InvTiposCl, EntregarClipboard, Mesas, AppsCl
<1>. QED BY <1>2 DEF InvTiposCl, EntregarClipboard

LEMMA MarcarTipos == ASSUME InvTiposCl, NEW a \in AbasTela, MarcarAbaAtiva(a) PROVE InvTiposCl'
<1>1. clipApp' \in AppsCl /\ avisos' \in AvisosCl
  BY DEF InvTiposCl, MarcarAbaAtiva, AppsCl, AvisosCl
<1>2. disputa' \in BOOLEAN
  BY DEF InvTiposCl, MarcarAbaAtiva
<1>. QED BY <1>1, <1>2 DEF InvTiposCl, MarcarAbaAtiva

LEMMA AlternarTipos == ASSUME InvTiposCl, NEW a \in AbasTela, AlternarClip(a) PROVE InvTiposCl'
<1>1. abaCl' \in [AbasTela -> UmaAbaCl]
  BY DEF InvTiposCl, AlternarClip, UmaAbaCl
<1>. QED BY <1>1 DEF InvTiposCl, AlternarClip

LEMMA LerCacheTipos == ASSUME InvTiposCl, NEW a \in AbasTela, LerCache(a) PROVE InvTiposCl'
<1>1. clipApp.cache # 0 => clipApp.cache \in TextosCl
  BY DEF InvTiposCl, AppsCl, TextosOuNada
<1>2. (IF clipApp.cache = 0 THEN {} ELSE {<<a, clipApp.cache>>}) \subseteq AbasTela \X TextosCl
  BY <1>1
<1>3. avisos.ler \subseteq AbasTela /\ avisos.lidos \subseteq AbasTela \X TextosCl
  BY DEF InvTiposCl, AvisosCl
<1>4. avisos' \in AvisosCl
  BY <1>2, <1>3 DEF LerCache, AvisosCl
<1>. QED BY <1>4 DEF InvTiposCl, LerCache

LEMMA OferecerLidoTipos ==
  ASSUME InvTiposCl, NEW a \in AbasTela, NEW t \in TextosCl, OferecerLido(a, t)
  PROVE  InvTiposCl'
<1>1. avisos' \in AvisosCl
  BY DEF InvTiposCl, OferecerLido, AvisosCl
<1>2. abaCl' \in [AbasTela -> UmaAbaCl] /\ fioCl' \in [AbasTela -> UmFioCl]
  BY OnLocalTipos DEF OferecerLido
<1>. QED BY <1>1, <1>2 DEF InvTiposCl, OferecerLido

LEMMA ConectadoTipos == ASSUME InvTiposCl, NEW a \in AbasTela, EvtConectado(a) PROVE InvTiposCl'
<1>1. abaCl' \in [AbasTela -> UmaAbaCl]
  <2>. DEFINE o == [abaCl[a] EXCEPT !.proc = TRUE, !.ultimo = 0]
  <2>1. o \in UmaAbaCl
    BY TextoNaoNada DEF InvTiposCl, UmaAbaCl
  <2>2. abaCl' = [abaCl EXCEPT ![a] = o]
    BY DEF EvtConectado, InvTiposCl
  <2>. HIDE DEF o
  <2>. QED BY <2>1, <2>2 DEF InvTiposCl
<1>2. avisos' \in AvisosCl
  BY DEF InvTiposCl, EvtConectado, AvisosCl
<1>3. disputa' \in BOOLEAN
  BY DEF InvTiposCl, EvtConectado
<1>. QED BY <1>1, <1>2, <1>3 DEF InvTiposCl, EvtConectado

LEMMA CairClTipos == ASSUME InvTiposCl, NEW a \in AbasTela, CairCl(a) PROVE InvTiposCl'
<1>1. abaCl' \in [AbasTela -> UmaAbaCl]
  BY DEF InvTiposCl, CairCl, UmaAbaCl
<1>2. fioCl' \in [AbasTela -> UmFioCl]
  <2>. DEFINE x == [fioCl[a] EXCEPT !.ida = <<>>, !.volta = <<>>]
  <2>0. <<>> \in Seq(TextosCl)
    BY EmptySeq
  <2>1. x \in UmFioCl
    BY <2>0 DEF InvTiposCl, UmFioCl
  <2>2. fioCl' = [fioCl EXCEPT ![a] = x]
    BY DEF CairCl, InvTiposCl
  <2>. HIDE DEF x
  <2>. QED BY <2>1, <2>2 DEF InvTiposCl
<1>. QED BY <1>1, <1>2 DEF InvTiposCl, CairCl

LEMMA EvtClipboardTipos == ASSUME InvTiposCl, NEW a \in AbasTela, EvtClipboard(a) PROVE InvTiposCl'
<1>. DEFINE t == Head(fioCl[a].volta)
<1>1. fioCl[a].volta \in Seq(TextosCl) /\ fioCl[a].volta # <<>>
  BY DEF InvTiposCl, UmFioCl, EvtClipboard
<1>2. t \in TextosCl /\ Tail(fioCl[a].volta) \in Seq(TextosCl)
  BY <1>1, HeadTailProperties
<1>3. \/ UNCHANGED <<abaCl, clipApp>>
      \/ /\ abaCl' = [abaCl EXCEPT ![a].ultimo = t]
         /\ clipApp' = [clipApp EXCEPT !.cache = t, !.pendente = t]
  BY DEF EvtClipboard
<1>4. fioCl' = [fioCl EXCEPT ![a].volta = Tail(@)]
  BY DEF EvtClipboard
<1>. HIDE DEF t
<1>5. abaCl' \in [AbasTela -> UmaAbaCl] /\ clipApp' \in AppsCl
  <2>1. t \in TextosOuNada
    BY <1>2, TextoNaoNada
  <2>2. abaCl' \in [AbasTela -> UmaAbaCl]
    BY <2>1, <1>3 DEF InvTiposCl, UmaAbaCl
  <2>3. clipApp' \in AppsCl
    BY <2>1, <1>3 DEF InvTiposCl, AppsCl
  <2>. QED BY <2>2, <2>3
<1>6. fioCl' \in [AbasTela -> UmFioCl]
  BY <1>2, <1>4 DEF InvTiposCl, UmFioCl
<1>. QED BY <1>5, <1>6 DEF InvTiposCl, EvtClipboard

LEMMA AplicarTipos == ASSUME InvTiposCl, NEW a \in AbasTela, AplicarNoRemoto(a) PROVE InvTiposCl'
<1>. DEFINE t == Head(fioCl[a].ida)
<1>1. fioCl[a].ida \in Seq(TextosCl) /\ fioCl[a].ida # <<>>
  BY DEF InvTiposCl, UmFioCl, AplicarNoRemoto
<1>2. t \in TextosCl /\ Tail(fioCl[a].ida) \in Seq(TextosCl)
  BY <1>1, HeadTailProperties
<1>3. PICK eco \in {<<>>, <<t>>} :
        fioCl' = [fioCl EXCEPT ![a].remoto = t, ![a].ida = Tail(@), ![a].volta = @ \o eco]
  BY DEF AplicarNoRemoto
<1>. HIDE DEF t
<1>4. eco \in Seq(TextosCl)
  <2>1. <<>> \in Seq(TextosCl)
    BY EmptySeq
  <2>2. <<t>> \in Seq(TextosCl)
    BY <1>2
  <2>3. eco = <<>> \/ eco = <<t>>
    OBVIOUS
  <2>. QED BY <2>1, <2>2, <2>3
<1>5. fioCl[a].volta \in Seq(TextosCl)
  BY DEF InvTiposCl, UmFioCl
<1>6. fioCl[a].volta \o eco \in Seq(TextosCl)
  BY <1>4, <1>5, ConcatProperties
<1>. DEFINE x == [fioCl[a] EXCEPT !.remoto = t, !.ida = Tail(@), !.volta = @ \o eco]
<1>7. x \in UmFioCl
  BY <1>2, <1>6, TextoNaoNada DEF InvTiposCl, UmFioCl
<1>8. fioCl' = [fioCl EXCEPT ![a] = x]
  BY <1>3 DEF InvTiposCl
<1>. HIDE DEF x
<1>9. fioCl' \in [AbasTela -> UmFioCl]
  BY <1>7, <1>8 DEF InvTiposCl
<1>. QED BY <1>9 DEF InvTiposCl, AplicarNoRemoto

LEMMA CopiarNoRemotoTipos ==
  ASSUME InvTiposCl, NEW a \in AbasTela, NEW t \in TextosCl, CopiarNoRemoto(a, t)
  PROVE  InvTiposCl'
<1>1. fioCl[a].volta \in Seq(TextosCl)
  BY DEF InvTiposCl, UmFioCl
<1>2. Append(fioCl[a].volta, t) \in Seq(TextosCl)
  BY <1>1, AppendProperties
<1>. DEFINE x == [fioCl[a] EXCEPT !.remoto = t, !.volta = Append(@, t)]
<1>3. x \in UmFioCl
  BY <1>2, TextoNaoNada DEF InvTiposCl, UmFioCl
<1>4. fioCl' = [fioCl EXCEPT ![a] = x]
  BY DEF CopiarNoRemoto, InvTiposCl
<1>. HIDE DEF x
<1>5. fioCl' \in [AbasTela -> UmFioCl]
  BY <1>3, <1>4 DEF InvTiposCl
<1>6. disputa' \in BOOLEAN
  BY DEF InvTiposCl, CopiarNoRemoto
<1>. QED BY <1>5, <1>6 DEF InvTiposCl, CopiarNoRemoto

LEMMA PassoTiposCl == InvTiposCl /\ [NextCl]_varsCl => InvTiposCl'
<1>. SUFFICES ASSUME InvTiposCl, [NextCl]_varsCl PROVE InvTiposCl'
  OBVIOUS
<1>1. CASE UNCHANGED varsCl
  BY <1>1 DEF varsCl, InvTiposCl
<1>2. CASE NextCl
  BY <1>2, CopiarTipos, LerOfertaTipos, EntregarTipos, MarcarTipos, AlternarTipos,
     LerCacheTipos, OferecerLidoTipos, ConectadoTipos, CairClTipos, EvtClipboardTipos,
     AplicarTipos, CopiarNoRemotoTipos DEF NextCl, DaMesa, DaAbaCl
<1>. QED BY <1>1, <1>2

LEMMA InvTiposClTipos == InvTiposCl => TiposCl
BY DEF InvTiposCl, TiposCl, Mesas, AppsCl, AvisosCl, UmaAbaCl, TextosOuNada

LEMMA ClipTiposSempre == InitCl /\ [][NextCl]_varsCl => []InvTiposCl
BY InitTiposCl, PassoTiposCl, PTL

\* Every variable of the clipboard keeps its type.
THEOREM ClipTipos == SpecCl => []TiposCl
BY ClipTiposSempre, InvTiposClTipos, PTL DEF SpecCl

-----------------------------------------------------------------------------
(* The clipboard: the machine in view gets the text of the desktop.        *)
(*                                                                         *)
(* Until two copies cross there is at most one text on its way, and it is  *)
(* in one of seven phases. A state is in order when it is in one of them,  *)
(* and what each tab remembers agrees with its machine.                    *)

AVista == clipApp.visivel

FiosVazios == \A b \in AbasTela : fioCl[b].ida = <<>> /\ fioCl[b].volta = <<>>
ForaDaVista == \A b \in AbasTela : b # AVista => fioCl[b].ida = <<>> /\ fioCl[b].volta = <<>>
SemAviso == /\ mesa.ofertas = {} /\ clipApp.pendente = 0
            /\ avisos.ler = {} /\ avisos.lidos = {}

\* Nothing is on its way.
Descansa ==
  /\ SemAviso /\ FiosVazios /\ clipApp.cache = mesa.texto
  /\ abaCl[AVista].proc =>
       /\ abaCl[AVista].ultimo \in {0, mesa.texto}
       /\ mesa.texto # 0 => fioCl[AVista].remoto = mesa.texto
\* The text of the desktop is offered to the application.
Oferecida ==
  /\ mesa.ofertas = {mesa.texto} /\ clipApp.pendente = 0
  /\ avisos.ler = {} /\ avisos.lidos = {} /\ FiosVazios
\* The text of the remote machine waits for the frame loop.
Publicada ==
  /\ mesa.ofertas = {} /\ clipApp.pendente # 0
  /\ avisos.ler = {} /\ avisos.lidos = {} /\ FiosVazios
  /\ clipApp.cache = clipApp.pendente /\ abaCl[AVista].ultimo = clipApp.pendente
\* The tab in view is about to read the cache.
Lembrada ==
  /\ mesa.ofertas = {} /\ clipApp.pendente = 0
  /\ avisos.ler = {AVista} /\ avisos.lidos = {} /\ FiosVazios
  /\ clipApp.cache = mesa.texto
\* It read it, and is about to hand it over.
Lida ==
  /\ mesa.ofertas = {} /\ clipApp.pendente = 0
  /\ avisos.ler = {} /\ avisos.lidos = {<<AVista, mesa.texto>>} /\ FiosVazios
  /\ clipApp.cache = mesa.texto
\* It travels to the child.
NaIda ==
  /\ SemAviso /\ ForaDaVista /\ clipApp.cache = mesa.texto
  /\ fioCl[AVista].ida = <<mesa.texto>> /\ fioCl[AVista].volta = <<>>
  /\ abaCl[AVista].proc /\ abaCl[AVista].ultimo = mesa.texto
\* The child tells the text of its machine.
NaVolta ==
  /\ SemAviso /\ ForaDaVista /\ clipApp.cache = mesa.texto
  /\ fioCl[AVista].ida = <<>> /\ fioCl[AVista].volta = <<fioCl[AVista].remoto>>
  /\ abaCl[AVista].proc /\ abaCl[AVista].ultimo \in {0, mesa.texto}

\* A tab remembers a text only after there was one.
SoDepoisDeUm ==
  \A b \in AbasTela : abaCl[b].ultimo # 0 => mesa.texto # 0 \/ clipApp.pendente # 0
\* At rest, the machine of a connected tab has what its tab remembers.
Concorda ==
  \A b \in AbasTela : /\ abaCl[b].proc /\ abaCl[b].ultimo # 0
                      /\ fioCl[b].ida = <<>> /\ fioCl[b].volta = <<>>
    => fioCl[b].remoto = abaCl[b].ultimo
EmOrdem ==
  /\ \A b \in AbasTela : abaCl[b].ligado
  /\ SoDepoisDeUm /\ Concorda
  /\ Descansa \/ Oferecida \/ Publicada \/ Lembrada \/ Lida \/ NaIda \/ NaVolta

InvOrdemCl == InvTiposCl /\ (disputa \/ EmOrdem)

\* A queue that holds one text.
LEMMA UmTexto ==
  ASSUME NEW t
  PROVE  /\ Append(<<>>, t) = <<t>> /\ <<>> \o <<t>> = <<t>> /\ <<>> \o <<>> = <<>>
         /\ Head(<<t>>) = t /\ Tail(<<t>>) = <<>> /\ <<t>> # <<>>
<1>1. Append(<<>>, t) = <<t>> /\ Head(<<t>>) = t
  OBVIOUS
<1>2. Tail(<<t>>) = <<>>
  OBVIOUS
<1>3. <<>> \o <<t>> = <<t>> /\ <<>> \o <<>> = <<>>
  <2>1. <<t>> \in Seq({t}) /\ <<>> \in Seq({t})
    OBVIOUS
  <2>. QED BY <2>1, ConcatEmptySeq
<1>4. <<t>> # <<>>
  OBVIOUS
<1>. QED BY <1>1, <1>2, <1>3, <1>4

LEMMA VistaTipo == InvTiposCl => AVista \in AbasTela
BY DEF InvTiposCl, AppsCl, AVista

\* What is at rest is the first phase.
LEMMA QuietoDescansa == ASSUME InvTiposCl, EmOrdem, QuietoCl PROVE Descansa
<1>1. AVista \in AbasTela
  BY VistaTipo
<1>2. ~Oferecida /\ ~Publicada /\ ~Lembrada /\ ~Lida
  BY DEF QuietoCl, Oferecida, Publicada, Lembrada, Lida
<1>3. fioCl[AVista].ida = <<>> /\ fioCl[AVista].volta = <<>>
  BY <1>1 DEF QuietoCl
<1>4. ~NaIda
  BY <1>3, UmTexto DEF NaIda
<1>5. ~NaVolta
  BY <1>3, UmTexto DEF NaVolta
<1>. QED BY <1>2, <1>4, <1>5 DEF EmOrdem

LEMMA InitOrdemCl == InitCl => EmOrdem
<1>. SUFFICES ASSUME InitCl PROVE EmOrdem
  OBVIOUS
<1>1. AVista \in AbasTela
  BY InitTiposCl, VistaTipo
<1>2. \A b \in AbasTela : /\ abaCl[b] = [ligado |-> TRUE, ultimo |-> 0, proc |-> FALSE]
                          /\ fioCl[b].ida = <<>> /\ fioCl[b].volta = <<>>
  BY DEF InitCl
<1>3. Descansa
  BY <1>1, <1>2 DEF InitCl, Descansa, SemAviso, FiosVazios
<1>4. SoDepoisDeUm /\ Concorda /\ \A b \in AbasTela : abaCl[b].ligado
  BY <1>2 DEF SoDepoisDeUm, Concorda
<1>. QED BY <1>3, <1>4 DEF EmOrdem

LEMMA CopiarOrdem ==
  ASSUME InvTiposCl, EmOrdem, NEW t \in TextosCl, Copiar(t), ~disputa' PROVE EmOrdem'
<1>1. QuietoCl
  BY DEF Copiar
<1>2. Descansa
  BY <1>1, QuietoDescansa
<1>3. Oferecida'
  BY <1>2 DEF Descansa, Copiar, Oferecida, SemAviso, FiosVazios
<1>4. SoDepoisDeUm'
  BY TextoNaoNada DEF Copiar, SoDepoisDeUm
<1>5. Concorda'
  BY DEF Copiar, EmOrdem, Concorda
<1>. QED BY <1>3, <1>4, <1>5 DEF EmOrdem, Copiar

\* The text of the desktop reaches the tab in view, by an offer or from the
\* cache: it is news, and travels; or it is not, and the machine has it.
LEMMA EntregaOrdem ==
  ASSUME InvTiposCl, EmOrdem, FiosVazios, NEW t \in TextosCl, t = mesa.texto,
         OnLocalClipboard(AVista, t), SemAviso', clipApp'.cache = t,
         AVista' = AVista, mesa'.texto = mesa.texto
  PROVE  EmOrdem'
<1>. DEFINE w == AVista
<1>1. w \in AbasTela
  BY VistaTipo
<1>2. t # 0
  BY TextoNaoNada
<1>3. abaCl[w].ligado
  BY <1>1 DEF EmOrdem
<1>4. CASE abaCl[w].ultimo = t
  <2>1. UNCHANGED <<abaCl, fioCl>>
    BY <1>4 DEF OnLocalClipboard, EhNovo
  <2>2. abaCl[w].proc => fioCl[w].remoto = t
    BY <1>1, <1>2, <1>4 DEF EmOrdem, Concorda, FiosVazios
  <2>3. Descansa'
    BY <1>4, <2>1, <2>2 DEF Descansa, FiosVazios
  <2>4. SoDepoisDeUm'
    BY <1>2 DEF SoDepoisDeUm
  <2>5. Concorda'
    BY <2>1 DEF EmOrdem, Concorda
  <2>. QED BY <2>1, <2>3, <2>4, <2>5 DEF EmOrdem
<1>5. CASE abaCl[w].ultimo # t
  <2>1. /\ abaCl' = [abaCl EXCEPT ![w].ultimo = t]
        /\ fioCl' = IF abaCl[w].proc THEN [fioCl EXCEPT ![w].ida = Append(@, t)] ELSE fioCl
    BY <1>3, <1>5 DEF OnLocalClipboard, EhNovo
  <2>. HIDE DEF w
  <2>2. /\ abaCl'[w].ultimo = t /\ abaCl'[w].proc = abaCl[w].proc
        /\ \A b \in AbasTela : abaCl'[b].ligado
        /\ \A b \in AbasTela : b # w => abaCl'[b] = abaCl[b]
    BY <1>1, <2>1 DEF InvTiposCl, UmaAbaCl, EmOrdem
  <2>3. /\ \A b \in AbasTela : b # w => fioCl'[b] = fioCl[b]
        /\ fioCl'[w].volta = <<>>
    BY <1>1, <2>1 DEF InvTiposCl, UmFioCl, FiosVazios
  <2>4. SoDepoisDeUm'
    BY <1>2 DEF SoDepoisDeUm
  <2>5. CASE abaCl[w].proc
    <3>1. fioCl'[w].ida = <<t>>
      <4>1. fioCl'[w].ida = Append(fioCl[w].ida, t)
        BY <1>1, <2>1, <2>5 DEF InvTiposCl, UmFioCl
      <4>2. fioCl[w].ida = <<>>
        BY <1>1 DEF FiosVazios
      <4>. QED BY <4>1, <4>2, UmTexto
    <3>2. ForaDaVista'
      BY <2>3 DEF FiosVazios, ForaDaVista, w
    <3>3. NaIda'
      BY <2>2, <2>3, <2>5, <3>1, <3>2 DEF NaIda, w
    <3>4. Concorda'
      <4>1. fioCl'[w].ida # <<>>
        BY <3>1, UmTexto
      <4>. QED BY <2>2, <2>3, <4>1 DEF EmOrdem, Concorda
    <3>. QED BY <2>2, <2>4, <3>3, <3>4 DEF EmOrdem
  <2>6. CASE ~abaCl[w].proc
    <3>1. fioCl' = fioCl
      BY <2>1, <2>6
    <3>2. Descansa'
      BY <2>2, <2>6, <3>1 DEF Descansa, FiosVazios, w
    <3>3. Concorda'
      BY <2>2, <2>6, <3>1 DEF EmOrdem, Concorda
    <3>. QED BY <2>2, <2>4, <3>2, <3>3 DEF EmOrdem
  <2>. QED BY <2>5, <2>6
<1>. QED BY <1>4, <1>5

LEMMA LerOfertaOrdem ==
  ASSUME InvTiposCl, EmOrdem, NEW t \in TextosCl, LerOferta(t) PROVE EmOrdem'
<1>1. t \in mesa.ofertas
  BY DEF LerOferta
<1>2. Oferecida
  BY <1>1 DEF EmOrdem, Descansa, SemAviso, Publicada, Lembrada, Lida, NaIda, NaVolta
<1>3. t = mesa.texto /\ FiosVazios
  BY <1>1, <1>2 DEF Oferecida
<1>4. OnLocalClipboard(AVista, t)
  BY DEF LerOferta, AVista
<1>5. /\ clipApp'.cache = t /\ clipApp'.pendente = clipApp.pendente
      /\ AVista' = AVista
  BY DEF LerOferta, InvTiposCl, AppsCl, AVista
<1>6. mesa'.texto = mesa.texto /\ mesa'.ofertas = mesa.ofertas \ {t}
  BY DEF LerOferta, InvTiposCl, Mesas
<1>7. SemAviso'
  BY <1>2, <1>3, <1>5, <1>6 DEF SemAviso, Oferecida, LerOferta
<1>. QED BY <1>3, <1>4, <1>5, <1>6, <1>7, EntregaOrdem

LEMMA OferecerLidoOrdem ==
  ASSUME InvTiposCl, EmOrdem, NEW a \in AbasTela, NEW t \in TextosCl, OferecerLido(a, t)
  PROVE  EmOrdem'
<1>1. <<a, t>> \in avisos.lidos
  BY DEF OferecerLido
<1>2. Lida
  BY <1>1 DEF EmOrdem, Descansa, SemAviso, Publicada, Lembrada, Oferecida, NaIda, NaVolta
<1>3. a = AVista /\ t = mesa.texto /\ FiosVazios
  BY <1>1, <1>2 DEF Lida
<1>4. OnLocalClipboard(AVista, t)
  BY <1>3 DEF OferecerLido
<1>5. clipApp'.cache = t /\ AVista' = AVista /\ mesa'.texto = mesa.texto
  BY <1>2, <1>3 DEF OferecerLido, Lida, AVista
<1>6. avisos'.ler = avisos.ler /\ avisos'.lidos = avisos.lidos \ {<<a, t>>}
  BY DEF OferecerLido, InvTiposCl, AvisosCl
<1>7. SemAviso'
  BY <1>2, <1>3, <1>6 DEF SemAviso, Lida, OferecerLido
<1>. QED BY <1>3, <1>4, <1>5, <1>7, EntregaOrdem

LEMMA EntregarOrdem == ASSUME InvTiposCl, EmOrdem, EntregarClipboard PROVE EmOrdem'
<1>1. Publicada
  BY DEF EntregarClipboard, EmOrdem, Descansa, SemAviso, Oferecida, Lembrada, Lida, NaIda, NaVolta
<1>2. /\ mesa'.texto = clipApp.pendente /\ mesa'.ofertas = {clipApp.pendente}
      /\ clipApp'.pendente = 0
  BY <1>1 DEF EntregarClipboard, Publicada, InvTiposCl, AppsCl
<1>3. Oferecida'
  BY <1>1, <1>2 DEF EntregarClipboard, Publicada, Oferecida, FiosVazios
<1>4. SoDepoisDeUm' /\ Concorda'
  BY <1>1, <1>2 DEF EntregarClipboard, Publicada, SoDepoisDeUm, EmOrdem, Concorda
<1>. QED BY <1>3, <1>4 DEF EmOrdem, EntregarClipboard

LEMMA MarcarOrdem ==
  ASSUME InvTiposCl, EmOrdem, NEW a \in AbasTela, MarcarAbaAtiva(a), ~disputa' PROVE EmOrdem'
<1>1. QuietoCl
  BY DEF MarcarAbaAtiva
<1>2. Descansa
  BY <1>1, QuietoDescansa
<1>3. AVista' = a /\ clipApp'.cache = clipApp.cache /\ clipApp'.pendente = clipApp.pendente
  BY DEF MarcarAbaAtiva, AVista, InvTiposCl, AppsCl
<1>4. avisos'.ler = avisos.ler \union {a} /\ avisos'.lidos = avisos.lidos
  BY DEF MarcarAbaAtiva, InvTiposCl, AvisosCl
<1>5. Lembrada'
  BY <1>2, <1>3, <1>4 DEF Descansa, SemAviso, Lembrada, MarcarAbaAtiva, FiosVazios
<1>6. SoDepoisDeUm' /\ Concorda'
  BY <1>3 DEF MarcarAbaAtiva, EmOrdem, SoDepoisDeUm, Concorda
<1>. QED BY <1>5, <1>6 DEF EmOrdem, MarcarAbaAtiva

LEMMA LerCacheOrdem ==
  ASSUME InvTiposCl, EmOrdem, NEW a \in AbasTela, LerCache(a) PROVE EmOrdem'
<1>1. Lembrada
  BY DEF LerCache, EmOrdem, Descansa, SemAviso, Oferecida, Publicada, Lida, NaIda, NaVolta
<1>2. a = AVista /\ a \in AbasTela
  BY <1>1 DEF LerCache, Lembrada
<1>3. UNCHANGED <<mesa, clipApp, abaCl, fioCl>>
  BY DEF LerCache
<1>4. SoDepoisDeUm' /\ Concorda' /\ \A b \in AbasTela : abaCl'[b].ligado
  BY <1>3 DEF EmOrdem, SoDepoisDeUm, Concorda
<1>5. CASE clipApp.cache = 0
  <2>1. avisos' = [ler |-> {}, lidos |-> {}]
    BY <1>1, <1>2, <1>5 DEF LerCache, Lembrada
  <2>2. mesa.texto = 0 /\ clipApp.pendente = 0
    BY <1>1, <1>5 DEF Lembrada
  <2>3. abaCl[a].ultimo = 0
    BY <2>2 DEF EmOrdem, SoDepoisDeUm
  <2>4. Descansa'
    BY <1>1, <1>2, <1>3, <2>1, <2>2, <2>3 DEF Lembrada, Descansa, SemAviso, FiosVazios, AVista
  <2>. QED BY <1>4, <2>4 DEF EmOrdem
<1>6. CASE clipApp.cache # 0
  <2>1. avisos' = [ler |-> {}, lidos |-> {<<a, clipApp.cache>>}]
    BY <1>1, <1>2, <1>6 DEF LerCache, Lembrada
  <2>2. Lida'
    BY <1>1, <1>2, <1>3, <2>1 DEF Lembrada, Lida, FiosVazios, AVista
  <2>. QED BY <1>4, <2>2 DEF EmOrdem
<1>. QED BY <1>5, <1>6

LEMMA ConectadoOrdem ==
  ASSUME InvTiposCl, EmOrdem, NEW a \in AbasTela, EvtConectado(a), ~disputa' PROVE EmOrdem'
<1>1. QuietoCl
  BY DEF EvtConectado
<1>2. Descansa
  BY <1>1, QuietoDescansa
<1>3. UNCHANGED <<mesa, clipApp, fioCl>>
  BY DEF EvtConectado
<1>4. /\ abaCl'[a].ultimo = 0
      /\ \A b \in AbasTela : abaCl'[b].ligado
      /\ \A b \in AbasTela : b # a => abaCl'[b] = abaCl[b]
  BY DEF EvtConectado, InvTiposCl, UmaAbaCl, EmOrdem
<1>5. SoDepoisDeUm' /\ Concorda'
  BY <1>3, <1>4 DEF EmOrdem, SoDepoisDeUm, Concorda
<1>6. CASE a = AVista
  <2>1. avisos'.ler = {a} /\ avisos'.lidos = {}
    BY <1>2, <1>6 DEF EvtConectado, Descansa, SemAviso, AVista, InvTiposCl, AvisosCl
  <2>2. Lembrada'
    BY <1>2, <1>3, <1>6, <2>1 DEF Descansa, SemAviso, Lembrada, FiosVazios, AVista
  <2>. QED BY <1>4, <1>5, <2>2 DEF EmOrdem
<1>7. CASE a # AVista
  <2>1. avisos' = avisos /\ AVista' = AVista /\ abaCl'[AVista] = abaCl[AVista]
    BY <1>3, <1>4, <1>7, VistaTipo DEF EvtConectado, AVista
  <2>2. Descansa'
    BY <1>2, <1>3, <2>1 DEF Descansa, SemAviso, FiosVazios
  <2>. QED BY <1>4, <1>5, <2>2 DEF EmOrdem
<1>. QED BY <1>6, <1>7

LEMMA CairClOrdem ==
  ASSUME InvTiposCl, EmOrdem, NEW a \in AbasTela, CairCl(a) PROVE EmOrdem'
<1>1. UNCHANGED <<mesa, clipApp, avisos>> /\ AVista' = AVista
  BY DEF CairCl, AVista
<1>2. /\ abaCl'[a].proc = FALSE
      /\ \A b \in AbasTela : /\ abaCl'[b].ligado /\ abaCl'[b].ultimo = abaCl[b].ultimo
                             /\ abaCl'[b].proc => abaCl[b].proc
      /\ \A b \in AbasTela : b # a => abaCl'[b] = abaCl[b]
  BY DEF CairCl, InvTiposCl, UmaAbaCl, EmOrdem
<1>3. /\ fioCl'[a].ida = <<>> /\ fioCl'[a].volta = <<>>
      /\ \A b \in AbasTela : b # a => fioCl'[b] = fioCl[b]
  BY DEF CairCl, InvTiposCl, UmFioCl
<1>4. SoDepoisDeUm'
  BY <1>1, <1>2 DEF EmOrdem, SoDepoisDeUm
<1>5. Concorda'
  BY <1>2, <1>3 DEF EmOrdem, Concorda
<1>6. FiosVazios => FiosVazios'
  BY <1>3 DEF FiosVazios
<1>7. ForaDaVista => ForaDaVista'
  BY <1>1, <1>3 DEF ForaDaVista
<1>8. AVista \in AbasTela
  BY VistaTipo
<1>9. CASE Descansa
  <2>1. a # AVista => fioCl'[AVista] = fioCl[AVista] /\ abaCl'[AVista] = abaCl[AVista]
    BY <1>2, <1>3, <1>8
  <2>2. Descansa'
    BY <1>1, <1>2, <1>6, <1>9, <2>1 DEF Descansa, SemAviso
  <2>. QED BY <1>2, <1>4, <1>5, <2>2 DEF EmOrdem
<1>10. CASE Oferecida
  <2>1. Oferecida'
    BY <1>1, <1>6, <1>10 DEF Oferecida
  <2>. QED BY <1>2, <1>4, <1>5, <2>1 DEF EmOrdem
<1>11. CASE Publicada
  <2>1. Publicada'
    BY <1>1, <1>2, <1>6, <1>8, <1>11 DEF Publicada
  <2>. QED BY <1>2, <1>4, <1>5, <2>1 DEF EmOrdem
<1>12. CASE Lembrada
  <2>1. Lembrada'
    BY <1>1, <1>6, <1>12 DEF Lembrada
  <2>. QED BY <1>2, <1>4, <1>5, <2>1 DEF EmOrdem
<1>13. CASE Lida
  <2>1. Lida'
    BY <1>1, <1>6, <1>13 DEF Lida
  <2>. QED BY <1>2, <1>4, <1>5, <2>1 DEF EmOrdem
<1>14. CASE NaIda \/ NaVolta
  <2>1. CASE a = AVista
    <3>1. FiosVazios'
      BY <1>3, <1>14, <2>1 DEF NaIda, NaVolta, ForaDaVista, FiosVazios
    <3>2. Descansa'
      BY <1>1, <1>2, <1>14, <2>1, <3>1 DEF Descansa, SemAviso, NaIda, NaVolta
    <3>. QED BY <1>2, <1>4, <1>5, <3>2 DEF EmOrdem
  <2>2. CASE a # AVista
    <3>1. fioCl'[AVista] = fioCl[AVista] /\ abaCl'[AVista] = abaCl[AVista]
      BY <1>2, <1>3, <1>8, <2>2
    <3>2. NaIda => NaIda'
      BY <1>1, <1>7, <3>1 DEF NaIda, SemAviso
    <3>3. NaVolta => NaVolta'
      BY <1>1, <1>7, <3>1 DEF NaVolta, SemAviso
    <3>. QED BY <1>2, <1>4, <1>5, <1>14, <3>2, <3>3 DEF EmOrdem
  <2>. QED BY <2>1, <2>2
<1>. QED BY <1>9, <1>10, <1>11, <1>12, <1>13, <1>14 DEF EmOrdem

LEMMA EvtClipboardOrdem ==
  ASSUME InvTiposCl, EmOrdem, NEW a \in AbasTela, EvtClipboard(a) PROVE EmOrdem'
<1>1. fioCl[a].volta # <<>>
  BY DEF EvtClipboard
<1>2. NaVolta /\ a = AVista
  BY <1>1 DEF EmOrdem, FiosVazios, ForaDaVista, Descansa, Oferecida, Publicada, Lembrada, Lida,
     NaIda, NaVolta
<1>. DEFINE t == fioCl[a].remoto
<1>3. fioCl[a].volta = <<t>> /\ fioCl[a].ida = <<>>
  BY <1>2 DEF NaVolta
<1>4. Head(fioCl[a].volta) = t /\ Tail(fioCl[a].volta) = <<>>
  BY <1>3, UmTexto
<1>5. t \in TextosCl /\ t # 0
  <2>1. fioCl[a].volta \in Seq(TextosCl)
    BY DEF InvTiposCl, UmFioCl
  <2>2. Head(fioCl[a].volta) \in TextosCl
    BY <1>1, <2>1, HeadTailProperties
  <2>. QED BY <1>4, <2>2, TextoNaoNada
<1>6. UNCHANGED <<mesa, avisos>>
  BY DEF EvtClipboard
<1>7. /\ fioCl'[a].ida = <<>> /\ fioCl'[a].volta = <<>> /\ fioCl'[a].remoto = t
      /\ \A b \in AbasTela : b # a => fioCl'[b] = fioCl[b]
  BY <1>3, <1>4 DEF EvtClipboard, InvTiposCl, UmFioCl
<1>8. FiosVazios'
  BY <1>2, <1>7 DEF NaVolta, ForaDaVista, FiosVazios
<1>9. abaCl[a].ligado
  BY DEF EmOrdem
<1>10. CASE abaCl[a].ultimo = t
  <2>1. UNCHANGED <<abaCl, clipApp>>
    BY <1>4, <1>10 DEF EvtClipboard, EhNovo
  <2>2. mesa.texto = t
    BY <1>2, <1>5, <1>10 DEF NaVolta
  <2>3. Descansa'
    BY <1>2, <1>6, <1>7, <1>8, <2>1, <2>2 DEF NaVolta, Descansa, SemAviso, AVista
  <2>4. SoDepoisDeUm'
    BY <1>6, <2>1 DEF EmOrdem, SoDepoisDeUm
  <2>5. Concorda'
    BY <1>7, <1>10, <2>1 DEF EmOrdem, Concorda
  <2>. QED BY <2>1, <2>3, <2>4, <2>5 DEF EmOrdem
<1>11. CASE abaCl[a].ultimo # t
  <2>1. /\ abaCl' = [abaCl EXCEPT ![a].ultimo = t]
        /\ clipApp' = [clipApp EXCEPT !.cache = t, !.pendente = t]
    BY <1>2, <1>4, <1>9, <1>11 DEF EvtClipboard, EhNovo, AVista
  <2>2. /\ abaCl'[a].ultimo = t /\ \A b \in AbasTela : abaCl'[b].ligado
        /\ \A b \in AbasTela : b # a => abaCl'[b] = abaCl[b]
    BY <2>1 DEF InvTiposCl, UmaAbaCl, EmOrdem
  <2>3. clipApp'.cache = t /\ clipApp'.pendente = t /\ AVista' = AVista
    BY <2>1 DEF InvTiposCl, AppsCl, AVista
  <2>4. Publicada'
    BY <1>2, <1>5, <1>6, <1>8, <2>2, <2>3 DEF NaVolta, SemAviso, Publicada
  <2>5. SoDepoisDeUm'
    BY <1>5, <2>3 DEF SoDepoisDeUm
  <2>6. Concorda'
    BY <1>7, <2>2 DEF EmOrdem, Concorda
  <2>. QED BY <2>2, <2>4, <2>5, <2>6 DEF EmOrdem
<1>. QED BY <1>10, <1>11

LEMMA AplicarOrdem ==
  ASSUME InvTiposCl, EmOrdem, NEW a \in AbasTela, AplicarNoRemoto(a) PROVE EmOrdem'
<1>1. fioCl[a].ida # <<>>
  BY DEF AplicarNoRemoto
<1>2. NaIda /\ a = AVista
  BY <1>1 DEF EmOrdem, FiosVazios, ForaDaVista, Descansa, Oferecida, Publicada, Lembrada, Lida,
     NaIda, NaVolta
<1>. DEFINE t == mesa.texto
<1>3. Head(fioCl[a].ida) = t /\ Tail(fioCl[a].ida) = <<>> /\ fioCl[a].volta = <<>>
  BY <1>2, UmTexto DEF NaIda
<1>4. UNCHANGED <<mesa, clipApp, abaCl, avisos>> /\ AVista' = AVista
  BY DEF AplicarNoRemoto, AVista
<1>5. PICK eco \in {<<>>, <<t>>} :
        fioCl' = [fioCl EXCEPT ![a].remoto = t, ![a].ida = <<>>, ![a].volta = @ \o eco]
  BY <1>3 DEF AplicarNoRemoto
<1>6. /\ fioCl'[a].ida = <<>> /\ fioCl'[a].remoto = t
      /\ fioCl'[a].volta = fioCl[a].volta \o eco
      /\ \A b \in AbasTela : b # a => fioCl'[b] = fioCl[b]
  BY <1>5 DEF InvTiposCl, UmFioCl
<1>7. fioCl'[a].volta = eco
  BY <1>3, <1>5, <1>6, UmTexto
<1>8. abaCl[a].proc /\ abaCl[a].ultimo = t
  BY <1>2 DEF NaIda
<1>9. SoDepoisDeUm' /\ Concorda' /\ \A b \in AbasTela : abaCl'[b].ligado
  BY <1>4, <1>6, <1>8 DEF EmOrdem, SoDepoisDeUm, Concorda
<1>10. CASE eco = <<>>
  <2>1. FiosVazios'
    BY <1>2, <1>6, <1>7, <1>10 DEF NaIda, ForaDaVista, FiosVazios
  <2>2. Descansa'
    BY <1>2, <1>4, <1>6, <1>8, <2>1 DEF NaIda, Descansa, SemAviso
  <2>. QED BY <1>9, <2>2 DEF EmOrdem
<1>11. CASE eco = <<t>>
  <2>1. ForaDaVista'
    BY <1>2, <1>4, <1>6 DEF NaIda, ForaDaVista
  <2>2. NaVolta'
    BY <1>2, <1>4, <1>6, <1>7, <1>8, <1>11, <2>1 DEF NaIda, NaVolta, SemAviso
  <2>. QED BY <1>9, <2>2 DEF EmOrdem
<1>. QED BY <1>5, <1>10, <1>11

LEMMA CopiarNoRemotoOrdem ==
  ASSUME InvTiposCl, EmOrdem, NEW a \in AbasTela, NEW t \in TextosCl, CopiarNoRemoto(a, t),
         ~disputa'
  PROVE  EmOrdem'
<1>1. QuietoCl /\ a = AVista
  BY DEF CopiarNoRemoto, AVista
<1>2. Descansa
  BY <1>1, QuietoDescansa
<1>3. UNCHANGED <<mesa, clipApp, abaCl, avisos>> /\ AVista' = AVista
  BY DEF CopiarNoRemoto, AVista
<1>4. fioCl[a].ida = <<>> /\ fioCl[a].volta = <<>>
  BY <1>1 DEF QuietoCl
<1>5. /\ fioCl'[a].ida = fioCl[a].ida /\ fioCl'[a].remoto = t
      /\ fioCl'[a].volta = Append(fioCl[a].volta, t)
      /\ \A b \in AbasTela : b # a => fioCl'[b] = fioCl[b]
  BY DEF CopiarNoRemoto, InvTiposCl, UmFioCl
<1>6. fioCl'[a].volta = <<t>> /\ fioCl'[a].volta # <<>>
  BY <1>4, <1>5, UmTexto
<1>7. ForaDaVista'
  BY <1>1, <1>2, <1>3, <1>5 DEF Descansa, FiosVazios, ForaDaVista
<1>8. NaVolta'
  BY <1>1, <1>2, <1>3, <1>4, <1>5, <1>6, <1>7 DEF Descansa, NaVolta, SemAviso, CopiarNoRemoto
<1>9. SoDepoisDeUm' /\ Concorda' /\ \A b \in AbasTela : abaCl'[b].ligado
  BY <1>3, <1>5, <1>6 DEF EmOrdem, SoDepoisDeUm, Concorda
<1>. QED BY <1>8, <1>9 DEF EmOrdem

LEMMA PassoOrdemCl == InvOrdemCl /\ [NextCl]_varsCl => InvOrdemCl'
<1>. SUFFICES ASSUME InvOrdemCl, [NextCl]_varsCl PROVE InvOrdemCl'
  OBVIOUS
<1>1. InvTiposCl /\ InvTiposCl'
  BY PassoTiposCl DEF InvOrdemCl
<1>2. ASSUME ~disputa', EmOrdem, NextCl PROVE EmOrdem'
  BY <1>1, <1>2, CopiarOrdem, LerOfertaOrdem, EntregarOrdem, MarcarOrdem, LerCacheOrdem,
     OferecerLidoOrdem, ConectadoOrdem, CairClOrdem, EvtClipboardOrdem, AplicarOrdem,
     CopiarNoRemotoOrdem DEF NextCl, DaMesa, DaAbaCl, AlternarClip
<1>3. ASSUME EmOrdem, UNCHANGED varsCl PROVE EmOrdem'
  BY <1>3 DEF varsCl, EmOrdem, SoDepoisDeUm, Concorda, Descansa, Oferecida, Publicada,
     Lembrada, Lida, NaIda, NaVolta, SemAviso, FiosVazios, ForaDaVista, AVista
<1>4. ASSUME disputa PROVE disputa'
  BY <1>4 DEF varsCl, NextCl, DaMesa, DaAbaCl, Copiar, LerOferta, EntregarClipboard,
     MarcarAbaAtiva, AlternarClip, LerCache, OferecerLido, EvtConectado, CairCl, EvtClipboard,
     AplicarNoRemoto, CopiarNoRemoto
<1>. QED BY <1>1, <1>2, <1>3, <1>4 DEF InvOrdemCl

LEMMA ClipInvariante == InitCl /\ [][NextCl]_varsCl => []InvOrdemCl
<1>1. InitCl => InvOrdemCl
  BY InitTiposCl, InitOrdemCl DEF InvOrdemCl
<1>. QED BY <1>1, PassoOrdemCl, PTL

\* At rest only the first phase is left, and it says that the machine in view
\* has the text of the desktop.
LEMMA OrdemSincronizado == InvOrdemCl => Sincronizado
<1>. SUFFICES ASSUME InvOrdemCl, QuietoCl, ~disputa, mesa.texto # 0, abaCl[AVista].proc
              PROVE  fioCl[AVista].remoto = mesa.texto
  BY DEF Sincronizado, AVista
<1>1. Descansa
  BY QuietoDescansa DEF InvOrdemCl
<1>. QED BY <1>1 DEF Descansa

\* clipboard.go:45, for every set of tabs and of texts and any number of
\* copies, changes of tab and reconnections: at rest the machine of the visible
\* tab has the text of the desktop, unless two copies crossed.
THEOREM HostERemotoIguais == SpecCl => []Sincronizado
BY ClipInvariante, OrdemSincronizado, PTL DEF SpecCl

-----------------------------------------------------------------------------
(* The three parts in one run.                                             *)

InvTelas == IInv /\ InvRz /\ InvOrdemCl

\* A step of MCTelas is, for each part, a step of its own or no step.
LEMMA PassoDeCadaParte ==
  ASSUME [NextTelas]_varsTelas
  PROVE  [Next]_vars /\ [NextRz]_varsRz /\ [NextCl]_varsCl
<1>1. CASE UNCHANGED varsTelas
  BY <1>1 DEF varsTelas
<1>2. CASE NextTelas
  <2>1. CASE Sessoes /\ NextSessao /\ UNCHANGED <<varsRz, varsCl>>
    <3>1. Dona \in Abas
      BY TelasAssumption DEF Dona, AsAbas
    <3>2. Next
      BY <2>1, <3>1 DEF NextSessao, Next
    <3>. QED BY <2>1, <3>2
  <2>2. CASE caso = "resize" /\ NextRz /\ UNCHANGED <<vars, varsCl>>
    BY <2>2
  <2>3. CASE caso = "clip" /\ NextCl /\ UNCHANGED <<vars, varsRz>>
    BY <2>3
  <2>. QED BY <1>2, <2>1, <2>2, <2>3 DEF NextTelas
<1>. QED BY <1>1, <1>2

LEMMA TelasInvariante == InitTelas /\ [][NextTelas]_varsTelas => []InvTelas
<1>1. InitTelas => Init /\ InitRz /\ InitCl
  BY DEF InitTelas
<1>2. [NextTelas]_varsTelas => [Next]_vars /\ [NextRz]_varsRz /\ [NextCl]_varsCl
  BY PassoDeCadaParte
<1>. QED BY <1>1, <1>2, InvarianteSempre, ResizeInvariante, ClipInvariante, PTL DEF InvTelas

\* Every variable of the three parts keeps its type: the count of children is
\* never negative, a tab holds a process only while its child is up.
THEOREM TelasTipos == SpecTelas => []TiposTelas
<1>1. InvTelas => TiposTelas
  BY InvRzTipos, InvTiposClTipos DEF InvTelas, IInv, InvOrdemCl, TiposTelas
<1>. QED BY <1>1, TelasInvariante, PTL DEF SpecTelas

\* What the parts promise, in the specification the run checks: no refused
\* credential is tried again without a click, a closed tab does not insist, no
\* child outlives its attempt, every place taken is given back, and the machine in
\* view has the text of the desktop.
THEOREM TelasCumprem ==
  SpecTelas => [](RecusaSoComClique /\ FechadaNaoInsiste /\ SemOrfao /\ ContaCerta /\ Sincronizado)
<1>1. InvTelas => RecusaSoComClique /\ FechadaNaoInsiste /\ SemOrfao /\ ContaCerta
  BY RecusaContida, InsistenciaContida DEF InvTelas, IInv
<1>2. InvTelas => Sincronizado
  BY OrdemSincronizado DEF InvTelas
<1>. QED BY <1>1, <1>2, TelasInvariante, PTL DEF SpecTelas
=============================================================================
