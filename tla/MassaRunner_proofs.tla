-------------------------- MODULE MassaRunner_proofs --------------------------
(***************************************************************************)
(* Proofs about MassaRunner, for every number of machines, commands,       *)
(* canaries, goroutines, failures and executions: IInv is inductive, so    *)
(* TypeOK, UmResultado, TodosNoFim, OkSoCompleto, AbortarPara and          *)
(* TravaDoCanario hold in every reachable state; so do PausaTemDono, about  *)
(* the slot of the questions, and NaoPerguntaMais, of every step.          *)
(***************************************************************************)
EXTENDS MassaRunner, TLAPS

\* The canary is part of the list, and the pool has room for process 0.
LEMMA Limites ==
  /\ NHosts \in Nat /\ NCmds \in Nat \ {0} /\ NCanario \in Nat /\ Pool \in Nat
  /\ NCanario <= NHosts /\ (NHosts # 0 => NCanario # 0)
  /\ Hosts = 1..NHosts /\ Procs = 0..Pool /\ 0 \in Procs
BY MassaAssumption DEF NCanario, Pool, Procs, Hosts, Menor, Maior

-----------------------------------------------------------------------------
(* One lemma per part of the invariant, one step per action.               *)

\* Each phase of Executar has its goroutines, and no other.
LEMMA ProtocoloStep ==
  ASSUME TypeOK, Protocolo, [Next]_vars
  PROVE  Protocolo'
<1>. USE Limites DEF TypeOK, Protocolo, Passos, NoHost, Perguntando
<1>1. CASE UNCHANGED vars
  BY <1>1 DEF vars, motor, filas, saidas, aba, conversa, conta
<1>2. CASE Comecar
  BY <1>2 DEF Comecar, Ir, motor, filas, saidas, aba, conversa, conta
<1>3. CASE ProximoCanario
  BY <1>3 DEF ProximoCanario, Tomar, Ir, motor, filas, saidas, aba, conversa, conta
<1>4. CASE FimDoCanario
  <2>1. rodando' = rodando /\ rodando
    BY <1>4 DEF FimDoCanario, aba
  <2>2. (ctx \/ NHosts <= NCanario) =>
         main' = "fim" /\ faz' = [faz EXCEPT ![0] = "fora"]
    BY <1>4 DEF FimDoCanario, Ir
  <2>3. (ctx \/ NHosts <= NCanario) => main' = "fim" /\ \A p \in Procs : faz'[p] = "fora"
    BY <1>4, <2>2 DEF FimDoCanario
  <2>4. (ctx \/ NHosts <= NCanario) => Protocolo'
    BY <2>1, <2>3
  <2>5. ~(ctx \/ NHosts <= NCanario) => Protocolo'
    BY <1>4, SMTT(30) DEF FimDoCanario, Ir, motor, filas, saidas, aba, conversa, conta
  <2>. QED BY <2>4, <2>5
<1>5. CASE FimDoDespacho
  BY <1>5 DEF FimDoDespacho, motor, filas, saidas, aba, conversa, conta
<1>6. CASE Juntar
  BY <1>6 DEF Juntar, motor, filas, saidas, aba, conversa, conta
<1>7. CASE Terminar
  BY <1>7 DEF Terminar, motor, filas, saidas, aba, conversa, conta
<1>8. CASE DecidirCanario
  <2>1. rodando' = rodando /\ rodando
    BY <1>8 DEF DecidirCanario, aba
  <2>2. (resp[0] # "seguir") =>
         main' = "fim" /\ faz' = [faz EXCEPT ![0] = "fora"]
    BY <1>8 DEF DecidirCanario, LimparPausa, Ir
  <2>3. (resp[0] # "seguir") => main' = "fim" /\ \A p \in Procs : faz'[p] = "fora"
    BY <1>8, <2>2, SMTT(30) DEF DecidirCanario
  <2>4. (resp[0] # "seguir") => Protocolo'
    BY <2>1, <2>3
  <2>5. ~(resp[0] # "seguir") => Protocolo'
    BY <1>8 DEF DecidirCanario, LimparPausa, Ir, motor, filas, saidas, aba, conversa,
       conta
  <2>. QED BY <2>4, <2>5
<1>9. CASE Executar
  BY <1>9 DEF Executar, motor, filas, saidas, aba, conversa, conta
<1>10. CASE Responder
  BY <1>10 DEF Responder, Opcoes, motor, filas, saidas, aba, conversa, conta
<1>11. CASE Abortar
  BY <1>11 DEF Abortar, Cancelar, motor, filas, saidas, aba, conversa, conta
<1>12. CASE Close
  BY <1>12 DEF Close, Cancelar, motor, filas, saidas, aba, conversa, conta
<1>13. CASE EscolherRitmo
  BY <1>13 DEF EscolherRitmo, motor, filas, saidas, aba, conversa, conta
<1>14. CASE \E p \in Procs : Andar(p)
  <2>1. PICK p \in Procs : Andar(p)
    BY <1>14
  <2>2. CASE Despachar(p)
    BY <2>2 DEF Despachar, Tomar, Ir, motor, filas, saidas, aba, conversa, conta
  <2>3. CASE ConferirHost(p)
    BY <2>3 DEF ConferirHost, Ir, motor, filas, saidas, aba, conversa, conta
  <2>4. CASE SairDaFila(p)
    BY <2>4 DEF SairDaFila, Ir, motor, filas, saidas, aba, conversa, conta
  <2>5. CASE Conectar(p)
    BY <2>5 DEF Conectar, Ir, motor, filas, saidas, aba, conversa, conta
  <2>6. CASE FalharConexao(p)
    BY <2>6 DEF FalharConexao, Encerrar, Ir, motor, filas, saidas, aba, conversa, conta
  <2>7. CASE Conferir(p)
    BY <2>7 DEF Conferir, Encerrar, Ir, motor, filas, saidas, aba, conversa, conta
  <2>8. CASE ComandoBom(p)
    BY <2>8 DEF ComandoBom, Voltar, Ir, motor, filas, saidas, aba, conversa, conta
  <2>9. CASE PerderSessao(p)
    BY <2>9 DEF PerderSessao, Voltar, Ir, motor, filas, saidas, aba, conversa, conta
  <2>10. CASE ComandoRuim(p)
    BY <2>10 DEF ComandoRuim, Voltar, Ir, motor, filas, saidas, aba, conversa, conta
  <2>11. CASE Perguntar(p)
    BY <2>11 DEF Perguntar, Ir, motor, filas, saidas, aba, conversa, conta
  <2>12. CASE Registrar(p)
    BY <2>12 DEF Registrar, Ir, motor, filas, saidas, aba, conversa, conta
  <2>13. CASE AbrirPausa(p)
    BY <2>13 DEF AbrirPausa, Ir, motor, filas, saidas, aba, conversa, conta
  <2>14. CASE Receber(p)
    BY <2>14 DEF Receber, Ir, motor, filas, saidas, aba, conversa, conta
  <2>15. CASE DecidirErro(p)
    BY <2>15 DEF DecidirErro, LimparPausa, Encerrar, Ir, motor, filas, saidas, aba,
       conversa, conta
  <2>. QED BY <2>1, <2>2, <2>3, <2>4, <2>5, <2>6, <2>7, <2>8, <2>9, <2>10, <2>11,
       <2>12, <2>13, <2>14, <2>15 DEF Andar, Rede, Seguir
<1>. QED BY <1>1, <1>2, <1>3, <1>4, <1>5, <1>6, <1>7, <1>8, <1>9, <1>10, <1>11,
       <1>12, <1>13, <1>14 DEF Next, Executando

\* A command begins only with the context alive.
LEMMA EmCursoStep ==
  ASSUME TypeOK, EmCurso, [Next]_vars
  PROVE  EmCurso'
<1>. USE Limites DEF TypeOK, EmCurso, Passos, NoHost, Perguntando
<1>1. CASE UNCHANGED vars
  BY <1>1 DEF vars, motor, filas, saidas, aba, conversa, conta
<1>2. CASE Comecar
  BY <1>2 DEF Comecar, Ir, motor, filas, saidas, aba, conversa, conta
<1>3. CASE ProximoCanario
  BY <1>3 DEF ProximoCanario, Tomar, Ir, motor, filas, saidas, aba, conversa, conta
<1>4. CASE FimDoCanario
  BY <1>4 DEF FimDoCanario, Ir, motor, filas, saidas, aba, conversa, conta
<1>5. CASE FimDoDespacho
  BY <1>5 DEF FimDoDespacho, motor, filas, saidas, aba, conversa, conta
<1>6. CASE Juntar
  BY <1>6 DEF Juntar, motor, filas, saidas, aba, conversa, conta
<1>7. CASE Terminar
  BY <1>7 DEF Terminar, motor, filas, saidas, aba, conversa, conta
<1>8. CASE DecidirCanario
  BY <1>8 DEF DecidirCanario, LimparPausa, Ir, motor, filas, saidas, aba, conversa,
       conta
<1>9. CASE Executar
  BY <1>9 DEF Executar, motor, filas, saidas, aba, conversa, conta
<1>10. CASE Responder
  BY <1>10 DEF Responder, Opcoes, motor, filas, saidas, aba, conversa, conta
<1>11. CASE Abortar
  BY <1>11 DEF Abortar, Cancelar, motor, filas, saidas, aba, conversa, conta
<1>12. CASE Close
  BY <1>12 DEF Close, Cancelar, motor, filas, saidas, aba, conversa, conta
<1>13. CASE EscolherRitmo
  BY <1>13 DEF EscolherRitmo, motor, filas, saidas, aba, conversa, conta
<1>14. CASE \E p \in Procs : Andar(p)
  <2>1. PICK p \in Procs : Andar(p)
    BY <1>14
  <2>2. CASE Despachar(p)
    BY <2>2 DEF Despachar, Tomar, Ir, motor, filas, saidas, aba, conversa, conta
  <2>3. CASE ConferirHost(p)
    BY <2>3 DEF ConferirHost, Ir, motor, filas, saidas, aba, conversa, conta
  <2>4. CASE SairDaFila(p)
    BY <2>4 DEF SairDaFila, Ir, motor, filas, saidas, aba, conversa, conta
  <2>5. CASE Conectar(p)
    BY <2>5 DEF Conectar, Ir, motor, filas, saidas, aba, conversa, conta
  <2>6. CASE FalharConexao(p)
    BY <2>6 DEF FalharConexao, Encerrar, Ir, motor, filas, saidas, aba, conversa, conta
  <2>7. CASE Conferir(p)
    BY <2>7 DEF Conferir, Encerrar, Ir, motor, filas, saidas, aba, conversa, conta
  <2>8. CASE ComandoBom(p)
    BY <2>8 DEF ComandoBom, Voltar, Ir, motor, filas, saidas, aba, conversa, conta
  <2>9. CASE PerderSessao(p)
    BY <2>9 DEF PerderSessao, Voltar, Ir, motor, filas, saidas, aba, conversa, conta
  <2>10. CASE ComandoRuim(p)
    BY <2>10 DEF ComandoRuim, Voltar, Ir, motor, filas, saidas, aba, conversa, conta
  <2>11. CASE Perguntar(p)
    BY <2>11 DEF Perguntar, Ir, motor, filas, saidas, aba, conversa, conta
  <2>12. CASE Registrar(p)
    BY <2>12 DEF Registrar, Ir, motor, filas, saidas, aba, conversa, conta
  <2>13. CASE AbrirPausa(p)
    BY <2>13 DEF AbrirPausa, Ir, motor, filas, saidas, aba, conversa, conta
  <2>14. CASE Receber(p)
    BY <2>14 DEF Receber, Ir, motor, filas, saidas, aba, conversa, conta
  <2>15. CASE DecidirErro(p)
    BY <2>15 DEF DecidirErro, LimparPausa, Encerrar, Ir, motor, filas, saidas, aba,
       conversa, conta
  <2>. QED BY <2>1, <2>2, <2>3, <2>4, <2>5, <2>6, <2>7, <2>8, <2>9, <2>10, <2>11,
       <2>12, <2>13, <2>14, <2>15 DEF Andar, Rede, Seguir
<1>. QED BY <1>1, <1>2, <1>3, <1>4, <1>5, <1>6, <1>7, <1>8, <1>9, <1>10, <1>11,
       <1>12, <1>13, <1>14 DEF Next, Executando

\* The one command of a goroutine that may end after the cancellation.
LEMMA AbortarStep ==
  ASSUME TypeOK, EmCurso, AbortarPara, [Next]_vars
  PROVE  AbortarPara'
<1>. USE Limites DEF TypeOK, EmCurso, AbortarPara, Passos, NoHost, Perguntando
<1>1. CASE UNCHANGED vars
  BY <1>1 DEF vars, motor, filas, saidas, aba, conversa, conta
<1>2. CASE Comecar
  BY <1>2 DEF Comecar, Ir, motor, filas, saidas, aba, conversa, conta
<1>3. CASE ProximoCanario
  BY <1>3 DEF ProximoCanario, Tomar, Ir, motor, filas, saidas, aba, conversa, conta
<1>4. CASE FimDoCanario
  BY <1>4 DEF FimDoCanario, Ir, motor, filas, saidas, aba, conversa, conta
<1>5. CASE FimDoDespacho
  BY <1>5 DEF FimDoDespacho, motor, filas, saidas, aba, conversa, conta
<1>6. CASE Juntar
  BY <1>6 DEF Juntar, motor, filas, saidas, aba, conversa, conta
<1>7. CASE Terminar
  BY <1>7 DEF Terminar, motor, filas, saidas, aba, conversa, conta
<1>8. CASE DecidirCanario
  BY <1>8 DEF DecidirCanario, LimparPausa, Ir, motor, filas, saidas, aba, conversa,
       conta
<1>9. CASE Executar
  BY <1>9 DEF Executar, motor, filas, saidas, aba, conversa, conta
<1>10. CASE Responder
  BY <1>10 DEF Responder, Opcoes, motor, filas, saidas, aba, conversa, conta
<1>11. CASE Abortar
  BY <1>11 DEF Abortar, Cancelar, motor, filas, saidas, aba, conversa, conta
<1>12. CASE Close
  BY <1>12 DEF Close, Cancelar, motor, filas, saidas, aba, conversa, conta
<1>13. CASE EscolherRitmo
  BY <1>13 DEF EscolherRitmo, motor, filas, saidas, aba, conversa, conta
<1>14. CASE \E p \in Procs : Andar(p)
  <2>1. PICK p \in Procs : Andar(p)
    BY <1>14
  <2>2. CASE Despachar(p)
    BY <2>2 DEF Despachar, Tomar, Ir, motor, filas, saidas, aba, conversa, conta
  <2>3. CASE ConferirHost(p)
    BY <2>3 DEF ConferirHost, Ir, motor, filas, saidas, aba, conversa, conta
  <2>4. CASE SairDaFila(p)
    BY <2>4 DEF SairDaFila, Ir, motor, filas, saidas, aba, conversa, conta
  <2>5. CASE Conectar(p)
    BY <2>5 DEF Conectar, Ir, motor, filas, saidas, aba, conversa, conta
  <2>6. CASE FalharConexao(p)
    BY <2>6 DEF FalharConexao, Encerrar, Ir, motor, filas, saidas, aba, conversa, conta
  <2>7. CASE Conferir(p)
    BY <2>7 DEF Conferir, Encerrar, Ir, motor, filas, saidas, aba, conversa, conta
  <2>8. CASE ComandoBom(p)
    <3>1. depois' = [depois EXCEPT ![p] = IF ctx THEN @ + 1 ELSE @]
      BY <2>8 DEF ComandoBom, Voltar, Ir
    <3>2. depois[p] = 0 /\ \A q \in Procs \ {p} : depois'[q] = depois[q]
      BY <2>8, <3>1 DEF ComandoBom, Voltar, Ir
    <3>3. depois'[p] <= 1
      BY <3>1, <3>2
    <3>. QED BY <3>2, <3>3
  <2>9. CASE PerderSessao(p)
    <3>1. depois' = [depois EXCEPT ![p] = IF ctx THEN @ + 1 ELSE @]
      BY <2>9 DEF PerderSessao, Voltar, Ir
    <3>2. depois[p] = 0 /\ \A q \in Procs \ {p} : depois'[q] = depois[q]
      BY <2>9, <3>1 DEF PerderSessao, Voltar, Ir
    <3>3. depois'[p] <= 1
      BY <3>1, <3>2
    <3>. QED BY <3>2, <3>3
  <2>10. CASE ComandoRuim(p)
    <3>1. depois' = [depois EXCEPT ![p] = IF ctx THEN @ + 1 ELSE @]
      BY <2>10 DEF ComandoRuim, Voltar, Ir
    <3>2. depois[p] = 0 /\ \A q \in Procs \ {p} : depois'[q] = depois[q]
      BY <2>10, <3>1 DEF ComandoRuim, Voltar, Ir
    <3>3. depois'[p] <= 1
      BY <3>1, <3>2
    <3>. QED BY <3>2, <3>3
  <2>11. CASE Perguntar(p)
    BY <2>11 DEF Perguntar, Ir, motor, filas, saidas, aba, conversa, conta
  <2>12. CASE Registrar(p)
    BY <2>12 DEF Registrar, Ir, motor, filas, saidas, aba, conversa, conta
  <2>13. CASE AbrirPausa(p)
    BY <2>13 DEF AbrirPausa, Ir, motor, filas, saidas, aba, conversa, conta
  <2>14. CASE Receber(p)
    BY <2>14 DEF Receber, Ir, motor, filas, saidas, aba, conversa, conta
  <2>15. CASE DecidirErro(p)
    BY <2>15 DEF DecidirErro, LimparPausa, Encerrar, Ir, motor, filas, saidas, aba,
       conversa, conta
  <2>. QED BY <2>1, <2>2, <2>3, <2>4, <2>5, <2>6, <2>7, <2>8, <2>9, <2>10, <2>11,
       <2>12, <2>13, <2>14, <2>15 DEF Andar, Rede, Seguir
<1>. QED BY <1>1, <1>2, <1>3, <1>4, <1>5, <1>6, <1>7, <1>8, <1>9, <1>10, <1>11,
       <1>12, <1>13, <1>14 DEF Next, Executando

\* A result that says OK only at the end of the queue.
LEMMA OkEncerra ==
  ASSUME NEW p \in Procs, NEW st \in Status, TypeOK, OkSoCompleto, Encerrar(p, st),
         st = "ok" => cmd[p] = NCmds
  PROVE  OkSoCompleto'
BY DEF TypeOK, OkSoCompleto, Encerrar

\* OK is written at the end of the queue.
LEMMA OkStep ==
  ASSUME TypeOK, OkSoCompleto, [Next]_vars
  PROVE  OkSoCompleto'
<1>. USE Limites DEF TypeOK, OkSoCompleto, Passos, NoHost, Perguntando
<1>1. CASE UNCHANGED vars
  BY <1>1 DEF vars, motor, filas, saidas, aba, conversa, conta
<1>2. CASE Comecar
  BY <1>2 DEF Comecar, Ir, motor, filas, saidas, aba, conversa, conta
<1>3. CASE ProximoCanario
  BY <1>3 DEF ProximoCanario, Tomar, Ir, motor, filas, saidas, aba, conversa, conta
<1>4. CASE FimDoCanario
  BY <1>4 DEF FimDoCanario, Ir, motor, filas, saidas, aba, conversa, conta
<1>5. CASE FimDoDespacho
  BY <1>5 DEF FimDoDespacho, motor, filas, saidas, aba, conversa, conta
<1>6. CASE Juntar
  BY <1>6 DEF Juntar, motor, filas, saidas, aba, conversa, conta
<1>7. CASE Terminar
  BY <1>7 DEF Terminar, motor, filas, saidas, aba, conversa, conta
<1>8. CASE DecidirCanario
  BY <1>8 DEF DecidirCanario, LimparPausa, Ir, motor, filas, saidas, aba, conversa,
       conta
<1>9. CASE Executar
  BY <1>9 DEF Executar, motor, filas, saidas, aba, conversa, conta
<1>10. CASE Responder
  BY <1>10 DEF Responder, Opcoes, motor, filas, saidas, aba, conversa, conta
<1>11. CASE Abortar
  BY <1>11 DEF Abortar, Cancelar, motor, filas, saidas, aba, conversa, conta
<1>12. CASE Close
  BY <1>12 DEF Close, Cancelar, motor, filas, saidas, aba, conversa, conta
<1>13. CASE EscolherRitmo
  BY <1>13 DEF EscolherRitmo, motor, filas, saidas, aba, conversa, conta
<1>14. CASE \E p \in Procs : Andar(p)
  <2>1. PICK p \in Procs : Andar(p)
    BY <1>14
  <2>2. CASE Despachar(p)
    BY <2>2 DEF Despachar, Tomar, Ir, motor, filas, saidas, aba, conversa, conta
  <2>3. CASE ConferirHost(p)
    BY <2>3 DEF ConferirHost, Ir, motor, filas, saidas, aba, conversa, conta
  <2>4. CASE SairDaFila(p)
    BY <2>4 DEF SairDaFila, Ir, motor, filas, saidas, aba, conversa, conta
  <2>5. CASE Conectar(p)
    BY <2>5 DEF Conectar, Ir, motor, filas, saidas, aba, conversa, conta
  <2>6. CASE FalharConexao(p)
    BY <2>6 DEF FalharConexao, Encerrar, Ir, motor, filas, saidas, aba, conversa, conta
  <2>7. CASE Conferir(p)
    <3>1. \/ Encerrar(p, "ok") /\ cmd[p] = NCmds
         \/ Encerrar(p, "pulado")
         \/ anotado' = anotado
      BY <2>7 DEF Conferir
    <3>2. {"ok", "pulado"} \subseteq Status
      BY DEF Status
    <3>3. anotado' = anotado => OkSoCompleto'
      BY DEF OkSoCompleto
    <3>. QED BY <3>1, <3>2, <3>3, OkEncerra
  <2>8. CASE ComandoBom(p)
    BY <2>8 DEF ComandoBom, Voltar, Ir, motor, filas, saidas, aba, conversa, conta
  <2>9. CASE PerderSessao(p)
    BY <2>9 DEF PerderSessao, Voltar, Ir, motor, filas, saidas, aba, conversa, conta
  <2>10. CASE ComandoRuim(p)
    BY <2>10 DEF ComandoRuim, Voltar, Ir, motor, filas, saidas, aba, conversa, conta
  <2>11. CASE Perguntar(p)
    BY <2>11 DEF Perguntar, Ir, motor, filas, saidas, aba, conversa, conta
  <2>12. CASE Registrar(p)
    BY <2>12 DEF Registrar, Ir, motor, filas, saidas, aba, conversa, conta
  <2>13. CASE AbrirPausa(p)
    BY <2>13 DEF AbrirPausa, Ir, motor, filas, saidas, aba, conversa, conta
  <2>14. CASE Receber(p)
    BY <2>14 DEF Receber, Ir, motor, filas, saidas, aba, conversa, conta
  <2>15. CASE DecidirErro(p)
    <3>1. \/ Encerrar(p, "ruim")
         \/ Encerrar(p, "pulado")
         \/ anotado' = anotado
      BY <2>15 DEF DecidirErro
    <3>2. {"ruim", "pulado"} \subseteq Status
      BY DEF Status
    <3>3. anotado' = anotado => OkSoCompleto'
      BY DEF OkSoCompleto
    <3>. QED BY <3>1, <3>2, <3>3, OkEncerra
  <2>. QED BY <2>1, <2>2, <2>3, <2>4, <2>5, <2>6, <2>7, <2>8, <2>9, <2>10, <2>11,
       <2>12, <2>13, <2>14, <2>15 DEF Andar, Rede, Seguir
<1>. QED BY <1>1, <1>2, <1>3, <1>4, <1>5, <1>6, <1>7, <1>8, <1>9, <1>10, <1>11,
       <1>12, <1>13, <1>14 DEF Next, Executando

\* A step that gives nobody a host and registers nothing.
LEMMA UnicosMantem ==
  ASSUME Unicos, UmResultado, host' = host, quantas' = quantas, prox' = prox,
         \A q \in Procs : Ativa(q)' => Ativa(q)
  PROVE  Unicos' /\ UmResultado'
BY DEF Unicos, UmResultado

\* A goroutine takes the next host of the list.
LEMMA UnicosToma ==
  ASSUME NEW p \in Procs, TypeOK, Unicos, UmResultado, prox < NHosts,
         prox' = prox + 1, host' = [host EXCEPT ![p] = prox + 1], quantas' = quantas,
         \A q \in Procs \ {p} : Ativa(q)' => Ativa(q)
  PROVE  Unicos' /\ UmResultado'
<1>1. prox \in Nat /\ prox + 1 \in Hosts /\ NHosts \in Nat
  BY Limites DEF TypeOK
<1>2. host'[p] = prox + 1 /\ \A q \in Procs \ {p} : host'[q] = host[q]
  BY DEF TypeOK
<1>3. quantas'[prox + 1] = 0
  BY <1>1 DEF Unicos
<1>4. \A q \in Procs \ {p} : Ativa(q)' => host'[q] \in 1..prox /\ quantas'[host'[q]] = 0
  BY <1>2 DEF Unicos
<1>5. prox + 1 \notin 1..prox /\ 1..prox \subseteq 1..prox' /\ prox + 1 \in 1..prox'
  BY <1>1
<1>6. \A q \in Procs : Ativa(q)' => host'[q] \in 1..prox' /\ quantas'[host'[q]] = 0
  BY <1>2, <1>3, <1>4, <1>5
<1>7. \A q, r \in Procs : Ativa(q)' /\ Ativa(r)' /\ host'[q] = host'[r] => q = r
  <2>. SUFFICES ASSUME NEW q \in Procs, NEW r \in Procs,
                       Ativa(q)', Ativa(r)', host'[q] = host'[r]
                PROVE  q = r
    OBVIOUS
  <2>1. CASE q # p /\ r # p
    BY <1>2, <2>1 DEF Unicos
  <2>2. CASE q = p \/ r = p
    BY <1>2, <1>4, <1>5, <2>2
  <2>. QED BY <2>1, <2>2
<1>8. \A h \in Hosts : h > prox' => quantas'[h] = 0
  BY <1>1, Limites DEF Unicos
<1>. QED BY <1>6, <1>7, <1>8 DEF Unicos, UmResultado

\* A goroutine registers the result of its host and lets it go.
LEMMA UnicosRegistra ==
  ASSUME NEW p \in Procs, TypeOK, Unicos, UmResultado, Ativa(p), ~Ativa(p)',
         host' = host, prox' = prox, quantas' = [quantas EXCEPT ![host[p]] = @ + 1],
         \A q \in Procs : Ativa(q)' => Ativa(q)
  PROVE  Unicos' /\ UmResultado'
<1>1. host[p] \in 1..prox /\ quantas[host[p]] = 0
  BY DEF Unicos
<1>2. prox \in 0..NHosts /\ 1..prox \subseteq Hosts
  BY Limites DEF TypeOK
<1>3. \A h \in Hosts : quantas'[h] = IF h = host[p] THEN 1 ELSE quantas[h]
  BY <1>1, <1>2 DEF TypeOK
<1>4. UmResultado'
  BY <1>3 DEF UmResultado
<1>5. \A q \in Procs : Ativa(q)' => host[q] \in 1..prox /\ host[q] # host[p]
  BY DEF Unicos
<1>6. \A q \in Procs : Ativa(q)' => host[q] \in 1..prox /\ quantas'[host[q]] = 0
  BY <1>2, <1>3, <1>5 DEF Unicos
<1>7. \A h \in Hosts : h > prox => h # host[p]
  BY <1>1, <1>2, Limites
<1>8. \A h \in Hosts : h > prox => quantas'[h] = 0
  BY <1>3, <1>7 DEF Unicos
<1>. QED BY <1>4, <1>6, <1>8 DEF Unicos

\* A host changes hands only through the list and its registration.
LEMMA UnicosStep ==
  ASSUME TypeOK, Protocolo, Unicos, UmResultado, [Next]_vars
  PROVE  Unicos' /\ UmResultado'
<1>. USE Limites DEF TypeOK, Protocolo, Passos, NoHost, Perguntando
<1>1. CASE UNCHANGED vars
  BY <1>1, UnicosMantem DEF vars, Ativa, motor, filas,
       saidas, aba, conversa, conta
<1>2. CASE Comecar
  <2>1. \A q \in Procs : faz'[q] \in {"fora", "livre"}
    BY <1>2 DEF Comecar, Ir
  <2>2. \A q \in Procs : ~Ativa(q)'
    BY <2>1 DEF Ativa
  <2>3. prox' = 0 /\ quantas' = [h \in Hosts |-> 0]
    BY <1>2 DEF Comecar
  <2>. QED BY <2>2, <2>3 DEF Unicos, UmResultado
<1>3. CASE ProximoCanario
  <2>1. /\ prox < NHosts /\ prox' = prox + 1 /\ quantas' = quantas
         /\ host' = [host EXCEPT ![0] = prox + 1]
    BY <1>3 DEF ProximoCanario, Tomar, Ir, motor, filas, saidas, aba, conversa, conta
  <2>2. \A q \in Procs \ {0} : Ativa(q)' => Ativa(q)
    BY <1>3 DEF ProximoCanario, Tomar, Ir, Ativa, motor, filas, saidas, aba, conversa,
       conta
  <2>. QED BY <2>1, <2>2, UnicosToma
<1>4. CASE FimDoCanario
  <2>1. host' = host /\ quantas' = quantas /\ prox' = prox
    BY <1>4 DEF FimDoCanario, Ir, motor, filas, saidas, aba, conversa, conta
  <2>2. \/ main' = "pergunta"
         \/ faz' = [faz EXCEPT ![0] = "fora"]
    BY <1>4 DEF FimDoCanario, Ir
  <2>3. main' # "pergunta" => \A q \in Procs : faz'[q] \in {"fora", "livre"}
    BY <1>4, <2>2 DEF FimDoCanario, Ir
  <2>4. \A q \in Procs : ~Ativa(q)'
    BY <2>3 DEF Ativa
  <2>. QED BY <2>1, <2>4, UnicosMantem
<1>5. CASE FimDoDespacho
  <2>1. host' = host /\ quantas' = quantas /\ prox' = prox
    BY <1>5 DEF FimDoDespacho, motor, filas, saidas, aba, conversa, conta
  <2>2. \A q \in Procs : Ativa(q)' => Ativa(q)
    BY <1>5 DEF FimDoDespacho, Ativa, motor, filas, saidas, aba, conversa, conta
  <2>. QED BY <2>1, <2>2, UnicosMantem
<1>6. CASE Juntar
  <2>1. host' = host /\ quantas' = quantas /\ prox' = prox
    BY <1>6 DEF Juntar, motor, filas, saidas, aba, conversa, conta
  <2>2. \A q \in Procs : Ativa(q)' => Ativa(q)
    BY <1>6 DEF Juntar, Ativa, motor, filas, saidas, aba, conversa, conta
  <2>. QED BY <2>1, <2>2, UnicosMantem
<1>7. CASE Terminar
  <2>1. host' = host /\ quantas' = quantas /\ prox' = prox
    BY <1>7 DEF Terminar, motor, filas, saidas, aba, conversa, conta
  <2>2. \A q \in Procs : Ativa(q)' => Ativa(q)
    BY <1>7 DEF Terminar, Ativa, motor, filas, saidas, aba, conversa, conta
  <2>. QED BY <2>1, <2>2, UnicosMantem
<1>8. CASE DecidirCanario
  <2>1. host' = host /\ quantas' = quantas /\ prox' = prox
    BY <1>8 DEF DecidirCanario, LimparPausa, Ir, motor, filas, saidas, aba, conversa,
       conta
  <2>2. \/ faz' = [q \in Procs |-> IF q = 0 THEN "fora" ELSE "livre"]
         \/ faz' = [faz EXCEPT ![0] = "fora"]
    BY <1>8 DEF DecidirCanario, Ir
  <2>3. main' # "pergunta" => \A q \in Procs : faz'[q] \in {"fora", "livre"}
    BY <1>8, <2>2, SMTT(30) DEF DecidirCanario, LimparPausa, Ir
  <2>4. \A q \in Procs : ~Ativa(q)'
    BY <2>3 DEF Ativa
  <2>. QED BY <2>1, <2>4, UnicosMantem
<1>9. CASE Executar
  <2>1. host' = host /\ quantas' = quantas /\ prox' = prox
    BY <1>9 DEF Executar, motor, filas, saidas, aba, conversa, conta
  <2>2. \A q \in Procs : Ativa(q)' => Ativa(q)
    BY <1>9 DEF Executar, Ativa, motor, filas, saidas, aba, conversa, conta
  <2>. QED BY <2>1, <2>2, UnicosMantem
<1>10. CASE Responder
  <2>1. host' = host /\ quantas' = quantas /\ prox' = prox
    BY <1>10 DEF Responder, Opcoes, motor, filas, saidas, aba, conversa, conta
  <2>2. \A q \in Procs : Ativa(q)' => Ativa(q)
    BY <1>10 DEF Responder, Opcoes, Ativa, motor, filas, saidas, aba, conversa, conta
  <2>. QED BY <2>1, <2>2, UnicosMantem
<1>11. CASE Abortar
  <2>1. host' = host /\ quantas' = quantas /\ prox' = prox
    BY <1>11 DEF Abortar, Cancelar, motor, filas, saidas, aba, conversa, conta
  <2>2. \A q \in Procs : Ativa(q)' => Ativa(q)
    BY <1>11 DEF Abortar, Cancelar, Ativa, motor, filas, saidas, aba, conversa, conta
  <2>. QED BY <2>1, <2>2, UnicosMantem
<1>12. CASE Close
  <2>1. host' = host /\ quantas' = quantas /\ prox' = prox
    BY <1>12 DEF Close, Cancelar, motor, filas, saidas, aba, conversa, conta
  <2>2. \A q \in Procs : Ativa(q)' => Ativa(q)
    BY <1>12 DEF Close, Cancelar, Ativa, motor, filas, saidas, aba, conversa, conta
  <2>. QED BY <2>1, <2>2, UnicosMantem
<1>13. CASE EscolherRitmo
  <2>1. host' = host /\ quantas' = quantas /\ prox' = prox
    BY <1>13 DEF EscolherRitmo, motor, filas, saidas, aba, conversa, conta
  <2>2. \A q \in Procs : Ativa(q)' => Ativa(q)
    BY <1>13 DEF EscolherRitmo, Ativa, motor, filas, saidas, aba, conversa, conta
  <2>. QED BY <2>1, <2>2, UnicosMantem
<1>14. CASE \E p \in Procs : Andar(p)
  <2>1. PICK p \in Procs : Andar(p)
    BY <1>14
  <2>2. CASE Despachar(p)
    <3>1. /\ prox < NHosts /\ prox' = prox + 1 /\ quantas' = quantas
         /\ host' = [host EXCEPT ![p] = prox + 1]
      BY <2>2 DEF Despachar, Tomar, Ir, motor, filas, saidas, aba, conversa, conta
    <3>2. \A q \in Procs \ {p} : Ativa(q)' => Ativa(q)
      BY <2>2 DEF Despachar, Tomar, Ir, Ativa, motor, filas, saidas, aba, conversa, conta
    <3>. QED BY <3>1, <3>2, UnicosToma
  <2>3. CASE ConferirHost(p)
    <3>1. host' = host /\ quantas' = quantas /\ prox' = prox
      BY <2>3 DEF ConferirHost, Ir, motor, filas, saidas, aba, conversa, conta
    <3>2. \A q \in Procs : Ativa(q)' => Ativa(q)
      BY <2>3 DEF ConferirHost, Ir, Ativa, motor, filas, saidas, aba, conversa, conta
    <3>. QED BY <3>1, <3>2, UnicosMantem
  <2>4. CASE SairDaFila(p)
    <3>1. host' = host /\ quantas' = quantas /\ prox' = prox
      BY <2>4 DEF SairDaFila, Ir, motor, filas, saidas, aba, conversa, conta
    <3>2. \A q \in Procs : Ativa(q)' => Ativa(q)
      BY <2>4 DEF SairDaFila, Ir, Ativa, motor, filas, saidas, aba, conversa, conta
    <3>. QED BY <3>1, <3>2, UnicosMantem
  <2>5. CASE Conectar(p)
    <3>1. host' = host /\ quantas' = quantas /\ prox' = prox
      BY <2>5 DEF Conectar, Ir, motor, filas, saidas, aba, conversa, conta
    <3>2. \A q \in Procs : Ativa(q)' => Ativa(q)
      BY <2>5 DEF Conectar, Ir, Ativa, motor, filas, saidas, aba, conversa, conta
    <3>. QED BY <3>1, <3>2, UnicosMantem
  <2>6. CASE FalharConexao(p)
    <3>1. host' = host /\ quantas' = quantas /\ prox' = prox
      BY <2>6 DEF FalharConexao, Encerrar, Ir, motor, filas, saidas, aba, conversa, conta
    <3>2. \A q \in Procs : Ativa(q)' => Ativa(q)
      BY <2>6 DEF FalharConexao, Encerrar, Ir, Ativa, motor, filas, saidas, aba,
       conversa, conta
    <3>. QED BY <3>1, <3>2, UnicosMantem
  <2>7. CASE Conferir(p)
    <3>1. host' = host /\ quantas' = quantas /\ prox' = prox
      BY <2>7 DEF Conferir, Encerrar, Ir, motor, filas, saidas, aba, conversa, conta
    <3>2. \A q \in Procs : Ativa(q)' => Ativa(q)
      BY <2>7 DEF Conferir, Encerrar, Ir, Ativa, motor, filas, saidas, aba, conversa,
       conta
    <3>. QED BY <3>1, <3>2, UnicosMantem
  <2>8. CASE ComandoBom(p)
    <3>1. host' = host /\ quantas' = quantas /\ prox' = prox
      BY <2>8 DEF ComandoBom, Voltar, Ir, motor, filas, saidas, aba, conversa, conta
    <3>2. \A q \in Procs : Ativa(q)' => Ativa(q)
      BY <2>8 DEF ComandoBom, Voltar, Ir, Ativa, motor, filas, saidas, aba, conversa,
       conta
    <3>. QED BY <3>1, <3>2, UnicosMantem
  <2>9. CASE PerderSessao(p)
    <3>1. host' = host /\ quantas' = quantas /\ prox' = prox
      BY <2>9 DEF PerderSessao, Voltar, Ir, motor, filas, saidas, aba, conversa, conta
    <3>2. \A q \in Procs : Ativa(q)' => Ativa(q)
      BY <2>9 DEF PerderSessao, Voltar, Ir, Ativa, motor, filas, saidas, aba, conversa,
       conta
    <3>. QED BY <3>1, <3>2, UnicosMantem
  <2>10. CASE ComandoRuim(p)
    <3>1. host' = host /\ quantas' = quantas /\ prox' = prox
      BY <2>10 DEF ComandoRuim, Voltar, Ir, motor, filas, saidas, aba, conversa, conta
    <3>2. \A q \in Procs : Ativa(q)' => Ativa(q)
      BY <2>10 DEF ComandoRuim, Voltar, Ir, Ativa, motor, filas, saidas, aba, conversa,
       conta
    <3>. QED BY <3>1, <3>2, UnicosMantem
  <2>11. CASE Perguntar(p)
    <3>1. host' = host /\ quantas' = quantas /\ prox' = prox
      BY <2>11 DEF Perguntar, Ir, motor, filas, saidas, aba, conversa, conta
    <3>2. \A q \in Procs : Ativa(q)' => Ativa(q)
      BY <2>11 DEF Perguntar, Ir, Ativa, motor, filas, saidas, aba, conversa, conta
    <3>. QED BY <3>1, <3>2, UnicosMantem
  <2>12. CASE Registrar(p)
    <3>1. host' = host /\ prox' = prox /\ quantas' = [quantas EXCEPT ![host[p]] = @ + 1]
      BY <2>12 DEF Registrar, motor
    <3>2. Ativa(p) /\ ~Ativa(p)'
      BY <2>12 DEF Registrar, Ir, Ativa, motor
    <3>3. \A q \in Procs : Ativa(q)' => Ativa(q)
      BY <2>12 DEF Registrar, Ir, Ativa, motor
    <3>. QED BY <3>1, <3>2, <3>3, UnicosRegistra
  <2>13. CASE AbrirPausa(p)
    <3>1. host' = host /\ quantas' = quantas /\ prox' = prox
      BY <2>13 DEF AbrirPausa, Ir, motor, filas, saidas, aba, conversa, conta
    <3>2. \A q \in Procs : Ativa(q)' => Ativa(q)
      BY <2>13 DEF AbrirPausa, Ir, Ativa, motor, filas, saidas, aba, conversa, conta
    <3>. QED BY <3>1, <3>2, UnicosMantem
  <2>14. CASE Receber(p)
    <3>1. host' = host /\ quantas' = quantas /\ prox' = prox
      BY <2>14 DEF Receber, Ir, motor, filas, saidas, aba, conversa, conta
    <3>2. \A q \in Procs : Ativa(q)' => Ativa(q)
      BY <2>14 DEF Receber, Ir, Ativa, motor, filas, saidas, aba, conversa, conta
    <3>. QED BY <3>1, <3>2, UnicosMantem
  <2>15. CASE DecidirErro(p)
    <3>1. host' = host /\ quantas' = quantas /\ prox' = prox
      BY <2>15 DEF DecidirErro, LimparPausa, Encerrar, Ir, motor, filas, saidas, aba,
       conversa, conta
    <3>2. \A q \in Procs : Ativa(q)' => Ativa(q)
      BY <2>15 DEF DecidirErro, LimparPausa, Encerrar, Ir, Ativa, motor, filas, saidas,
       aba, conversa, conta
    <3>. QED BY <3>1, <3>2, UnicosMantem
  <2>. QED BY <2>1, <2>2, <2>3, <2>4, <2>5, <2>6, <2>7, <2>8, <2>9, <2>10, <2>11,
       <2>12, <2>13, <2>14, <2>15 DEF Andar, Rede, Seguir
<1>. QED BY <1>1, <1>2, <1>3, <1>4, <1>5, <1>6, <1>7, <1>8, <1>9, <1>10, <1>11,
       <1>12, <1>13, <1>14 DEF Next, Executando

\* A step after which every host taken still has its goroutine.
LEMMA ContadoMantem ==
  ASSUME Contado, host' = host, quantas' = quantas, prox' = prox, ctx => ctx',
         \A q \in Procs : Ativa(q) => Ativa(q)' \/ ctx'
  PROVE  Contado'
BY DEF Contado

\* No host that was taken is forgotten.
LEMMA ContadoStep ==
  ASSUME TypeOK, Protocolo, Unicos, Contado, [Next]_vars
  PROVE  Contado'
<1>. USE Limites DEF TypeOK, Protocolo, Passos, NoHost, Perguntando
<1>1. CASE UNCHANGED vars
  BY <1>1, ContadoMantem DEF vars, Ativa, motor, filas,
       saidas, aba, conversa, conta
<1>2. CASE Comecar
  <2>1. prox' = 0
    BY <1>2 DEF Comecar
  <2>. QED BY <2>1 DEF Contado
<1>3. CASE ProximoCanario
  <2>1. /\ prox < NHosts /\ prox' = prox + 1 /\ quantas' = quantas /\ ctx' = ctx
         /\ host' = [host EXCEPT ![0] = prox + 1]
    BY <1>3 DEF ProximoCanario, Tomar, Ir, motor, filas, saidas, aba, conversa, conta
  <2>2. Ativa(0)' /\ ~Ativa(0) /\ \A q \in Procs : Ativa(q) => Ativa(q)'
    BY <1>3 DEF ProximoCanario, Tomar, Ir, Ativa, motor, filas, saidas, aba, conversa,
       conta
  <2>3. host'[0] = prox + 1 /\ \A q \in Procs \ {0} : host'[q] = host[q]
    BY <2>1
  <2>4. \A h \in 1..prox : (\E q \in Procs : Ativa(q) /\ host[q] = h)
            => \E q \in Procs : Ativa(q)' /\ host'[q] = h
    BY <2>2, <2>3
  <2>5. \E q \in Procs : Ativa(q)' /\ host'[q] = prox + 1
    BY <2>2, <2>3
  <2>6. \A h \in 1..prox' : h \in 1..prox \/ h = prox + 1
    BY <2>1
  <2>. QED BY <2>1, <2>4, <2>5, <2>6 DEF Contado
<1>4. CASE FimDoCanario
  <2>1. host' = host /\ quantas' = quantas /\ prox' = prox /\ (ctx => ctx')
    BY <1>4 DEF FimDoCanario, Ir, motor, filas, saidas, aba, conversa, conta
  <2>2. \A q \in Procs : Ativa(q) => Ativa(q)' \/ ctx'
    BY <1>4 DEF FimDoCanario, Ir, Ativa, motor, filas, saidas, aba, conversa, conta
  <2>. QED BY <2>1, <2>2, ContadoMantem
<1>5. CASE FimDoDespacho
  <2>1. host' = host /\ quantas' = quantas /\ prox' = prox /\ (ctx => ctx')
    BY <1>5 DEF FimDoDespacho, motor, filas, saidas, aba, conversa, conta
  <2>2. \A q \in Procs : Ativa(q) => Ativa(q)' \/ ctx'
    BY <1>5 DEF FimDoDespacho, Ativa, motor, filas, saidas, aba, conversa, conta
  <2>. QED BY <2>1, <2>2, ContadoMantem
<1>6. CASE Juntar
  <2>1. host' = host /\ quantas' = quantas /\ prox' = prox /\ (ctx => ctx')
    BY <1>6 DEF Juntar, motor, filas, saidas, aba, conversa, conta
  <2>2. \A q \in Procs : Ativa(q) => Ativa(q)' \/ ctx'
    BY <1>6 DEF Juntar, Ativa, motor, filas, saidas, aba, conversa, conta
  <2>. QED BY <2>1, <2>2, ContadoMantem
<1>7. CASE Terminar
  <2>1. host' = host /\ quantas' = quantas /\ prox' = prox /\ (ctx => ctx')
    BY <1>7 DEF Terminar, motor, filas, saidas, aba, conversa, conta
  <2>2. \A q \in Procs : Ativa(q) => Ativa(q)' \/ ctx'
    BY <1>7 DEF Terminar, Ativa, motor, filas, saidas, aba, conversa, conta
  <2>. QED BY <2>1, <2>2, ContadoMantem
<1>8. CASE DecidirCanario
  <2>1. host' = host /\ quantas' = quantas /\ prox' = prox /\ (ctx => ctx')
    BY <1>8 DEF DecidirCanario, LimparPausa, Ir, motor, filas, saidas, aba, conversa,
       conta
  <2>2. \A q \in Procs : Ativa(q) => Ativa(q)' \/ ctx'
    BY <1>8 DEF DecidirCanario, LimparPausa, Ir, Ativa, motor, filas, saidas, aba,
       conversa, conta
  <2>. QED BY <2>1, <2>2, ContadoMantem
<1>9. CASE Executar
  <2>1. host' = host /\ quantas' = quantas /\ prox' = prox /\ (ctx => ctx')
    BY <1>9 DEF Executar, motor, filas, saidas, aba, conversa, conta
  <2>2. \A q \in Procs : Ativa(q) => Ativa(q)' \/ ctx'
    BY <1>9 DEF Executar, Ativa, motor, filas, saidas, aba, conversa, conta
  <2>. QED BY <2>1, <2>2, ContadoMantem
<1>10. CASE Responder
  <2>1. host' = host /\ quantas' = quantas /\ prox' = prox /\ (ctx => ctx')
    BY <1>10 DEF Responder, Opcoes, motor, filas, saidas, aba, conversa, conta
  <2>2. \A q \in Procs : Ativa(q) => Ativa(q)' \/ ctx'
    BY <1>10 DEF Responder, Opcoes, Ativa, motor, filas, saidas, aba, conversa, conta
  <2>. QED BY <2>1, <2>2, ContadoMantem
<1>11. CASE Abortar
  <2>1. host' = host /\ quantas' = quantas /\ prox' = prox /\ (ctx => ctx')
    BY <1>11 DEF Abortar, Cancelar, motor, filas, saidas, aba, conversa, conta
  <2>2. \A q \in Procs : Ativa(q) => Ativa(q)' \/ ctx'
    BY <1>11 DEF Abortar, Cancelar, Ativa, motor, filas, saidas, aba, conversa, conta
  <2>. QED BY <2>1, <2>2, ContadoMantem
<1>12. CASE Close
  <2>1. host' = host /\ quantas' = quantas /\ prox' = prox /\ (ctx => ctx')
    BY <1>12 DEF Close, Cancelar, motor, filas, saidas, aba, conversa, conta
  <2>2. \A q \in Procs : Ativa(q) => Ativa(q)' \/ ctx'
    BY <1>12 DEF Close, Cancelar, Ativa, motor, filas, saidas, aba, conversa, conta
  <2>. QED BY <2>1, <2>2, ContadoMantem
<1>13. CASE EscolherRitmo
  <2>1. host' = host /\ quantas' = quantas /\ prox' = prox /\ (ctx => ctx')
    BY <1>13 DEF EscolherRitmo, motor, filas, saidas, aba, conversa, conta
  <2>2. \A q \in Procs : Ativa(q) => Ativa(q)' \/ ctx'
    BY <1>13 DEF EscolherRitmo, Ativa, motor, filas, saidas, aba, conversa, conta
  <2>. QED BY <2>1, <2>2, ContadoMantem
<1>14. CASE \E p \in Procs : Andar(p)
  <2>1. PICK p \in Procs : Andar(p)
    BY <1>14
  <2>2. CASE Despachar(p)
    <3>1. /\ prox < NHosts /\ prox' = prox + 1 /\ quantas' = quantas /\ ctx' = ctx
         /\ host' = [host EXCEPT ![p] = prox + 1]
      BY <2>2 DEF Despachar, Tomar, Ir, motor, filas, saidas, aba, conversa, conta
    <3>2. Ativa(p)' /\ ~Ativa(p) /\ \A q \in Procs : Ativa(q) => Ativa(q)'
      BY <2>2 DEF Despachar, Tomar, Ir, Ativa, motor, filas, saidas, aba, conversa, conta
    <3>3. host'[p] = prox + 1 /\ \A q \in Procs \ {p} : host'[q] = host[q]
      BY <3>1
    <3>4. \A h \in 1..prox : (\E q \in Procs : Ativa(q) /\ host[q] = h)
            => \E q \in Procs : Ativa(q)' /\ host'[q] = h
      BY <3>2, <3>3
    <3>5. \E q \in Procs : Ativa(q)' /\ host'[q] = prox + 1
      BY <3>2, <3>3
    <3>6. \A h \in 1..prox' : h \in 1..prox \/ h = prox + 1
      BY <3>1
    <3>. QED BY <3>1, <3>4, <3>5, <3>6 DEF Contado
  <2>3. CASE ConferirHost(p)
    <3>1. host' = host /\ quantas' = quantas /\ prox' = prox /\ (ctx => ctx')
      BY <2>3 DEF ConferirHost, Ir, motor, filas, saidas, aba, conversa, conta
    <3>2. \A q \in Procs : Ativa(q) => Ativa(q)' \/ ctx'
      BY <2>3 DEF ConferirHost, Ir, Ativa, motor, filas, saidas, aba, conversa, conta
    <3>. QED BY <3>1, <3>2, ContadoMantem
  <2>4. CASE SairDaFila(p)
    <3>1. host' = host /\ quantas' = quantas /\ prox' = prox /\ (ctx => ctx')
      BY <2>4 DEF SairDaFila, Ir, motor, filas, saidas, aba, conversa, conta
    <3>2. \A q \in Procs : Ativa(q) => Ativa(q)' \/ ctx'
      BY <2>4 DEF SairDaFila, Ir, Ativa, motor, filas, saidas, aba, conversa, conta
    <3>. QED BY <3>1, <3>2, ContadoMantem
  <2>5. CASE Conectar(p)
    <3>1. host' = host /\ quantas' = quantas /\ prox' = prox /\ (ctx => ctx')
      BY <2>5 DEF Conectar, Ir, motor, filas, saidas, aba, conversa, conta
    <3>2. \A q \in Procs : Ativa(q) => Ativa(q)' \/ ctx'
      BY <2>5 DEF Conectar, Ir, Ativa, motor, filas, saidas, aba, conversa, conta
    <3>. QED BY <3>1, <3>2, ContadoMantem
  <2>6. CASE FalharConexao(p)
    <3>1. host' = host /\ quantas' = quantas /\ prox' = prox /\ (ctx => ctx')
      BY <2>6 DEF FalharConexao, Encerrar, Ir, motor, filas, saidas, aba, conversa, conta
    <3>2. \A q \in Procs : Ativa(q) => Ativa(q)' \/ ctx'
      BY <2>6 DEF FalharConexao, Encerrar, Ir, Ativa, motor, filas, saidas, aba,
       conversa, conta
    <3>. QED BY <3>1, <3>2, ContadoMantem
  <2>7. CASE Conferir(p)
    <3>1. host' = host /\ quantas' = quantas /\ prox' = prox /\ (ctx => ctx')
      BY <2>7 DEF Conferir, Encerrar, Ir, motor, filas, saidas, aba, conversa, conta
    <3>2. \A q \in Procs : Ativa(q) => Ativa(q)' \/ ctx'
      BY <2>7 DEF Conferir, Encerrar, Ir, Ativa, motor, filas, saidas, aba, conversa,
       conta
    <3>. QED BY <3>1, <3>2, ContadoMantem
  <2>8. CASE ComandoBom(p)
    <3>1. host' = host /\ quantas' = quantas /\ prox' = prox /\ (ctx => ctx')
      BY <2>8 DEF ComandoBom, Voltar, Ir, motor, filas, saidas, aba, conversa, conta
    <3>2. \A q \in Procs : Ativa(q) => Ativa(q)' \/ ctx'
      BY <2>8 DEF ComandoBom, Voltar, Ir, Ativa, motor, filas, saidas, aba, conversa,
       conta
    <3>. QED BY <3>1, <3>2, ContadoMantem
  <2>9. CASE PerderSessao(p)
    <3>1. host' = host /\ quantas' = quantas /\ prox' = prox /\ (ctx => ctx')
      BY <2>9 DEF PerderSessao, Voltar, Ir, motor, filas, saidas, aba, conversa, conta
    <3>2. \A q \in Procs : Ativa(q) => Ativa(q)' \/ ctx'
      BY <2>9 DEF PerderSessao, Voltar, Ir, Ativa, motor, filas, saidas, aba, conversa,
       conta
    <3>. QED BY <3>1, <3>2, ContadoMantem
  <2>10. CASE ComandoRuim(p)
    <3>1. host' = host /\ quantas' = quantas /\ prox' = prox /\ (ctx => ctx')
      BY <2>10 DEF ComandoRuim, Voltar, Ir, motor, filas, saidas, aba, conversa, conta
    <3>2. \A q \in Procs : Ativa(q) => Ativa(q)' \/ ctx'
      BY <2>10 DEF ComandoRuim, Voltar, Ir, Ativa, motor, filas, saidas, aba, conversa,
       conta
    <3>. QED BY <3>1, <3>2, ContadoMantem
  <2>11. CASE Perguntar(p)
    <3>1. host' = host /\ quantas' = quantas /\ prox' = prox /\ (ctx => ctx')
      BY <2>11 DEF Perguntar, Ir, motor, filas, saidas, aba, conversa, conta
    <3>2. \A q \in Procs : Ativa(q) => Ativa(q)' \/ ctx'
      BY <2>11 DEF Perguntar, Ir, Ativa, motor, filas, saidas, aba, conversa, conta
    <3>. QED BY <3>1, <3>2, ContadoMantem
  <2>12. CASE Registrar(p)
    <3>1. /\ host' = host /\ prox' = prox /\ ctx' = ctx
         /\ quantas' = [quantas EXCEPT ![host[p]] = @ + 1]
      BY <2>12 DEF Registrar, motor
    <3>2. \A q \in Procs \ {p} : Ativa(q) => Ativa(q)'
      BY <2>12 DEF Registrar, Ir, Ativa, motor
    <3>3. Ativa(p)
      BY <2>12 DEF Registrar, Ativa
    <3>4. host[p] \in 1..prox /\ quantas[host[p]] = 0 /\ prox \in Nat
      BY <3>3 DEF Unicos
    <3>5. \A h \in Hosts : quantas'[h] = IF h = host[p] THEN 1 ELSE quantas[h]
      BY <3>1, <3>4
    <3>6. 1..prox \subseteq Hosts
      OBVIOUS
    <3>. QED BY <3>1, <3>2, <3>4, <3>5, <3>6 DEF Contado
  <2>13. CASE AbrirPausa(p)
    <3>1. host' = host /\ quantas' = quantas /\ prox' = prox /\ (ctx => ctx')
      BY <2>13 DEF AbrirPausa, Ir, motor, filas, saidas, aba, conversa, conta
    <3>2. \A q \in Procs : Ativa(q) => Ativa(q)' \/ ctx'
      BY <2>13 DEF AbrirPausa, Ir, Ativa, motor, filas, saidas, aba, conversa, conta
    <3>. QED BY <3>1, <3>2, ContadoMantem
  <2>14. CASE Receber(p)
    <3>1. host' = host /\ quantas' = quantas /\ prox' = prox /\ (ctx => ctx')
      BY <2>14 DEF Receber, Ir, motor, filas, saidas, aba, conversa, conta
    <3>2. \A q \in Procs : Ativa(q) => Ativa(q)' \/ ctx'
      BY <2>14 DEF Receber, Ir, Ativa, motor, filas, saidas, aba, conversa, conta
    <3>. QED BY <3>1, <3>2, ContadoMantem
  <2>15. CASE DecidirErro(p)
    <3>1. host' = host /\ quantas' = quantas /\ prox' = prox /\ (ctx => ctx')
      BY <2>15 DEF DecidirErro, LimparPausa, Encerrar, Ir, motor, filas, saidas, aba,
       conversa, conta
    <3>2. \A q \in Procs : Ativa(q) => Ativa(q)' \/ ctx'
      BY <2>15 DEF DecidirErro, LimparPausa, Encerrar, Ir, Ativa, motor, filas, saidas,
       aba, conversa, conta
    <3>. QED BY <3>1, <3>2, ContadoMantem
  <2>. QED BY <2>1, <2>2, <2>3, <2>4, <2>5, <2>6, <2>7, <2>8, <2>9, <2>10, <2>11,
       <2>12, <2>13, <2>14, <2>15 DEF Andar, Rede, Seguir
<1>. QED BY <1>1, <1>2, <1>3, <1>4, <1>5, <1>6, <1>7, <1>8, <1>9, <1>10, <1>11,
       <1>12, <1>13, <1>14 DEF Next, Executando

\* How far the list is, and the results of the canary.
LEMMA MarcasStep ==
  ASSUME TypeOK, Protocolo, Marcas, Unicos, Contado, [Next]_vars
  PROVE  Marcas'
<1>. USE Limites DEF TypeOK, Protocolo, Marcas, Passos, NoHost, Perguntando
<1>1. CASE UNCHANGED vars
  BY <1>1 DEF vars, motor, filas, saidas, aba, conversa, conta
<1>2. CASE Comecar
  BY <1>2 DEF Comecar, Ir, motor, filas, saidas, aba, conversa, conta
<1>3. CASE ProximoCanario
  BY <1>3 DEF ProximoCanario, Tomar, Ir, motor, filas, saidas, aba, conversa, conta
<1>4. CASE FimDoCanario
  <2>1. CASE ctx \/ NHosts <= NCanario
    BY <1>4, <2>1, SMTT(30) DEF FimDoCanario, conta
  <2>2. CASE ~(ctx \/ NHosts <= NCanario)
    <3>1. \A q \in Procs : ~Ativa(q)
      BY <1>4 DEF FimDoCanario, Ativa
    <3>2. prox = NCanario /\ \A h \in 1..NCanario : quantas[h] = 1
      BY <1>4, <2>2, <3>1, SMTT(30) DEF FimDoCanario, Contado
    <3>. QED BY <1>4, <2>2, <3>2 DEF FimDoCanario, conta, saidas
  <2>. QED BY <2>1, <2>2
<1>5. CASE FimDoDespacho
  BY <1>5 DEF FimDoDespacho, motor, filas, saidas, aba, conversa, conta
<1>6. CASE Juntar
  BY <1>6 DEF Juntar, motor, filas, saidas, aba, conversa, conta
<1>7. CASE Terminar
  BY <1>7 DEF Terminar, motor, filas, saidas, aba, conversa, conta
<1>8. CASE DecidirCanario
  BY <1>8 DEF DecidirCanario, LimparPausa, Ir, motor, filas, saidas, aba, conversa,
       conta
<1>9. CASE Executar
  BY <1>9 DEF Executar, motor, filas, saidas, aba, conversa, conta
<1>10. CASE Responder
  BY <1>10 DEF Responder, Opcoes, motor, filas, saidas, aba, conversa, conta
<1>11. CASE Abortar
  BY <1>11 DEF Abortar, Cancelar, motor, filas, saidas, aba, conversa, conta
<1>12. CASE Close
  BY <1>12 DEF Close, Cancelar, motor, filas, saidas, aba, conversa, conta
<1>13. CASE EscolherRitmo
  BY <1>13 DEF EscolherRitmo, motor, filas, saidas, aba, conversa, conta
<1>14. CASE \E p \in Procs : Andar(p)
  <2>1. PICK p \in Procs : Andar(p)
    BY <1>14
  <2>2. CASE Despachar(p)
    BY <2>2 DEF Despachar, Tomar, Ir, motor, filas, saidas, aba, conversa, conta
  <2>3. CASE ConferirHost(p)
    BY <2>3 DEF ConferirHost, Ir, motor, filas, saidas, aba, conversa, conta
  <2>4. CASE SairDaFila(p)
    BY <2>4 DEF SairDaFila, Ir, motor, filas, saidas, aba, conversa, conta
  <2>5. CASE Conectar(p)
    BY <2>5 DEF Conectar, Ir, motor, filas, saidas, aba, conversa, conta
  <2>6. CASE FalharConexao(p)
    BY <2>6 DEF FalharConexao, Encerrar, Ir, motor, filas, saidas, aba, conversa, conta
  <2>7. CASE Conferir(p)
    BY <2>7 DEF Conferir, Encerrar, Ir, motor, filas, saidas, aba, conversa, conta
  <2>8. CASE ComandoBom(p)
    BY <2>8 DEF ComandoBom, Voltar, Ir, motor, filas, saidas, aba, conversa, conta
  <2>9. CASE PerderSessao(p)
    BY <2>9 DEF PerderSessao, Voltar, Ir, motor, filas, saidas, aba, conversa, conta
  <2>10. CASE ComandoRuim(p)
    BY <2>10 DEF ComandoRuim, Voltar, Ir, motor, filas, saidas, aba, conversa, conta
  <2>11. CASE Perguntar(p)
    BY <2>11 DEF Perguntar, Ir, motor, filas, saidas, aba, conversa, conta
  <2>12. CASE Registrar(p)
    <3>1. /\ UNCHANGED <<main, prox, ctx, aprovou>>
         /\ quantas' = [quantas EXCEPT ![host[p]] = @ + 1]
      BY <2>12 DEF Registrar, motor, conta
    <3>2. Ativa(p)
      BY <2>12 DEF Registrar, Ativa
    <3>3. host[p] \in 1..prox /\ quantas[host[p]] = 0 /\ prox \in Nat
      BY <3>2 DEF Unicos
    <3>4. \A h \in Hosts : quantas'[h] = IF h = host[p] THEN 1 ELSE quantas[h]
      BY <3>1, <3>3
    <3>5. 1..NCanario \subseteq Hosts
      OBVIOUS
    <3>6. \A h \in 1..NCanario : quantas[h] = 1 => quantas'[h] = 1
      BY <3>4, <3>5
    <3>. QED BY <3>1, <3>6 DEF Marcas
  <2>13. CASE AbrirPausa(p)
    BY <2>13 DEF AbrirPausa, Ir, motor, filas, saidas, aba, conversa, conta
  <2>14. CASE Receber(p)
    BY <2>14 DEF Receber, Ir, motor, filas, saidas, aba, conversa, conta
  <2>15. CASE DecidirErro(p)
    BY <2>15 DEF DecidirErro, LimparPausa, Encerrar, Ir, motor, filas, saidas, aba,
       conversa, conta
  <2>. QED BY <2>1, <2>2, <2>3, <2>4, <2>5, <2>6, <2>7, <2>8, <2>9, <2>10, <2>11,
       <2>12, <2>13, <2>14, <2>15 DEF Andar, Rede, Seguir
<1>. QED BY <1>1, <1>2, <1>3, <1>4, <1>5, <1>6, <1>7, <1>8, <1>9, <1>10, <1>11,
       <1>12, <1>13, <1>14 DEF Next, Executando

\* Past the canary there is an approval and every canary has its result.
LEMMA TravaStep ==
  ASSUME TypeOK, Protocolo, Marcas, Unicos, TravaDoCanario, [Next]_vars
  PROVE  TravaDoCanario'
<1>. USE Limites DEF TypeOK, Protocolo, Marcas, TravaDoCanario, Passos, NoHost, Perguntando
<1>1. CASE UNCHANGED vars
  BY <1>1 DEF vars, motor, filas, saidas, aba, conversa, conta
<1>2. CASE Comecar
  BY <1>2 DEF Comecar, Ir, motor, filas, saidas, aba, conversa, conta
<1>3. CASE ProximoCanario
  BY <1>3 DEF ProximoCanario, Tomar, Ir, motor, filas, saidas, aba, conversa, conta
<1>4. CASE FimDoCanario
  BY <1>4 DEF FimDoCanario, Ir, motor, filas, saidas, aba, conversa, conta
<1>5. CASE FimDoDespacho
  BY <1>5 DEF FimDoDespacho, motor, filas, saidas, aba, conversa, conta
<1>6. CASE Juntar
  BY <1>6 DEF Juntar, motor, filas, saidas, aba, conversa, conta
<1>7. CASE Terminar
  BY <1>7 DEF Terminar, motor, filas, saidas, aba, conversa, conta
<1>8. CASE DecidirCanario
  BY <1>8 DEF DecidirCanario, LimparPausa, Ir, motor, filas, saidas, aba, conversa,
       conta
<1>9. CASE Executar
  BY <1>9 DEF Executar, motor, filas, saidas, aba, conversa, conta
<1>10. CASE Responder
  BY <1>10 DEF Responder, Opcoes, motor, filas, saidas, aba, conversa, conta
<1>11. CASE Abortar
  BY <1>11 DEF Abortar, Cancelar, motor, filas, saidas, aba, conversa, conta
<1>12. CASE Close
  BY <1>12 DEF Close, Cancelar, motor, filas, saidas, aba, conversa, conta
<1>13. CASE EscolherRitmo
  BY <1>13 DEF EscolherRitmo, motor, filas, saidas, aba, conversa, conta
<1>14. CASE \E p \in Procs : Andar(p)
  <2>1. PICK p \in Procs : Andar(p)
    BY <1>14
  <2>2. CASE Despachar(p)
    BY <2>2 DEF Despachar, Tomar, Ir, motor, filas, saidas, aba, conversa, conta
  <2>3. CASE ConferirHost(p)
    BY <2>3 DEF ConferirHost, Ir, motor, filas, saidas, aba, conversa, conta
  <2>4. CASE SairDaFila(p)
    BY <2>4 DEF SairDaFila, Ir, motor, filas, saidas, aba, conversa, conta
  <2>5. CASE Conectar(p)
    BY <2>5 DEF Conectar, Ir, motor, filas, saidas, aba, conversa, conta
  <2>6. CASE FalharConexao(p)
    BY <2>6 DEF FalharConexao, Encerrar, Ir, motor, filas, saidas, aba, conversa, conta
  <2>7. CASE Conferir(p)
    BY <2>7 DEF Conferir, Encerrar, Ir, motor, filas, saidas, aba, conversa, conta
  <2>8. CASE ComandoBom(p)
    BY <2>8 DEF ComandoBom, Voltar, Ir, motor, filas, saidas, aba, conversa, conta
  <2>9. CASE PerderSessao(p)
    BY <2>9 DEF PerderSessao, Voltar, Ir, motor, filas, saidas, aba, conversa, conta
  <2>10. CASE ComandoRuim(p)
    BY <2>10 DEF ComandoRuim, Voltar, Ir, motor, filas, saidas, aba, conversa, conta
  <2>11. CASE Perguntar(p)
    BY <2>11 DEF Perguntar, Ir, motor, filas, saidas, aba, conversa, conta
  <2>12. CASE Registrar(p)
    <3>1. /\ UNCHANGED <<main, prox, ctx, aprovou>>
         /\ quantas' = [quantas EXCEPT ![host[p]] = @ + 1]
      BY <2>12 DEF Registrar, motor, conta
    <3>2. Ativa(p)
      BY <2>12 DEF Registrar, Ativa
    <3>3. host[p] \in 1..prox /\ quantas[host[p]] = 0 /\ prox \in Nat
      BY <3>2 DEF Unicos
    <3>4. \A h \in Hosts : quantas'[h] = IF h = host[p] THEN 1 ELSE quantas[h]
      BY <3>1, <3>3
    <3>5. 1..NCanario \subseteq Hosts
      OBVIOUS
    <3>6. \A h \in 1..NCanario : quantas[h] = 1 => quantas'[h] = 1
      BY <3>4, <3>5
    <3>. QED BY <3>1, <3>6 DEF TravaDoCanario
  <2>13. CASE AbrirPausa(p)
    BY <2>13 DEF AbrirPausa, Ir, motor, filas, saidas, aba, conversa, conta
  <2>14. CASE Receber(p)
    BY <2>14 DEF Receber, Ir, motor, filas, saidas, aba, conversa, conta
  <2>15. CASE DecidirErro(p)
    BY <2>15 DEF DecidirErro, LimparPausa, Encerrar, Ir, motor, filas, saidas, aba,
       conversa, conta
  <2>. QED BY <2>1, <2>2, <2>3, <2>4, <2>5, <2>6, <2>7, <2>8, <2>9, <2>10, <2>11,
       <2>12, <2>13, <2>14, <2>15 DEF Andar, Rede, Seguir
<1>. QED BY <1>1, <1>2, <1>3, <1>4, <1>5, <1>6, <1>7, <1>8, <1>9, <1>10, <1>11,
       <1>12, <1>13, <1>14 DEF Next, Executando

\* Types.
LEMMA TypeStep ==
  ASSUME TypeOK, EmCurso, [Next]_vars
  PROVE  TypeOK'
<1>. USE MassaAssumption
<1>1. CASE UNCHANGED vars
  BY <1>1 DEF vars, TypeOK, motor, filas, saidas, aba,
       conversa, conta
<1>2. CASE Comecar
  <2>1. faz' \in [Procs -> Passos]
    BY <1>2, Limites DEF Comecar, Ir, motor, filas, saidas, aba, conversa, conta,
       Passos, NoHost, Perguntando, TypeOK
  <2>2. quantas' \in [Hosts -> Nat]
    BY <1>2 DEF Comecar
  <2>3. anotado' \in [Hosts -> [st : Status, cmds : 0..NCmds]]
    BY <1>2, Limites DEF Comecar, Status
  <2>4. depois' \in [Procs -> Nat]
    BY <1>2 DEF Comecar
  <2>5. prox' \in 0..NHosts /\ main' \in {"fim", "canario"}
    BY <1>2 DEF Comecar
  <2>. QED BY <1>2, <2>1, <2>2, <2>3, <2>4, <2>5 DEF Comecar, Ir, motor, filas, saidas,
       aba, conversa, conta, TypeOK
<1>3. CASE ProximoCanario
  <2>1. faz' \in [Procs -> Passos]
    BY <1>3, Limites DEF ProximoCanario, Tomar, Ir, motor, filas, saidas, aba,
       conversa, conta, Passos, NoHost, Perguntando, TypeOK
  <2>2. host' = [host EXCEPT ![0] = prox + 1]
    BY <1>3 DEF ProximoCanario, Tomar, Ir, TypeOK
  <2>3. prox + 1 \in 0..NHosts
    BY <1>3, Limites DEF ProximoCanario, Tomar, Ir, TypeOK, EmCurso
  <2>4. host' \in [Procs -> 0..NHosts]
    BY <2>2, <2>3 DEF TypeOK
  <2>5. cmd' = [cmd EXCEPT ![0] = 0]
    BY <1>3 DEF ProximoCanario, Tomar, Ir, TypeOK
  <2>6. 0 \in 0..NCmds
    BY <1>3, Limites DEF ProximoCanario, Tomar, Ir, TypeOK, EmCurso
  <2>7. cmd' \in [Procs -> 0..NCmds]
    BY <2>5, <2>6 DEF TypeOK
  <2>8. prox' \in 0..NHosts
    BY <1>3, Limites DEF ProximoCanario, Tomar, Ir, motor, filas, saidas, aba,
       conversa, conta, TypeOK
  <2>. QED BY <1>3, Limites, <2>1, <2>4, <2>7, <2>8 DEF ProximoCanario, Tomar, Ir,
       motor, filas, saidas, aba, conversa, conta, TypeOK
<1>4. CASE FimDoCanario
  <2>1. faz' \in [Procs -> Passos]
    BY <1>4, Limites DEF FimDoCanario, Ir, motor, filas, saidas, aba, conversa, conta,
       Passos, NoHost, Perguntando, TypeOK
  <2>. QED BY <1>4, Limites, <2>1 DEF FimDoCanario, Ir, motor, filas, saidas, aba,
       conversa, conta, TypeOK
<1>5. CASE FimDoDespacho
  BY <1>5, Limites DEF FimDoDespacho, TypeOK, motor, filas, saidas, aba, conversa, conta
<1>6. CASE Juntar
  BY <1>6, Limites DEF Juntar, TypeOK, motor, filas, saidas, aba, conversa, conta
<1>7. CASE Terminar
  BY <1>7, Limites DEF Terminar, TypeOK, motor, filas, saidas, aba, conversa, conta
<1>8. CASE DecidirCanario
  <2>1. faz' \in [Procs -> Passos]
    BY <1>8, Limites DEF DecidirCanario, LimparPausa, Ir, motor, filas, saidas, aba,
       conversa, conta, Passos, NoHost, Perguntando, TypeOK
  <2>2. pausa' \in Procs \cup {Ninguem}
    BY <1>8, Limites DEF DecidirCanario, LimparPausa, Ir, motor, filas, saidas, aba,
       conversa, conta, TypeOK
  <2>. QED BY <1>8, Limites, <2>1, <2>2 DEF DecidirCanario, LimparPausa, Ir, motor,
       filas, saidas, aba, conversa, conta, TypeOK
<1>9. CASE Executar
  <2>1. execucoes \in Nat /\ execucoes' = execucoes + 1
    BY <1>9 DEF Executar, TypeOK
  <2>2. execucoes' \in Nat
    BY <2>1
  <2>. QED BY <1>9, <2>2 DEF Executar, TypeOK, motor, filas, saidas, aba, conversa, conta
<1>10. CASE Responder
  <2>1. resp' \in [Procs -> Respostas]
    BY <1>10, Limites DEF Responder, Opcoes, motor, filas, saidas, aba, conversa, conta,
       Respostas, Decisoes, Opcoes, TypeOK
  <2>. QED BY <1>10, Limites, <2>1, SMTT(30) DEF Responder, Opcoes, motor, filas, saidas, aba,
       conversa, conta, TypeOK
<1>11. CASE Abortar
  BY <1>11, Limites DEF Abortar, Cancelar, TypeOK, motor, filas, saidas, aba, conversa,
       conta
<1>12. CASE Close
  BY <1>12, Limites DEF Close, Cancelar, TypeOK, motor, filas, saidas, aba, conversa, conta
<1>13. CASE EscolherRitmo
  BY <1>13, Limites DEF EscolherRitmo, TypeOK, motor, filas, saidas, aba, conversa, conta
<1>14. CASE \E p \in Procs : Andar(p)
  <2>1. PICK p \in Procs : Andar(p)
    BY <1>14
  <2>2. CASE Despachar(p)
    <3>1. faz' \in [Procs -> Passos]
      BY <2>2, Limites DEF Despachar, Tomar, Ir, motor, filas, saidas, aba, conversa,
       conta, Passos, NoHost, Perguntando, TypeOK
    <3>2. host' = [host EXCEPT ![p] = prox + 1]
      BY <2>2 DEF Despachar, Tomar, Ir, TypeOK
    <3>3. prox + 1 \in 0..NHosts
      BY <2>2, Limites DEF Despachar, Tomar, Ir, TypeOK, EmCurso
    <3>4. host' \in [Procs -> 0..NHosts]
      BY <3>2, <3>3 DEF TypeOK
    <3>5. cmd' = [cmd EXCEPT ![p] = 0]
      BY <2>2 DEF Despachar, Tomar, Ir, TypeOK
    <3>6. 0 \in 0..NCmds
      BY <2>2, Limites DEF Despachar, Tomar, Ir, TypeOK, EmCurso
    <3>7. cmd' \in [Procs -> 0..NCmds]
      BY <3>5, <3>6 DEF TypeOK
    <3>8. prox' \in 0..NHosts
      BY <2>2, Limites DEF Despachar, Tomar, Ir, motor, filas, saidas, aba, conversa,
       conta, TypeOK
    <3>. QED BY <2>2, Limites, <3>1, <3>4, <3>7, <3>8 DEF Despachar, Tomar, Ir, motor,
       filas, saidas, aba, conversa, conta, TypeOK
  <2>3. CASE ConferirHost(p)
    <3>1. faz' \in [Procs -> Passos]
      BY <2>3, Limites DEF ConferirHost, Ir, motor, filas, saidas, aba, conversa,
       conta, Passos, NoHost, Perguntando, TypeOK
    <3>. QED BY <2>3, Limites, <3>1, SMTT(30) DEF ConferirHost, Ir, motor, filas, saidas, aba,
       conversa, conta, TypeOK
  <2>4. CASE SairDaFila(p)
    <3>1. faz' \in [Procs -> Passos]
      BY <2>4, Limites DEF SairDaFila, Ir, motor, filas, saidas, aba, conversa, conta,
       Passos, NoHost, Perguntando, TypeOK
    <3>. QED BY <2>4, Limites, <3>1 DEF SairDaFila, Ir, motor, filas, saidas, aba,
       conversa, conta, TypeOK
  <2>5. CASE Conectar(p)
    <3>1. faz' \in [Procs -> Passos]
      BY <2>5, Limites DEF Conectar, Ir, motor, filas, saidas, aba, conversa, conta,
       Passos, NoHost, Perguntando, TypeOK
    <3>2. UNCHANGED <<main, prox, host, cmd, ctx, tudo, quantas, anotado, rodando,
                      fechada, paralelo, pausa, resp, aprovou, abortou, depois, falhas,
                      execucoes>>
      BY <2>5 DEF Conectar, motor, saidas, aba, conversa, conta
    <3>. QED BY <3>1, <3>2 DEF TypeOK
  <2>6. CASE FalharConexao(p)
    <3>1. faz' \in [Procs -> Passos]
      BY <2>6, Limites DEF FalharConexao, Encerrar, Ir, motor, filas, saidas, aba,
       conversa, conta, Passos, NoHost, Perguntando, TypeOK
    <3>2. \A st \in Status :
           [st |-> st, cmds |-> cmd[p]] \in [st : Status, cmds : 0..NCmds]
      BY <2>6, Limites DEF TypeOK, EmCurso
    <3>3. anotado' = [anotado EXCEPT ![host[p]] = [st |-> "ruim", cmds |-> cmd[p]]]
      BY <2>6 DEF FalharConexao, Encerrar, Ir
    <3>4. {"ruim"} \subseteq Status
      BY DEF Status
    <3>5. anotado' \in [Hosts -> [st : Status, cmds : 0..NCmds]]
      BY <3>2, <3>3, <3>4 DEF TypeOK
    <3>6. UNCHANGED <<main, prox, host, cmd, ctx, tudo, quantas, rodando, fechada,
                      paralelo, pausa, resp, aprovou, abortou, depois, falhas,
                      execucoes>>
      BY <2>6 DEF FalharConexao, motor, saidas, aba, conversa, conta
    <3>. QED BY <3>1, <3>5, <3>6 DEF TypeOK
  <2>7. CASE Conferir(p)
    <3>1. faz' \in [Procs -> Passos]
      <4>1. Ir(p, "registrar") \/ Ir(p, "rodando")
        BY <2>7 DEF Conferir, Encerrar
      <4>2. {"registrar", "rodando"} \subseteq Passos
        BY DEF Passos, NoHost
      <4>3. faz \in [Procs -> Passos]
        BY DEF TypeOK
      <4> QED
        BY <4>1, <4>2, <4>3 DEF Ir
    <3>2. \A st \in Status :
           [st |-> st, cmds |-> cmd[p]] \in [st : Status, cmds : 0..NCmds]
      BY <2>7, Limites DEF TypeOK, EmCurso
    <3>3. \/ anotado' = [anotado EXCEPT ![host[p]] = [st |-> "ok", cmds |-> cmd[p]]]
         \/ anotado' = [anotado EXCEPT ![host[p]] = [st |-> "pulado", cmds |-> cmd[p]]]
         \/ anotado' = anotado
      BY <2>7 DEF Conferir, Encerrar, Ir
    <3>4. {"ok", "pulado"} \subseteq Status
      BY DEF Status
    <3>5. anotado' \in [Hosts -> [st : Status, cmds : 0..NCmds]]
      BY <3>2, <3>3, <3>4 DEF TypeOK
    <3>6. UNCHANGED <<main, prox, host, cmd, ctx, tudo, quantas, rodando, fechada, paralelo,
                      pausa, resp, aprovou, abortou, depois, falhas, execucoes>>
      BY <2>7 DEF Conferir, motor, aba, conversa, conta
    <3>. QED BY <3>1, <3>5, <3>6 DEF TypeOK
  <2>8. CASE ComandoBom(p)
    <3>1. faz' \in [Procs -> Passos]
      BY <2>8, Limites DEF ComandoBom, Voltar, Ir, motor, filas, saidas, aba, conversa,
       conta, Passos, NoHost, Perguntando, TypeOK
    <3>2. cmd' = [cmd EXCEPT ![p] = cmd[p] + 1]
      BY <2>8 DEF ComandoBom, Voltar, Ir, TypeOK
    <3>3. faz[p] = "rodando"
      BY <2>8 DEF ComandoBom, Voltar, Ir
    <3>4. cmd[p] \in 0..NCmds /\ cmd[p] < NCmds
      BY <3>3 DEF TypeOK, EmCurso
    <3>5. cmd[p] + 1 \in 0..NCmds
      BY <3>4
    <3>6. cmd' \in [Procs -> 0..NCmds]
      BY <3>2, <3>5 DEF TypeOK
    <3>7. depois' = [depois EXCEPT ![p] = (IF ctx THEN depois[p] + 1 ELSE depois[p])]
      BY <2>8 DEF ComandoBom, Voltar, Ir, TypeOK
    <3>8. depois[p] \in Nat
      BY DEF TypeOK
    <3>9. (IF ctx THEN depois[p] + 1 ELSE depois[p]) \in Nat
      BY <3>8
    <3>10. depois' \in [Procs -> Nat]
      BY <3>7, <3>9 DEF TypeOK
    <3>11. UNCHANGED <<main, prox, host, ctx, tudo, quantas, anotado, rodando, fechada,
                      paralelo, pausa, resp, aprovou, abortou, falhas, execucoes>>
      BY <2>8 DEF ComandoBom, Voltar, motor, saidas, aba, conversa, conta
    <3>. QED BY <3>1, <3>6, <3>10, <3>11 DEF TypeOK
  <2>9. CASE PerderSessao(p)
    <3>1. faz' \in [Procs -> Passos]
      BY <2>9, Limites DEF PerderSessao, Voltar, Ir, motor, filas, saidas, aba,
       conversa, conta, Passos, NoHost, Perguntando, TypeOK
    <3>2. cmd' = [cmd EXCEPT ![p] = cmd[p] + 1]
      BY <2>9 DEF PerderSessao, Voltar, Ir, TypeOK
    <3>3. faz[p] = "rodando"
      BY <2>9 DEF PerderSessao, Voltar, Ir
    <3>4. cmd[p] \in 0..NCmds /\ cmd[p] < NCmds
      BY <3>3 DEF TypeOK, EmCurso
    <3>5. cmd[p] + 1 \in 0..NCmds
      BY <3>4
    <3>6. cmd' \in [Procs -> 0..NCmds]
      BY <3>2, <3>5 DEF TypeOK
    <3>7. depois' = [depois EXCEPT ![p] = (IF ctx THEN depois[p] + 1 ELSE depois[p])]
      BY <2>9 DEF PerderSessao, Voltar, Ir, TypeOK
    <3>8. depois[p] \in Nat
      BY DEF TypeOK
    <3>9. (IF ctx THEN depois[p] + 1 ELSE depois[p]) \in Nat
      BY <3>8
    <3>10. depois' \in [Procs -> Nat]
      BY <3>7, <3>9 DEF TypeOK
    <3>11. \A st \in Status :
           [st |-> st, cmds |-> cmd[p] + 1] \in [st : Status, cmds : 0..NCmds]
      BY <3>5
    <3>12. anotado' = [anotado EXCEPT ![host[p]] = [st |-> "ruim", cmds |-> cmd[p] + 1]]
      BY <2>9 DEF PerderSessao, Voltar, Ir
    <3>13. {"ruim"} \subseteq Status
      BY DEF Status
    <3>14. anotado' \in [Hosts -> [st : Status, cmds : 0..NCmds]]
      BY <3>11, <3>12, <3>13 DEF TypeOK
    <3>15. UNCHANGED <<main, prox, host, ctx, tudo, quantas, rodando, fechada, paralelo,
                      pausa, resp, aprovou, abortou, falhas, execucoes>>
      BY <2>9 DEF PerderSessao, Voltar, motor, saidas, aba, conversa, conta
    <3>. QED BY <3>1, <3>6, <3>10, <3>14, <3>15 DEF TypeOK
  <2>10. CASE ComandoRuim(p)
    <3>1. faz' \in [Procs -> Passos]
      BY <2>10, Limites DEF ComandoRuim, Voltar, Ir, motor, filas, saidas, aba,
       conversa, conta, Passos, NoHost, Perguntando, TypeOK
    <3>2. cmd' = [cmd EXCEPT ![p] = cmd[p] + 1]
      BY <2>10 DEF ComandoRuim, Voltar, Ir, TypeOK
    <3>3. faz[p] = "rodando"
      BY <2>10 DEF ComandoRuim, Voltar, Ir
    <3>4. cmd[p] \in 0..NCmds /\ cmd[p] < NCmds
      BY <3>3 DEF TypeOK, EmCurso
    <3>5. cmd[p] + 1 \in 0..NCmds
      BY <3>4
    <3>6. cmd' \in [Procs -> 0..NCmds]
      BY <3>2, <3>5 DEF TypeOK
    <3>7. depois' = [depois EXCEPT ![p] = (IF ctx THEN depois[p] + 1 ELSE depois[p])]
      BY <2>10 DEF ComandoRuim, Voltar, Ir, TypeOK
    <3>8. depois[p] \in Nat
      BY DEF TypeOK
    <3>9. (IF ctx THEN depois[p] + 1 ELSE depois[p]) \in Nat
      BY <3>8
    <3>10. depois' \in [Procs -> Nat]
      BY <3>7, <3>9 DEF TypeOK
    <3>11. falhas \in Nat /\ falhas' = falhas + 1
      BY <2>10 DEF ComandoRuim, TypeOK
    <3>12. falhas' \in Nat
      BY <3>11
    <3>13. UNCHANGED <<main, prox, host, ctx, tudo, quantas, anotado, rodando, fechada,
                      paralelo, pausa, resp, aprovou, abortou, execucoes>>
      BY <2>10 DEF ComandoRuim, Voltar, motor, saidas, aba, conversa, conta
    <3>. QED BY <3>1, <3>6, <3>10, <3>12, <3>13 DEF TypeOK
  <2>11. CASE Perguntar(p)
    <3>1. faz' \in [Procs -> Passos]
      BY <2>11, Limites DEF Perguntar, Ir, motor, filas, saidas, aba, conversa, conta,
       Passos, NoHost, Perguntando, TypeOK
    <3>2. UNCHANGED <<main, prox, host, cmd, ctx, tudo, quantas, anotado, rodando,
                      fechada, paralelo, pausa, resp, aprovou, abortou, depois, falhas,
                      execucoes>>
      BY <2>11 DEF Perguntar, motor, saidas, aba, conversa, conta
    <3>. QED BY <3>1, <3>2 DEF TypeOK
  <2>12. CASE Registrar(p)
    <3>1. faz' \in [Procs -> Passos]
      BY <2>12, Limites DEF Registrar, Ir, motor, filas, saidas, aba, conversa, conta,
       Passos, NoHost, Perguntando, TypeOK
    <3>2. quantas' = [quantas EXCEPT ![host[p]] = @ + 1]
      BY <2>12 DEF Registrar, Ir
    <3>3. \A h \in Hosts : quantas[h] + 1 \in Nat
      BY DEF TypeOK
    <3>4. quantas' \in [Hosts -> Nat]
      BY <3>2, <3>3 DEF TypeOK
    <3>5. UNCHANGED <<main, prox, host, cmd, ctx, tudo, anotado, rodando, fechada,
                      paralelo, pausa, resp, aprovou, abortou, depois, falhas,
                      execucoes>>
      BY <2>12 DEF Registrar, motor, saidas, aba, conversa, conta
    <3>. QED BY <3>1, <3>4, <3>5 DEF TypeOK
  <2>13. CASE AbrirPausa(p)
    <3>1. faz' \in [Procs -> Passos]
      BY <2>13, Limites DEF AbrirPausa, Ir, motor, filas, saidas, aba, conversa, conta,
       Passos, NoHost, Perguntando, TypeOK
    <3>2. resp' \in [Procs -> Respostas]
      BY <2>13, Limites DEF AbrirPausa, Ir, motor, filas, saidas, aba, conversa, conta,
       Respostas, Decisoes, Opcoes, TypeOK
    <3>3. pausa' \in Procs \cup {Ninguem}
      BY <2>13, Limites DEF AbrirPausa, Ir, motor, filas, saidas, aba, conversa, conta,
       TypeOK
    <3>. QED BY <2>13, Limites, <3>1, <3>2, <3>3 DEF AbrirPausa, Ir, motor, filas,
       saidas, aba, conversa, conta, TypeOK
  <2>14. CASE Receber(p)
    <3>1. faz' \in [Procs -> Passos]
      BY <2>14, Limites DEF Receber, Ir, motor, filas, saidas, aba, conversa, conta,
       Passos, NoHost, Perguntando, TypeOK
    <3>2. UNCHANGED <<main, prox, host, cmd, ctx, tudo, quantas, anotado, rodando,
                      fechada, paralelo, pausa, resp, aprovou, abortou, depois, falhas,
                      execucoes>>
      BY <2>14 DEF Receber, motor, saidas, aba, conversa, conta
    <3>. QED BY <3>1, <3>2 DEF TypeOK
  <2>15. CASE DecidirErro(p)
    <3>1. faz' \in [Procs -> Passos]
      BY <2>15, Limites DEF DecidirErro, LimparPausa, Encerrar, Ir, motor, filas,
       saidas, aba, conversa, conta, Passos, NoHost, Perguntando, TypeOK
    <3>2. \A st \in Status :
           [st |-> st, cmds |-> cmd[p]] \in [st : Status, cmds : 0..NCmds]
      BY <2>15, Limites DEF TypeOK, EmCurso
    <3>3. \/ anotado' = [anotado EXCEPT ![host[p]] = [st |-> "pulado", cmds |-> cmd[p]]]
         \/ anotado' = [anotado EXCEPT ![host[p]] = [st |-> "ruim", cmds |-> cmd[p]]]
         \/ anotado' = anotado
      BY <2>15 DEF DecidirErro, LimparPausa, Encerrar, Ir
    <3>4. {"pulado", "ruim"} \subseteq Status
      BY DEF Status
    <3>5. anotado' \in [Hosts -> [st : Status, cmds : 0..NCmds]]
      BY <3>2, <3>3, <3>4 DEF TypeOK
    <3>6. pausa' \in Procs \cup {Ninguem}
      BY <2>15, Limites DEF DecidirErro, LimparPausa, Encerrar, Ir, motor, filas,
       saidas, aba, conversa, conta, TypeOK
    <3>. QED BY <2>15, Limites, <3>1, <3>5, <3>6 DEF DecidirErro, LimparPausa, Encerrar,
       Ir, motor, filas, saidas, aba, conversa, conta, TypeOK
  <2>. QED BY <2>1, <2>2, <2>3, <2>4, <2>5, <2>6, <2>7, <2>8, <2>9, <2>10, <2>11,
       <2>12, <2>13, <2>14, <2>15 DEF Andar, Rede, Seguir
<1>. QED BY <1>1, <1>2, <1>3, <1>4, <1>5, <1>6, <1>7, <1>8, <1>9, <1>10, <1>11,
       <1>12, <1>13, <1>14 DEF Next, Executando

-----------------------------------------------------------------------------
(* The invariant and the theorems.                                         *)

\* IInv holds initially.
LEMMA InitIInv == Init => IInv
<1>. SUFFICES ASSUME Init
              PROVE  IInv
  OBVIOUS
<1>. USE Limites DEF Init
<1>1. TypeOK
  <2>1. faz \in [Procs -> Passos] /\ resp \in [Procs -> Respostas]
    BY DEF Passos, Respostas
  <2>2. /\ host \in [Procs -> 0..NHosts] /\ cmd \in [Procs -> 0..NCmds]
        /\ depois \in [Procs -> Nat] /\ quantas \in [Hosts -> Nat]
    OBVIOUS
  <2>3. [st |-> "nenhum", cmds |-> 0] \in [st : Status, cmds : 0..NCmds]
    BY DEF Status
  <2>4. anotado \in [Hosts -> [st : Status, cmds : 0..NCmds]]
    BY <2>3
  <2>. QED BY <2>1, <2>2, <2>4 DEF TypeOK
<1>2. Protocolo /\ EmCurso
  BY DEF Protocolo, EmCurso
<1>3. Marcas /\ Contado /\ TravaDoCanario
  BY DEF Marcas, Contado, TravaDoCanario
<1>4. Unicos /\ UmResultado
  BY DEF Unicos, Ativa, UmResultado
<1>5. OkSoCompleto /\ AbortarPara
  BY DEF OkSoCompleto, AbortarPara
<1>. QED BY <1>1, <1>2, <1>3, <1>4, <1>5 DEF IInv

\* Every step keeps IInv.
LEMMA NextIInv == IInv /\ [Next]_vars => IInv'
BY ProtocoloStep, EmCursoStep, AbortarStep, OkStep, UnicosStep, ContadoStep, MarcasStep,
   TravaStep, TypeStep DEF IInv

\* The inductive invariant holds of every execution of the motor.
THEOREM Indutivo == Spec => []IInv
BY InitIInv, NextIInv, PTL DEF Spec

\* An execution nobody stopped ends with one result per machine: the list
\* was given out to its end, no goroutine holds a host, and none was dropped.
LEMMA FimCompleto == IInv => TodosNoFim
<1>. SUFFICES ASSUME IInv, main = "fim", ~ctx, aprovou \/ NHosts <= NCanario,
                     NEW h \in Hosts
              PROVE  quantas[h] = 1
  BY DEF TodosNoFim
<1>1. prox = NHosts
  BY DEF IInv, Marcas
<1>2. \A p \in Procs : ~Ativa(p)
  BY DEF IInv, Protocolo, Ativa
<1>. QED BY <1>1, <1>2, Limites DEF IInv, Contado

\* The range of every variable, for every list, queue and pool.
THEOREM TiposDoMotor == Spec => []TypeOK
BY Indutivo, PTL DEF IInv

\* No machine ever has two results.
THEOREM UmPorMaquina == Spec => []UmResultado
BY Indutivo, PTL DEF IInv

\* An execution that nobody stopped ends with a result for every machine.
THEOREM NinguemEsquecido == Spec => []TodosNoFim
BY Indutivo, FimCompleto, PTL

\* OK means that the whole queue ran.
THEOREM OkDeVerdade == Spec => []OkSoCompleto
BY Indutivo, PTL DEF IInv

\* After the cancellation a goroutine finishes one command at most.
THEOREM AbortarParaLogo == Spec => []AbortarPara
BY Indutivo, PTL DEF IInv

\* No machine beyond the canary is touched without the operator's word.
THEOREM CanarioTrava == Spec => []TravaDoCanario
BY Indutivo, PTL DEF IInv

-----------------------------------------------------------------------------
(* The one slot for the questions of all the goroutines.                   *)

\* Whoever is at work says in which phase Executar is.
LEMMA OndeTrabalha ==
  ASSUME Protocolo, TypeOK, NEW p \in Procs, faz[p] # "fora"
  PROVE  main \in IF p = 0 THEN {"canario", "pergunta"} ELSE {"despacho", "juntar"}
<1>1. main \notin {"parada", "partindo", "fim"}
  BY DEF Protocolo
<1>2. p = 0 => main \notin {"despacho", "juntar"}
  BY DEF Protocolo
<1>3. p # 0 => main \notin {"canario", "pergunta"}
  BY DEF Protocolo
<1>. QED BY <1>1, <1>2, <1>3 DEF TypeOK

\* Only its own goroutine moves away from the question it shows, and it empties
\* the slot as it goes.
LEMMA DonoStep ==
  ASSUME TypeOK, Protocolo, PausaTemDono, [Next]_vars
  PROVE  PausaTemDono'
<1>. USE Limites DEF TypeOK, PausaTemDono, Passos, NoHost, Perguntando
<1>0. pausa # Ninguem => pausa \in Procs /\ faz[pausa] \in {"espera", "decidiu"}
  OBVIOUS
<1>1. CASE UNCHANGED vars
  BY <1>1 DEF vars, motor, filas, saidas, aba, conversa, conta
<1>2. CASE Comecar
  BY <1>2 DEF Comecar, Ir, motor, filas, saidas, aba, conversa, conta
<1>3. CASE ProximoCanario
  BY <1>3 DEF ProximoCanario, Tomar, Ir, motor, filas, saidas, aba, conversa, conta
<1>4. CASE FimDoCanario
  BY <1>4 DEF FimDoCanario, Ir, motor, filas, saidas, aba, conversa, conta
<1>5. CASE FimDoDespacho
  BY <1>5 DEF FimDoDespacho, motor, filas, saidas, aba, conversa, conta
<1>6. CASE Juntar
  BY <1>6 DEF Juntar, motor, filas, saidas, aba, conversa, conta
<1>7. CASE Terminar
  BY <1>7 DEF Terminar, motor, filas, saidas, aba, conversa, conta
<1>8. CASE DecidirCanario
  BY <1>8 DEF DecidirCanario, LimparPausa
<1>9. CASE Executar
  BY <1>9 DEF Executar, Protocolo, motor, filas, saidas, aba, conversa, conta
<1>10. CASE Responder
  BY <1>10 DEF Responder, motor, filas, saidas, aba, conversa, conta
<1>11. CASE Abortar
  BY <1>11 DEF Abortar, Cancelar, motor, filas, saidas, aba, conversa, conta
<1>12. CASE Close
  BY <1>12 DEF Close, Cancelar, motor, filas, saidas, aba, conversa, conta
<1>13. CASE EscolherRitmo
  BY <1>13 DEF EscolherRitmo, motor, filas, saidas, aba, conversa, conta
<1>14. ASSUME NEW p \in Procs, Andar(p) PROVE PausaTemDono'
  <2>1. CASE Despachar(p)
    BY <1>0, <2>1 DEF Despachar, Tomar, Ir, motor, filas, saidas, aba, conversa, conta
  <2>2. CASE ConferirHost(p)
    BY <1>0, <2>2 DEF ConferirHost, Ir, motor, filas, saidas, aba, conversa, conta
  <2>3. CASE SairDaFila(p)
    BY <1>0, <2>3 DEF SairDaFila, Ir, motor, filas, saidas, aba, conversa, conta
  <2>4. CASE Conectar(p)
    BY <1>0, <2>4 DEF Conectar, Ir, motor, filas, saidas, aba, conversa, conta
  <2>5. CASE FalharConexao(p)
    BY <1>0, <2>5 DEF FalharConexao, Encerrar, Ir, motor, filas, saidas, aba, conversa, conta
  <2>6. CASE Conferir(p)
    BY <1>0, <2>6 DEF Conferir, Encerrar, Ir, motor, filas, saidas, aba, conversa, conta
  <2>7. CASE ComandoBom(p)
    BY <1>0, <2>7 DEF ComandoBom, Voltar, Ir, motor, filas, saidas, aba, conversa, conta
  <2>8. CASE PerderSessao(p)
    BY <1>0, <2>8 DEF PerderSessao, Voltar, Ir, motor, filas, saidas, aba, conversa, conta
  <2>9. CASE ComandoRuim(p)
    BY <1>0, <2>9 DEF ComandoRuim, Voltar, Ir, motor, filas, saidas, aba, conversa, conta
  <2>10. CASE Perguntar(p)
    BY <1>0, <2>10 DEF Perguntar, Ir, motor, filas, saidas, aba, conversa, conta
  <2>11. CASE Registrar(p)
    BY <1>0, <2>11 DEF Registrar, Ir, motor, filas, saidas, aba, conversa, conta
  <2>12. CASE AbrirPausa(p)
    <3>1. main \in IF p = 0 THEN {"canario", "pergunta"} ELSE {"despacho", "juntar"}
      BY <2>12, OndeTrabalha DEF AbrirPausa
    <3>2. pausa' = p /\ faz'[p] = "espera" /\ main' = main
      BY <2>12 DEF AbrirPausa, Ir, motor
    <3>. QED BY <3>1, <3>2
  <2>13. CASE Receber(p)
    BY <1>0, <2>13 DEF Receber, Ir, motor, filas, saidas, aba, conversa, conta
  <2>14. CASE DecidirErro(p)
    BY <2>14 DEF DecidirErro, LimparPausa
  <2>. QED BY <1>14, <2>1, <2>2, <2>3, <2>4, <2>5, <2>6, <2>7, <2>8, <2>9, <2>10, <2>11,
       <2>12, <2>13, <2>14 DEF Andar, Rede, Seguir
<1>. QED BY <1>1, <1>2, <1>3, <1>4, <1>5, <1>6, <1>7, <1>8, <1>9, <1>10, <1>11,
       <1>12, <1>13, <1>14 DEF Next, Executando

\* With any number of goroutines, the question on the screen has one that waits
\* for it or has just had its answer, of the phase the execution is in.
THEOREM PerguntaComDono == Spec => []PausaTemDono
<1>1. Init => PausaTemDono
  BY DEF Init, PausaTemDono
<1>2. IInv /\ PausaTemDono /\ [Next]_vars => PausaTemDono'
  BY DonoStep DEF IInv
<1>. QED BY <1>1, <1>2, Indutivo, PTL DEF Spec

-----------------------------------------------------------------------------
(* "Continue without asking".                                              *)

\* With continuarTudo set the goroutines about to ask only become fewer, and the
\* slot takes the question of one of them or of nobody.
LEMMA SilencioStep ==
  ASSUME TypeOK, Protocolo, [Next]_vars, tudo, main # "pergunta", main' # "pergunta"
  PROVE  AFalar' \subseteq AFalar /\ pausa' \in {pausa, Ninguem} \cup AFalar
<1>. USE Limites DEF TypeOK, AFalar, Passos, NoHost, Perguntando
<1>1. CASE UNCHANGED vars
  BY <1>1 DEF vars, motor, filas, saidas, aba, conversa, conta
<1>2. CASE Comecar
  BY <1>2 DEF Comecar, Ir, motor, filas, saidas, aba, conversa, conta
<1>3. CASE ProximoCanario
  BY <1>3 DEF ProximoCanario, Tomar, Ir, motor, filas, saidas, aba, conversa, conta
<1>4. CASE FimDoCanario
  BY <1>4 DEF FimDoCanario, Ir, motor, filas, saidas, aba, conversa, conta
<1>5. CASE FimDoDespacho
  BY <1>5 DEF FimDoDespacho, motor, filas, saidas, aba, conversa, conta
<1>6. CASE Juntar
  BY <1>6 DEF Juntar, motor, filas, saidas, aba, conversa, conta
<1>7. CASE Terminar
  BY <1>7 DEF Terminar, motor, filas, saidas, aba, conversa, conta
<1>8. ~DecidirCanario
  BY DEF DecidirCanario
<1>9. CASE Executar
  BY <1>9 DEF Executar, motor, filas, saidas, aba, conversa, conta
<1>10. CASE Responder
  BY <1>10 DEF Responder, motor, filas, saidas, aba, conversa, conta
<1>11. CASE Abortar
  BY <1>11 DEF Abortar, Cancelar, motor, filas, saidas, aba, conversa, conta
<1>12. CASE Close
  BY <1>12 DEF Close, Cancelar, motor, filas, saidas, aba, conversa, conta
<1>13. CASE EscolherRitmo
  BY <1>13 DEF EscolherRitmo, motor, filas, saidas, aba, conversa, conta
<1>14. ASSUME NEW p \in Procs, Andar(p)
       PROVE  AFalar' \subseteq AFalar /\ pausa' \in {pausa, Ninguem} \cup AFalar
  <2>1. CASE Despachar(p)
    BY <2>1 DEF Despachar, Tomar, Ir, motor, filas, saidas, aba, conversa, conta
  <2>2. CASE ConferirHost(p)
    BY <2>2 DEF ConferirHost, Ir, motor, filas, saidas, aba, conversa, conta
  <2>3. CASE SairDaFila(p)
    BY <2>3 DEF SairDaFila, Ir, motor, filas, saidas, aba, conversa, conta
  <2>4. CASE Conectar(p)
    BY <2>4 DEF Conectar, Ir, motor, filas, saidas, aba, conversa, conta
  <2>5. CASE FalharConexao(p)
    BY <2>5 DEF FalharConexao, Encerrar, Ir, motor, filas, saidas, aba, conversa, conta
  <2>6. CASE Conferir(p)
    BY <2>6 DEF Conferir, Encerrar, Ir, motor, filas, saidas, aba, conversa, conta
  <2>7. CASE ComandoBom(p)
    BY <2>7 DEF ComandoBom, Voltar, Ir, motor, filas, saidas, aba, conversa, conta
  <2>8. CASE PerderSessao(p)
    BY <2>8 DEF PerderSessao, Voltar, Ir, motor, filas, saidas, aba, conversa, conta
  <2>9. CASE ComandoRuim(p)
    BY <2>9 DEF ComandoRuim, Voltar, Ir, motor, filas, saidas, aba, conversa, conta
  <2>10. CASE Perguntar(p)
    BY <2>10 DEF Perguntar, Ir, motor, filas, saidas, aba, conversa, conta
  <2>11. CASE Registrar(p)
    BY <2>11 DEF Registrar, Ir, motor, filas, saidas, aba, conversa, conta
  <2>12. CASE AbrirPausa(p)
    BY <2>12 DEF AbrirPausa, Ir, motor, filas, saidas, aba, conversa, conta
  <2>13. CASE Receber(p)
    BY <2>13 DEF Receber, Ir, motor, filas, saidas, aba, conversa, conta
  <2>14. CASE DecidirErro(p)
    BY <2>14 DEF DecidirErro, LimparPausa, Encerrar, Ir, motor, filas, saidas, aba, conversa, conta
  <2>. QED BY <1>14, <2>1, <2>2, <2>3, <2>4, <2>5, <2>6, <2>7, <2>8, <2>9, <2>10, <2>11,
       <2>12, <2>13, <2>14 DEF Andar, Rede, Seguir
<1>. QED BY <1>1, <1>2, <1>3, <1>4, <1>5, <1>6, <1>7, <1>8, <1>9, <1>10, <1>11,
       <1>12, <1>13, <1>14 DEF Next, Executando

\* With any number of goroutines and failures, in any execution, after "continue
\* without asking" the only questions that come are of the goroutines that were
\* about to ask, each once.
THEOREM SilencioDepoisDeTudo == Spec => NaoPerguntaMais
<1>1. IInv /\ [Next]_vars
        => [tudo /\ tudo' /\ "pergunta" \notin {main, main'} =>
              AFalar' \subseteq AFalar /\ pausa' \in {pausa, Ninguem} \cup AFalar]_vars
  BY SilencioStep DEF IInv
<1>. QED BY <1>1, Indutivo, PTL DEF Spec, NaoPerguntaMais
=============================================================================
